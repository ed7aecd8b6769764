---------------------------- MODULE PhoneLinkProofs ----------------------------
(***************************************************************************)
(* Proofs about PhoneLink, for every list of addresses and every number of *)
(* messages and of changes of the network: a stream that a change silenced *)
(* is kept only if it was handled while connectTo() had not named it, no   *)
(* change is slept through, and addresses are tried in order of rank.  The *)
(* last rests on what order() does with any list of addresses              *)
(* (OrderRanked) and isLocal() with any fields (LocalBlocks).              *)
(***************************************************************************)
EXTENDS PhoneLink, FiniteSetTheorems, SequenceTheorems, TLAPS

\* A stream carries bytes only over a default network, and none that was silenced does.
CarriedByDefault == stream.alive => default # 0 /\ stream.open /\ ~ quiet

\* The worker holds no client while it looks for a stream; from the handshake on it has a
\* stream, which client names next and endpoint after that.
ClientInstalled ==
  /\ pc \in {"drain", "order", "connect"} => ~ stream.alive
  /\ pc \in {"drain", "order", "connect", "opened"} => ~ client
  /\ quiet \/ stream.alive => client \/ pc = "opened"
  /\ client /\ pc # "endpoint" => endpoint = stream.host

\* The change that silenced the stream is still on its way to Disconnect: unseen, or
\* handled and found to be one that abandons, or to be judged so as soon as endpoint
\* names the stream.
Pending ==
  \/ default # seenDefault /\ seenDefault # 0
  \/ lan # seenLan /\ seenLan /\ stream.host \in LocalHosts
  \/ /\ wpc \in {"clear", "judge"}
     /\ change = "SWITCHED" \/ (change = "LOCAL_LOST" /\ stream.host \in LocalHosts)
  \/ wpc = "abandon" /\ abandon

QuietIsPending == quiet /\ stream.open => overlooked \/ Pending

\* Only between drainWake() and the order of the next attempt is a change neither in
\* a permit nor followed up.
ChangeHasPermit == permits \in Nat /\ (unseen => permits > 0 \/ pc = "order")

\* What the steps above need of the types.
Typed ==
  /\ lan \in BOOLEAN /\ seenLan \in BOOLEAN /\ abandon \in BOOLEAN
  /\ client \in BOOLEAN /\ quiet \in BOOLEAN /\ overlooked \in BOOLEAN /\ unseen \in BOOLEAN
  /\ stream.alive \in BOOLEAN /\ stream.open \in BOOLEAN

IInv ==
  /\ Typed
  /\ CarriedByDefault /\ ClientInstalled /\ QuietIsPending /\ ChangeHasPermit

USE DEF network, watch, box, loopvars, hush, still

LEMMA EnvironmentKeeps == ASSUME IInv, Environment PROVE IInv'
<1> USE DEF IInv, Typed, CarriedByDefault, ClientInstalled, QuietIsPending, Pending,
        ChangeHasPermit, Abandons
<1>1. ASSUME NEW n, DefaultChanges(n) PROVE IInv'
  <2>1. /\ default = seenDefault /\ n # default /\ default' = n
        /\ lan' = lan /\ seenLan' = seenLan /\ seenDefault' = seenDefault
        /\ abandon' = abandon /\ change' = change /\ wpc' = wpc /\ pc' = pc
        /\ client' = client /\ endpoint' = endpoint
        /\ permits' = permits /\ unseen' = unseen
    BY <1>1 DEF DefaultChanges
  <2>2. /\ stream'.host = stream.host /\ stream'.open = stream.open
        /\ stream'.alive = FALSE
        /\ quiet' = (quiet \/ stream.alive) /\ overlooked' = overlooked
    BY <1>1 DEF DefaultChanges, Killed, Silent
  <2>3. Typed'
    BY <2>1, <2>2
  <2>4. CarriedByDefault' /\ ChangeHasPermit'
    BY <2>1, <2>2
  <2>5. ClientInstalled'
    BY <2>1, <2>2
  <2>6. QuietIsPending'
    BY <2>1, <2>2
  <2> QED
    BY <2>3, <2>4, <2>5, <2>6
<1>2. ASSUME LanLost, stream.host \in LocalHosts PROVE IInv'
  <2>1. /\ lan = TRUE /\ seenLan = TRUE /\ lan' = FALSE
        /\ default' = default /\ seenLan' = seenLan /\ seenDefault' = seenDefault
        /\ abandon' = abandon /\ change' = change /\ wpc' = wpc /\ pc' = pc
        /\ client' = client /\ endpoint' = endpoint
        /\ permits' = permits /\ unseen' = unseen
    BY <1>2 DEF LanLost
  <2>2. /\ stream'.host = stream.host /\ stream'.open = stream.open
        /\ stream'.alive = FALSE
        /\ quiet' = (quiet \/ stream.alive) /\ overlooked' = overlooked
    BY <1>2 DEF LanLost, Killed, Silent
  <2>3. Typed'
    BY <2>1, <2>2
  <2>4. CarriedByDefault' /\ ChangeHasPermit'
    BY <2>1, <2>2
  <2>5. ClientInstalled'
    BY <2>1, <2>2
  <2>6. QuietIsPending'
    BY <1>2, <2>1, <2>2
  <2> QED
    BY <2>3, <2>4, <2>5, <2>6
<1>5. ASSUME LanLost, stream.host \notin LocalHosts PROVE IInv'
  BY <1>5 DEF LanLost
<1>3. CASE LanGained
  BY <1>3 DEF LanGained
<1>4. CASE StreamBreaks
  BY <1>4 DEF StreamBreaks, Silent
<1> QED
  BY <1>1, <1>2, <1>3, <1>4, <1>5 DEF Environment

LEMMA WatchKeeps == ASSUME IInv, WatchStep PROVE IInv'
<1> USE DEF IInv, Typed, CarriedByDefault, ClientInstalled, QuietIsPending, Pending,
        ChangeHasPermit, Abandons
<1>1. CASE DefaultSeen
  BY <1>1 DEF DefaultSeen, Emit
<1>2. CASE LanSeen
  BY <1>2 DEF LanSeen, Emit
<1>3. CASE ClearLastWorked
  BY <1>3 DEF ClearLastWorked
<1>4. CASE Judge
  BY <1>4 DEF Judge, LanStreamUnnamed
<1>5. CASE Disconnect
  BY <1>5 DEF Disconnect, Silent
<1>6. CASE ReleaseWake
  <2> USE <1>6 DEF ReleaseWake
  <2>1. Typed' /\ CarriedByDefault'
    OBVIOUS
  <2>2. ClientInstalled'
    OBVIOUS
  <2>3. QuietIsPending'
    OBVIOUS
  <2>4. ChangeHasPermit'
    OBVIOUS
  <2> QED
    BY <2>1, <2>2, <2>3, <2>4
<1> QED
  BY <1>1, <1>2, <1>3, <1>4, <1>5, <1>6 DEF WatchStep

LEMMA WorkerKeeps == ASSUME IInv, Worker PROVE IInv'
<1> USE DEF IInv, Typed, CarriedByDefault, ClientInstalled, QuietIsPending, Pending,
        ChangeHasPermit, Abandons
<1>1. ASSUME Top, client /\ stream.open PROVE IInv'
  BY <1>1 DEF Top
<1>17. ASSUME Top, ~ (client /\ stream.open) PROVE IInv'
  <2>1. /\ client' = FALSE /\ stream' = NoStream /\ quiet' = FALSE /\ overlooked' = FALSE
        /\ pc = "top" /\ pc' = "drain"
    BY <1>17 DEF Top
  <2>2. UNCHANGED <<default, lan, watch, endpoint, permits, unseen>>
    BY <1>17 DEF Top
  <2> QED
    BY <2>1, <2>2 DEF NoStream
<1>2. CASE DrainWake
  BY <1>2 DEF DrainWake
<1>3. CASE MakeOrder
  BY <1>3 DEF MakeOrder
<1>4. CASE ConnectOpens
  BY <1>4 DEF ConnectOpens, Reachable
<1>5. CASE ConnectRefused
  BY <1>5 DEF ConnectRefused
<1>6. CASE SetClient
  BY <1>6 DEF SetClient
<1>7. CASE SetEndpoint
  BY <1>7 DEF SetEndpoint
<1>8. CASE SetLastWorked
  BY <1>8 DEF SetLastWorked
<1>9. CASE Check
  BY <1>9 DEF Check
<1>10. CASE Wait
  BY <1>10 DEF Wait
<1>11. CASE Publish
  BY <1>11 DEF Publish
<1>12. CASE BatchSent
  BY <1>12 DEF BatchSent
<1>13. CASE PublishThrows
  BY <1>13 DEF PublishThrows
<1>14. CASE Failed
  BY <1>14 DEF Failed, NoStream
<1>15. CASE Woken
  BY <1>15 DEF Woken
<1>16. CASE BackoffOver
  BY <1>16 DEF BackoffOver
<1> QED
  BY <1>1, <1>2, <1>3, <1>4, <1>5, <1>6, <1>7, <1>8, <1>9, <1>10, <1>11, <1>12, <1>13,
     <1>14, <1>15, <1>16, <1>17 DEF Worker

LEMMA OthersKeep ==
  ASSUME IInv, Offer \/ OldestAges \/ UNCHANGED vars PROVE IInv'
BY DEF IInv, Typed, CarriedByDefault, ClientInstalled, QuietIsPending, Pending,
       ChangeHasPermit, Abandons, Offer, OldestAges, vars

LEMMA Initially == Init => IInv
<1> SUFFICES ASSUME Init PROVE IInv
  OBVIOUS
<1> USE DEF Init, NoStream
<1>1. Typed /\ CarriedByDefault
  BY DEF Typed, CarriedByDefault
<1>2. ClientInstalled
  BY DEF ClientInstalled
<1>3. QuietIsPending
  BY DEF QuietIsPending
<1>4. ChangeHasPermit
  BY DEF ChangeHasPermit
<1> QED
  BY <1>1, <1>2, <1>3, <1>4 DEF IInv

LEMMA Invariance == Spec => []IInv
<1>1. IInv /\ [Next]_vars => IInv'
  BY EnvironmentKeeps, WatchKeeps, WorkerKeeps, OthersKeep DEF Next
<1> QED
  BY <1>1, Initially, PTL DEF Spec

\* Once the watch has handled every change, a stream that one silenced is kept only if it
\* was handled between its handshake and connectTo() naming it, wherever in the connect
\* the change struck (NetworkWatch.kt:16-19, MqttLink.kt:88-102, 217-226).
THEOREM SilencedStreamsGo == Spec => []SilentIsOverlooked
<1>1. IInv => SilentIsOverlooked
  BY DEF IInv, QuietIsPending, Pending, SilentIsOverlooked, Caught
<1> QED
  BY <1>1, Invariance, PTL

\* A change reported while a connect failed ends the backoff (MqttLink.kt:44-45, 168).
THEOREM NoChangeSleptThrough == Spec => []ChangeEndsBackoff
<1>1. IInv => ChangeEndsBackoff
  BY DEF IInv, ChangeHasPermit, ChangeEndsBackoff
<1> QED
  BY <1>1, Invariance, PTL

-----------------------------------------------------------------------------
(* The positions a filter keeps, in their order.                           *)

Preceding(S, i) == { k \in S : k < i }

LEMMA PlacesBefore ==
  ASSUME NEW n \in Nat, NEW S \in SUBSET (1 .. n)
  PROVE  /\ IsFiniteSet(S) /\ Cardinality(S) \in Nat /\ Cardinality(S) <= n
         /\ \A i \in S : Cardinality(Preceding(S, i)) \in 0 .. Cardinality(S) - 1
         /\ \A i, j \in S : i < j => Cardinality(Preceding(S, i)) < Cardinality(Preceding(S, j))
         /\ \A m \in 0 .. Cardinality(S) - 1 : \E i \in S : Cardinality(Preceding(S, i)) = m
<1>0. \A i \in S : i \in Int
  OBVIOUS
<1>1. IsFiniteSet(1 .. n) /\ Cardinality(1 .. n) = n
  BY FS_Interval
<1>2. IsFiniteSet(S) /\ Cardinality(S) \in Nat /\ Cardinality(S) <= n
  BY <1>1, FS_Subset, FS_CardinalityType
<1>3. ASSUME NEW T \in SUBSET S, NEW R \in SUBSET T, NEW i \in T, i \notin R
      PROVE  /\ Cardinality(R) < Cardinality(T)
             /\ Cardinality(R) \in Nat /\ Cardinality(T) \in Nat
  <2>1. IsFiniteSet(T)
    BY <1>2, FS_Subset
  <2>2. Cardinality(R) <= Cardinality(T) /\ Cardinality(R) # Cardinality(T) /\ IsFiniteSet(R)
    BY <1>3, <2>1, FS_Subset
  <2>3. Cardinality(R) \in Nat /\ Cardinality(T) \in Nat
    BY <2>1, <2>2, FS_CardinalityType
  <2> QED
    BY <2>2, <2>3
<1>4. ASSUME NEW i \in S PROVE Cardinality(Preceding(S, i)) \in 0 .. Cardinality(S) - 1
  <2>1. Preceding(S, i) \in SUBSET S /\ i \notin Preceding(S, i)
    BY DEF Preceding
  <2> QED
    BY <1>2, <1>3, <2>1
<1>5. ASSUME NEW i \in S, NEW j \in S, i < j
      PROVE  Cardinality(Preceding(S, i)) < Cardinality(Preceding(S, j))
  <2>1. /\ Preceding(S, i) \in SUBSET Preceding(S, j) /\ Preceding(S, j) \in SUBSET S
        /\ i \in Preceding(S, j) /\ i \notin Preceding(S, i)
    <3>1. \A k \in S : k < i => k < j
      BY <1>0, <1>5
    <3>2. ~ (i < i)
      BY <1>0
    <3> QED
      BY <1>5, <3>1, <3>2, Zenon DEF Preceding
  <2> QED
    BY <1>3, <2>1, Zenon
<1>6. ASSUME NEW i \in S, NEW j \in S, Cardinality(Preceding(S, i)) = Cardinality(Preceding(S, j))
      PROVE  i = j
  <2>1. Cardinality(Preceding(S, i)) \in Nat /\ Cardinality(Preceding(S, j)) \in Nat
    BY <1>2, <1>4
  <2> QED
    BY <1>5, <1>6, <2>1
<1>7. ASSUME NEW m \in 0 .. Cardinality(S) - 1 PROVE \E i \in S : Cardinality(Preceding(S, i)) = m
  <2> DEFINE f   == [i \in S |-> Cardinality(Preceding(S, i))]
             Img == { Cardinality(Preceding(S, i)) : i \in S }
             Nos == 0 .. Cardinality(S) - 1
  <2>1. Img \subseteq Nos
    BY <1>4
  <2>2. f \in Bijection(S, Img)
    <3>1. f \in [S -> Img] /\ \A c \in Img : \E i \in S : f[i] = c
      OBVIOUS
    <3>2. \A i, j \in S : f[i] = f[j] => i = j
      BY <1>6
    <3> HIDE DEF f, Img
    <3> QED
      BY <3>1, <3>2 DEF Bijection, Injection, Surjection, IsInjective
  <2> HIDE DEF f, Img
  <2>3. Cardinality(Img) = Cardinality(S)
    BY <1>2, <2>2, FS_Bijection DEF ExistsBijection
  <2>4. IsFiniteSet(Nos) /\ Cardinality(Nos) = Cardinality(S)
    <3>1. PICK c \in Nat : c = Cardinality(S)
      BY <1>2
    <3>2. IsFiniteSet(0 .. c - 1) /\ Cardinality(0 .. c - 1) = IF 0 > c - 1 THEN 0 ELSE c - 1 - 0 + 1
      BY FS_Interval
    <3> QED
      BY <3>1, <3>2
  <2>5. Img = Nos
    <3> HIDE DEF Nos
    <3> QED
      BY <2>1, <2>3, <2>4, FS_Subset
  <2> QED
    BY <1>7, <2>5 DEF Img
<1> QED
  BY <1>2, <1>4, <1>5, <1>7

LEMMA InOrderIs ==
  ASSUME NEW n \in Nat, NEW S \in SUBSET (1 .. n)
  PROVE  /\ Cardinality(S) \in Nat /\ DOMAIN InOrder(S) = 1 .. Cardinality(S)
         /\ \A k \in 1 .. Cardinality(S) : InOrder(S)[k] \in S
         /\ \A j, k \in 1 .. Cardinality(S) : j < k => InOrder(S)[j] < InOrder(S)[k]
         /\ \A i \in S : \E k \in 1 .. Cardinality(S) : InOrder(S)[k] = i
<1>0. \A i \in S : i \in Int
  OBVIOUS
<1> DEFINE q == InOrder(S)
           c == Cardinality(S)
           before(i) == Cardinality(Preceding(S, i))
<1>1. /\ c \in Nat /\ \A i \in S : before(i) \in 0 .. c - 1
      /\ \A i, j \in S : i < j => before(i) < before(j)
      /\ \A m \in 0 .. c - 1 : \E i \in S : before(i) = m
  BY PlacesBefore
<1>2. q = [k \in 1 .. c |-> CHOOSE i \in S : before(i) = k - 1]
  BY DEF InOrder, Preceding
<1> HIDE DEF q, c, before
<1>3. ASSUME NEW k \in 1 .. c PROVE q[k] \in S /\ before(q[k]) = k - 1
  <2>1. k - 1 \in 0 .. c - 1
    BY <1>1
  <2>2. \E i \in S : before(i) = k - 1
    BY <1>1, <2>1
  <2>3. q[k] = CHOOSE i \in S : before(i) = k - 1
    BY <1>2
  <2> QED
    BY <2>2, <2>3
<1>4. ASSUME NEW j \in 1 .. c, NEW k \in 1 .. c, j < k PROVE q[j] < q[k]
  <2>1. PICK a \in S, b \in S : a = q[j] /\ before(a) = j - 1 /\ b = q[k] /\ before(b) = k - 1
    BY <1>3
  <2>2. ~ (b < a) /\ a # b
    BY <1>1, <1>4, <2>1
  <2> QED
    BY <2>1, <2>2
<1>5. ASSUME NEW i \in S PROVE \E k \in 1 .. c : q[k] = i
  <2>1. PICK k \in 1 .. c : before(i) = k - 1
    <3>1. before(i) + 1 \in 1 .. c /\ before(i) = (before(i) + 1) - 1
      BY <1>1
    <3> QED
      BY <3>1
  <2>2. q[k] \in S /\ before(q[k]) = before(i)
    BY <1>3, <2>1
  <2>3. ~ (before(i) < before(i))
    BY <1>1
  <2>4. ~ (q[k] < i) /\ ~ (i < q[k])
    BY <1>1, <2>2, <2>3, Zenon
  <2>5. q[k] \in Int /\ i \in Int
    BY <1>0, <2>2
  <2>6. q[k] = i
    BY <2>4, <2>5
  <2> QED
    BY <2>6
<1>6. DOMAIN q = 1 .. c
  BY <1>2
<1> QED
  BY <1>1, <1>3, <1>4, <1>5, <1>6 DEF q, c

Distinct(s) == \A i, k \in DOMAIN s : s[i] = s[k] => i = k

\* What is at the places, by the function of their positions.
LEMMA PlacesIs ==
  ASSUME NEW n \in Nat, NEW hosts, DOMAIN hosts = 1 .. n, NEW S \in SUBSET (1 .. n)
  PROVE  /\ Cardinality(S) \in Nat
         /\ DOMAIN AtPlaces(hosts, S) = 1 .. Cardinality(S)
         /\ AtPlaces(hosts, S) = [k \in 1 .. Cardinality(S) |-> hosts[InOrder(S)[k]]]
BY InOrderIs DEF AtPlaces

\* Two filters that between them keep everything.
LEMMA PartsCount ==
  ASSUME NEW n \in Nat, NEW S \in SUBSET (1 .. n)
  PROVE  Cardinality((1 .. n) \ S) + Cardinality(S) = n
<1>1. IsFiniteSet(1 .. n) /\ Cardinality(1 .. n) = n
  BY FS_Interval
<1>2. IsFiniteSet(S) /\ IsFiniteSet((1 .. n) \ S)
  BY <1>1, FS_Subset, FS_Difference
<1>3. Cardinality(((1 .. n) \ S) \cup S) =
        Cardinality((1 .. n) \ S) + Cardinality(S) - Cardinality(((1 .. n) \ S) \cap S)
  BY <1>2, FS_Union
<1>4. ((1 .. n) \ S) \cup S = 1 .. n /\ ((1 .. n) \ S) \cap S = {}
  BY Zenon
<1>5. Cardinality({}) = 0
  BY FS_EmptySet
<1>6. Cardinality(S) \in Nat /\ Cardinality((1 .. n) \ S) \in Nat
  BY <1>2, FS_CardinalityType
<1>7. n = Cardinality((1 .. n) \ S) + Cardinality(S) - 0
  BY <1>1, <1>3, <1>4, <1>5, Zenon
<1> QED
  BY <1>6, <1>7

\* How base lists the addresses: b gives the place of each in hosts.
Lists(hosts, local, onLocalNetwork, base, b) ==
  /\ DOMAIN b = DOMAIN hosts
  /\ base = [k \in DOMAIN hosts |-> hosts[b[k]]]
  /\ \A k \in DOMAIN hosts : b[k] \in DOMAIN hosts
  /\ \A i \in DOMAIN hosts : \E k \in DOMAIN hosts : b[k] = i
  /\ \A j, k \in DOMAIN hosts : j < k =>
       LET far(i) == ~ onLocalNetwork /\ hosts[i] \in local
       IN  \/ ~ far(b[j]) /\ far(b[k])
           \/ far(b[j]) = far(b[k]) /\ b[j] < b[k]

LEMMA BaseLists ==
  ASSUME NEW X, NEW hosts \in Seq(X), NEW local, NEW onLocalNetwork \in BOOLEAN
  PROVE  /\ Base(hosts, local, onLocalNetwork) \in Seq(X)
         /\ \E b : Lists(hosts, local, onLocalNetwork, Base(hosts, local, onLocalNetwork), b)
<1> DEFINE base == Base(hosts, local, onLocalNetwork)
<1>1. PICK n \in Nat : n = Len(hosts) /\ DOMAIN hosts = 1 .. n /\ hosts \in [1 .. n -> X]
  OBVIOUS
<1>2. CASE onLocalNetwork
  <2> DEFINE b == [k \in 1 .. n |-> k]
  <2>1. base = hosts
    BY <1>2 DEF Base
  <2>2. Lists(hosts, local, onLocalNetwork, hosts, b)
    BY <1>1, <1>2 DEF Lists
  <2> QED
    BY <2>1, <2>2
<1>3. CASE ~ onLocalNetwork
  <2> DEFINE near == { i \in DOMAIN hosts : hosts[i] \notin local }
             far  == { i \in DOMAIN hosts : hosts[i] \in local }
             a == InOrder(near)
             d == InOrder(far)
             c == Cardinality(near)
             b == [k \in 1 .. n |-> IF k <= c THEN a[k] ELSE d[k - c]]
  <2>1. near \in SUBSET (1 .. n) /\ far \in SUBSET (1 .. n) /\ far = (1 .. n) \ near
    BY <1>1
  <2>2. \A i \in near : hosts[i] \notin local
    OBVIOUS
  <2>3. \A i \in far : hosts[i] \in local
    OBVIOUS
  <2> HIDE DEF near, far
  <2>4. c \in Nat /\ Cardinality(far) \in Nat /\ Cardinality(far) = n - c
    BY <2>1, PartsCount, PlacesIs, <1>1
  <2>5. /\ \A k \in 1 .. c : a[k] \in near
        /\ \A j, k \in 1 .. c : j < k => a[j] < a[k]
        /\ \A i \in near : \E k \in 1 .. c : a[k] = i
    BY <2>1, InOrderIs
  <2>6. /\ \A k \in 1 .. n - c : d[k] \in far
        /\ \A j, k \in 1 .. n - c : j < k => d[j] < d[k]
        /\ \A i \in far : \E k \in 1 .. n - c : d[k] = i
    <3>0. far \in SUBSET (1 .. n)
      BY <2>1
    <3>1. /\ \A k \in 1 .. Cardinality(far) : d[k] \in far
          /\ \A j, k \in 1 .. Cardinality(far) : j < k => d[j] < d[k]
          /\ \A i \in far : \E k \in 1 .. Cardinality(far) : d[k] = i
      BY <3>0, InOrderIs, Zenon
    <3> QED
      BY <2>4, <3>1, Zenon
  <2>7. Others(hosts, local) = [k \in 1 .. c |-> hosts[a[k]]]
    <3>1. Others(hosts, local) = AtPlaces(hosts, near)
      BY DEF Others, near
    <3> QED
      BY <1>1, <2>1, <3>1, PlacesIs
  <2>8. Those(hosts, local) = [k \in 1 .. n - c |-> hosts[d[k]]]
    <3>1. Those(hosts, local) = AtPlaces(hosts, far)
      BY DEF Those, far
    <3>0. DOMAIN InOrder(far) = 1 .. Cardinality(far)
      BY <2>1, InOrderIs
    <3>2. AtPlaces(hosts, far) = [k \in 1 .. Cardinality(far) |-> hosts[InOrder(far)[k]]]
      BY <3>0, Zenon DEF AtPlaces
    <3> QED
      BY <2>4, <3>1, <3>2
  <2> HIDE DEF a, d, c
  <2>9. Others(hosts, local) \in Seq(X) /\ Len(Others(hosts, local)) = c
    <3>1. Others(hosts, local) \in [1 .. c -> X]
      BY <1>1, <2>1, <2>5, <2>7
    <3> QED
      BY <2>4, <3>1
  <2>10. Those(hosts, local) \in Seq(X) /\ Len(Those(hosts, local)) = n - c
    <3>1. Those(hosts, local) \in [1 .. n - c -> X]
      BY <1>1, <2>1, <2>6, <2>8
    <3>2. n - c \in Nat
      BY <2>4
    <3> QED
      BY <3>1, <3>2
  <2>11. base = Others(hosts, local) \o Those(hosts, local)
    BY <1>3 DEF Base
  <2>12. /\ base \in Seq(X) /\ Len(base) = n
         /\ \A k \in 1 .. n : base[k] = hosts[b[k]]
    <3>1. /\ base \in Seq(X) /\ Len(base) = c + (n - c)
          /\ \A k \in 1 .. c + (n - c) :
               base[k] = IF k <= c THEN Others(hosts, local)[k] ELSE Those(hosts, local)[k - c]
      <4> DEFINE o == Others(hosts, local)
                 t == Those(hosts, local)
      <4>1. o \in Seq(X) /\ t \in Seq(X) /\ Len(o) = c /\ Len(t) = n - c /\ base = o \o t
        BY <2>9, <2>10, <2>11
      <4> HIDE DEF o, t, base
      <4>2. /\ o \o t \in Seq(X) /\ Len(o \o t) = Len(o) + Len(t)
            /\ \A k \in 1 .. (Len(o) + Len(t)) : (o \o t)[k] = IF k <= Len(o) THEN o[k] ELSE t[k - Len(o)]
        BY <4>1, ConcatProperties
      <4> QED
        BY <4>1, <4>2 DEF o, t
    <3>2. c + (n - c) = n
      BY <2>4
    <3>3. ASSUME NEW k \in 1 .. n PROVE base[k] = hosts[b[k]]
      <4>1. CASE k <= c
        BY <2>4, <2>7, <3>1, <3>2, <4>1
      <4>2. CASE ~ k <= c
        <5>1. k - c \in 1 .. n - c
          BY <2>4, <4>2
        <5> QED
          BY <2>4, <2>8, <3>1, <3>2, <4>2, <5>1
      <4> QED
        BY <4>1, <4>2
    <3> QED
      BY <3>1, <3>2, <3>3
  <2>13. \A k \in 1 .. n : /\ k <= c => k \in 1 .. c /\ b[k] = a[k] /\ b[k] \in near
                           /\ ~ k <= c => k - c \in 1 .. n - c /\ b[k] = d[k - c] /\ b[k] \in far
    BY <2>4, <2>5, <2>6
  <2>14. \A k \in 1 .. n : b[k] \in 1 .. n
    BY <2>1, <2>13
  <2>15. ASSUME NEW i \in 1 .. n PROVE \E k \in 1 .. n : b[k] = i
    <3>1. CASE i \in near
      <4>1. PICK k \in 1 .. c : a[k] = i
        BY <2>5, <3>1
      <4>2. k \in 1 .. n /\ k <= c
        BY <2>4
      <4> QED
        BY <2>13, <4>1, <4>2
    <3>2. CASE i \in far
      <4>1. PICK m \in 1 .. n - c : d[m] = i
        BY <2>6, <3>2
      <4>2. m + c \in 1 .. n /\ ~ m + c <= c /\ (m + c) - c = m
        BY <2>4
      <4> QED
        BY <2>13, <4>1, <4>2
    <3> QED
      BY <2>1, <3>1, <3>2
  <2>16. ASSUME NEW j \in 1 .. n, NEW k \in 1 .. n, j < k
         PROVE  \/ b[j] \in near /\ b[k] \in far
                \/ b[j] \in near /\ b[k] \in near /\ b[j] < b[k]
                \/ b[j] \in far /\ b[k] \in far /\ b[j] < b[k]
    <3>1. CASE k <= c
      BY <2>4, <2>5, <2>13, <2>16, <3>1
    <3>2. CASE j <= c /\ ~ k <= c
      BY <2>13, <3>2
    <3>3. CASE ~ j <= c
      <4>1. j - c \in 1 .. n - c /\ k - c \in 1 .. n - c /\ j - c < k - c /\ ~ k <= c
        BY <2>4, <2>16, <3>3
      <4> QED
        BY <2>6, <2>13, <3>3, <4>1
    <3> QED
      BY <2>4, <2>16, <3>1, <3>2, <3>3
  <2>17. DOMAIN b = 1 .. n
    OBVIOUS
  <2> HIDE DEF b
  <2>18. Lists(hosts, local, onLocalNetwork, base, b)
    <3>1. base = [k \in DOMAIN hosts |-> hosts[b[k]]]
      <4> HIDE DEF base
      <4> QED
        BY <1>1, <2>12
    <3> HIDE DEF base
    <3>2. ASSUME NEW j \in 1 .. n, NEW k \in 1 .. n, j < k
          PROVE  LET dist(i) == ~ onLocalNetwork /\ hosts[i] \in local
                 IN  \/ ~ dist(b[j]) /\ dist(b[k])
                     \/ dist(b[j]) = dist(b[k]) /\ b[j] < b[k]
      BY <1>3, <2>2, <2>3, <2>16, <3>2, Zenon
    <3> QED
      BY <1>1, <2>14, <2>15, <2>17, <3>1, <3>2 DEF Lists
  <2> QED
    BY <2>12, <2>18
<1> QED
  BY <1>2, <1>3

\* Whatever distinct addresses are provisioned, order() tries each of them, best rank
\* first: what worked last, then the base list's others in its order
\* (Endpoints.kt:30-39).
THEOREM OrderRanked ==
  ASSUME NEW X, NEW hosts \in Seq(X), Distinct(hosts), NEW local,
         NEW onLocalNetwork \in BOOLEAN, NEW worked
  PROVE  /\ Order(hosts, local, onLocalNetwork, worked) \in Seq(X)
         /\ \A k \in DOMAIN Order(hosts, local, onLocalNetwork, worked) :
              \E i \in DOMAIN hosts : Order(hosts, local, onLocalNetwork, worked)[k] = hosts[i]
         /\ Ranked(hosts, local, onLocalNetwork, worked)
<1> DEFINE base == Base(hosts, local, onLocalNetwork)
           tried == Order(hosts, local, onLocalNetwork, worked)
           rank(h) == Rank(hosts, local, onLocalNetwork, worked, h)
           far(i) == ~ onLocalNetwork /\ hosts[i] \in local
<1>1. PICK n \in Nat : n = Len(hosts) /\ DOMAIN hosts = 1 .. n /\ hosts \in [1 .. n -> X]
  OBVIOUS
<1>2. base \in Seq(X)
  BY BaseLists
<1>3. PICK b : Lists(hosts, local, onLocalNetwork, base, b)
  BY BaseLists
<1> HIDE DEF base
<1>4. /\ base = [k \in 1 .. n |-> hosts[b[k]]]
      /\ \A k \in 1 .. n : b[k] \in 1 .. n
      /\ \A i \in 1 .. n : \E k \in 1 .. n : b[k] = i
      /\ \A j, k \in 1 .. n : j < k => \/ ~ far(b[j]) /\ far(b[k])
                                       \/ far(b[j]) = far(b[k]) /\ b[j] < b[k]
  BY <1>1, <1>3 DEF Lists
<1>5. ASSUME NEW i \in 1 .. n PROVE Position(hosts, hosts[i]) = i
  BY <1>1 DEF Distinct, Position
<1>6. ASSUME NEW i \in 1 .. n
      PROVE  rank(hosts[i]) = <<IF hosts[i] = worked THEN 0 ELSE 1, IF far(i) THEN 1 ELSE 0, i>>
  BY <1>5 DEF Rank
<1>7. ASSUME NEW i \in 1 .. n, NEW k \in 1 .. n, hosts[i] = worked, hosts[k] # worked
      PROVE  Before(rank(hosts[i]), rank(hosts[k]))
  BY <1>6, <1>7 DEF Before
<1>8. ASSUME NEW i \in 1 .. n, NEW k \in 1 .. n, hosts[i] # worked, hosts[k] # worked,
             \/ ~ far(i) /\ far(k)
             \/ far(i) = far(k) /\ i < k
      PROVE  Before(rank(hosts[i]), rank(hosts[k]))
  <2> HIDE DEF far
  <2>1. /\ rank(hosts[i]) = <<1, IF far(i) THEN 1 ELSE 0, i>>
        /\ rank(hosts[k]) = <<1, IF far(k) THEN 1 ELSE 0, k>>
    BY <1>6, <1>8
  <2>2. CASE ~ far(i) /\ far(k)
    BY <2>1, <2>2 DEF Before
  <2>3. CASE far(i) = far(k) /\ i < k
    BY <2>1, <2>3 DEF Before
  <2> QED
    BY <1>8, <2>2, <2>3
<1> HIDE DEF rank, far
<1>9. CASE ~ \E w \in DOMAIN base : base[w] = worked
  <2>1. tried = base
    BY <1>9 DEF Order, LastFirst, base
  <2>2. DOMAIN base = 1 .. n /\ Len(base) = n
    BY <1>2, <1>4
  <2>3. \A k \in 1 .. n : hosts[b[k]] # worked /\ base[k] = hosts[b[k]]
    BY <1>4, <1>9
  <2>4. ASSUME NEW i \in 1 .. n PROVE \E k \in 1 .. n : base[k] = hosts[i]
    BY <1>4, <2>3
  <2>5. ASSUME NEW i \in 1 .. n, NEW k \in 1 .. n, i < k
        PROVE  Before(rank(base[i]), rank(base[k]))
    BY <1>4, <1>8, <2>3, <2>5
  <2>6. \A k \in 1 .. n : \E i \in 1 .. n : base[k] = hosts[i]
    BY <1>4, <2>3
  <2> QED
    BY <1>1, <1>2, <2>1, <2>2, <2>4, <2>5, <2>6 DEF Ranked, rank
<1>10. CASE \E w \in DOMAIN base : base[w] = worked
  <2>1. PICK w \in 1 .. n : base[w] = worked
    BY <1>4, <1>10
  <2> DEFINE kept == { k \in DOMAIN base : base[k] \notin {worked} }
             c == InOrder(kept)
             rest == Others(base, {worked})
  <2>2. kept \in SUBSET (1 .. n) /\ kept = (1 .. n) \ {w} /\ DOMAIN base = 1 .. n
    <3>1. ASSUME NEW k \in 1 .. n, base[k] = worked PROVE k = w
      <4>1. hosts[b[k]] = hosts[b[w]] /\ b[k] \in 1 .. n /\ b[w] \in 1 .. n
        BY <1>4, <2>1, <3>1
      <4>2. b[k] = b[w]
        BY <1>1, <4>1 DEF Distinct
      <4>3. ~ (b[w] < b[w])
        BY <4>1
      <4>4. ~ (k < w) /\ ~ (w < k)
        BY <1>4, <4>2, <4>3, <2>1, Zenon
      <4> QED
        BY <4>4
    <3> QED
      BY <1>4, <2>1, <3>1
  <2>3. \A k \in kept : base[k] # worked
    OBVIOUS
  <2> HIDE DEF kept
  <2>4. Cardinality(kept) = n - 1 /\ n - 1 \in Nat
    <3>1. IsFiniteSet(1 .. n) /\ Cardinality(1 .. n) = n
      BY FS_Interval
    <3>2. Cardinality((1 .. n) \ {w}) = n - 1
      BY <3>1, FS_RemoveElement
    <3> QED
      BY <2>2, <3>2
  <2>5. /\ \A k \in 1 .. n - 1 : c[k] \in kept
        /\ \A j, k \in 1 .. n - 1 : j < k => c[j] < c[k]
        /\ \A i \in kept : \E k \in 1 .. n - 1 : c[k] = i
    <3>0. kept \in SUBSET (1 .. n)
      BY <2>2
    <3>1. /\ \A k \in 1 .. Cardinality(kept) : InOrder(kept)[k] \in kept
          /\ \A j, k \in 1 .. Cardinality(kept) : j < k => InOrder(kept)[j] < InOrder(kept)[k]
          /\ \A i \in kept : \E k \in 1 .. Cardinality(kept) : InOrder(kept)[k] = i
      BY <3>0, InOrderIs, Zenon
    <3> QED
      BY <2>4, <3>1
  <2>6. rest = [k \in 1 .. n - 1 |-> base[c[k]]]
    <3>1. rest = AtPlaces(base, kept)
      BY DEF Others, kept
    <3>0. DOMAIN InOrder(kept) = 1 .. Cardinality(kept)
      <4>1. kept \in SUBSET (1 .. n)
        BY <2>2
      <4> QED
        BY <4>1, InOrderIs, Zenon
    <3>2. AtPlaces(base, kept) = [k \in 1 .. Cardinality(kept) |-> base[InOrder(kept)[k]]]
      BY <3>0, Zenon DEF AtPlaces
    <3> HIDE DEF rest
    <3> QED
      BY <2>4, <3>1, <3>2
  <2> HIDE DEF c
  <2>7. rest \in Seq(X) /\ Len(rest) = n - 1 /\ worked \in X
    <3>1. \A k \in 1 .. n : base[k] \in X
      BY <1>1, <1>4
    <3>2. rest \in [1 .. n - 1 -> X]
      BY <2>2, <2>5, <2>6, <3>1
    <3> HIDE DEF rest
    <3> QED
      BY <2>1, <2>4, <3>1, <3>2
  <2>8. tried = <<worked>> \o rest
    BY <1>10 DEF Order, LastFirst, base
  <2> HIDE DEF rest, tried
  <2>9. /\ tried \in Seq(X) /\ Len(tried) = n /\ DOMAIN tried = 1 .. n
        /\ tried[1] = worked /\ \A k \in 1 .. n : k # 1 => tried[k] = base[c[k - 1]]
    <3>1. <<worked>> \in Seq(X) /\ Len(<<worked>>) = 1 /\ <<worked>>[1] = worked
      BY <2>7
    <3>2. /\ tried \in Seq(X) /\ Len(tried) = 1 + (n - 1)
          /\ \A k \in 1 .. 1 + (n - 1) : tried[k] = IF k <= 1 THEN <<worked>>[k] ELSE rest[k - 1]
      BY <2>7, <2>8, <3>1, ConcatProperties
    <3>3. 1 + (n - 1) = n /\ 1 \in 1 .. n
      BY <2>4
    <3> QED
      BY <2>4, <2>6, <3>1, <3>2, <3>3
  <2>10. \A k \in 1 .. n : k # 1 => /\ k - 1 \in 1 .. n - 1 /\ c[k - 1] \in 1 .. n /\ base[c[k - 1]] # worked
    BY <2>2, <2>3, <2>5
  <2>11. ASSUME NEW i \in 1 .. n PROVE \E k \in 1 .. n : tried[k] = hosts[i]
    <3>1. PICK k \in 1 .. n : b[k] = i /\ base[k] = hosts[i]
      BY <1>4
    <3>2. CASE k = w
      BY <2>1, <2>9, <3>1, <3>2
    <3>3. CASE k # w
      <4>1. PICK m \in 1 .. n - 1 : c[m] = k
        BY <2>2, <2>5, <3>3
      <4>2. m + 1 \in 1 .. n /\ m + 1 # 1 /\ (m + 1) - 1 = m
        BY <2>4
      <4> QED
        BY <2>9, <3>1, <4>1, <4>2
    <3> QED
      BY <3>2, <3>3
  <2>12. ASSUME NEW i \in 1 .. n, NEW k \in 1 .. n, i < k
         PROVE  Before(rank(tried[i]), rank(tried[k]))
    <3>1. k # 1 /\ k - 1 \in 1 .. n - 1 /\ c[k - 1] \in 1 .. n
      BY <2>10, <2>12
    <3>2. tried[k] = hosts[b[c[k - 1]]] /\ b[c[k - 1]] \in 1 .. n /\ tried[k] # worked
      BY <1>4, <2>9, <2>10, <3>1
    <3>3. CASE i = 1
      <4>1. tried[i] = hosts[b[w]] /\ b[w] \in 1 .. n /\ tried[i] = worked
        BY <1>4, <2>1, <2>9, <3>3
      <4> QED
        BY <1>7, <3>2, <4>1
    <3>4. CASE i # 1
      <4>1. i - 1 \in 1 .. n - 1 /\ c[i - 1] \in 1 .. n /\ i - 1 < k - 1
        BY <2>10, <2>12, <3>4
      <4>2. tried[i] = hosts[b[c[i - 1]]] /\ b[c[i - 1]] \in 1 .. n /\ tried[i] # worked
        <5>1. tried[i] = base[c[i - 1]]
          BY <2>9, <3>4
        <5>2. base[c[i - 1]] # worked
          BY <2>10, <3>4
        <5> QED
          BY <1>4, <4>1, <5>1, <5>2
      <4>3. c[i - 1] < c[k - 1]
        BY <2>5, <3>1, <4>1
      <4>4. \/ ~ far(b[c[i - 1]]) /\ far(b[c[k - 1]])
            \/ far(b[c[i - 1]]) = far(b[c[k - 1]]) /\ b[c[i - 1]] < b[c[k - 1]]
        BY <1>4, <3>1, <4>1, <4>3, Zenon
      <4> QED
        BY <1>8, <3>2, <4>2, <4>4, Zenon
    <3> QED
      BY <3>3, <3>4
  <2>13. ASSUME NEW k \in 1 .. n PROVE \E i \in 1 .. n : tried[k] = hosts[i]
    <3>1. CASE k = 1
      BY <1>4, <2>1, <2>9, <3>1
    <3>2. CASE k # 1
      <4>1. tried[k] = base[c[k - 1]] /\ c[k - 1] \in 1 .. n
        BY <2>9, <2>10, <3>2
      <4> QED
        BY <1>4, <4>1
    <3> QED
      BY <3>1, <3>2
  <2> QED
    BY <1>1, <2>9, <2>11, <2>12, <2>13 DEF Ranked, rank, tried
<1> QED
  BY <1>9, <1>10

-----------------------------------------------------------------------------
(* The private blocks.                                                     *)

LEMMA InRange ==
  ASSUME NEW lo \in Int, NEW hi \in Int, NEW x \in Int
  PROVE  x \in lo .. hi <=> lo <= x /\ x <= hi
OBVIOUS

\* Four fields, the first three of them as one number of 24 bits.
LEMMA PrefixParts ==
  ASSUME NEW a \in Int, NEW b \in Int, NEW c \in Int, NEW p,
         0 <= a, a <= 255, 0 <= b, b <= 255, 0 <= c, c <= 255,
         p = (a * 256 + b) * 256 + c
  PROVE  /\ p \in Int
         /\ a = 10 <=> 655360 <= p /\ p <= 720895
         /\ a = 172 /\ 16 <= b /\ b <= 31 <=> 11276288 <= p /\ p <= 11280383
         /\ a = 192 /\ b = 168 <=> 12625920 <= p /\ p <= 12626175
         /\ a = 169 /\ b = 254 <=> 11140608 <= p /\ p <= 11140863
OBVIOUS

\* Whatever the fields are, and however many: an address is local exactly when it has
\* four octets and lies in one of the private or link-local blocks
\* (Endpoints.kt:17-28).
THEOREM LocalBlocks ==
  ASSUME NEW o \in Seq(Int)
  PROVE  IsLocal(Dotted(o)) <=>
           /\ Len(o) = 4 /\ \A i \in 1 .. 4 : o[i] \in Octet
           /\ Prefix(o) \in Private
<1> DEFINE four == Len(o) = 4 /\ \A i \in 1 .. 4 : o[i] \in Octet
           blocks == \/ o[1] = 10
                     \/ o[1] = 172 /\ o[2] \in 16 .. 31
                     \/ o[1] = 192 /\ o[2] = 168
                     \/ o[1] = 169 /\ o[2] = 254
<1>1. IsLocal(Dotted(o)) <=> four /\ blocks
  BY DEF IsLocal, Dotted
<1>2. ASSUME four PROVE blocks <=> Prefix(o) \in Private
  <2>1. /\ o[1] \in Int /\ o[2] \in Int /\ o[3] \in Int
        /\ o[1] \in Octet /\ o[2] \in Octet /\ o[3] \in Octet
    <3>1. 1 \in 1 .. 4 /\ 2 \in 1 .. 4 /\ 3 \in 1 .. 4
      OBVIOUS
    <3>2. \A i \in 1 .. 4 : o[i] \in Octet
      BY <1>2
    <3>3. \A i \in 1 .. 4 : o[i] \in Int
      <4>1. o \in [1 .. Len(o) -> Int]
        OBVIOUS
      <4> QED
        BY <1>2, <4>1
    <3> QED
      BY <3>1, <3>2, <3>3, Zenon
  <2>2. /\ 0 <= o[1] /\ o[1] <= 255 /\ 0 <= o[2] /\ o[2] <= 255
        /\ 0 <= o[3] /\ o[3] <= 255
    <3>1. \A x \in Int : x \in Octet => 0 <= x /\ x <= 255
      BY InRange DEF Octet
    <3> QED
      BY <2>1, <3>1
  <2>3. PICK a \in Int, b \in Int, c \in Int : a = o[1] /\ b = o[2] /\ c = o[3]
    BY <2>1
  <2>4. PICK p : p = (a * 256 + b) * 256 + c
    OBVIOUS
  <2>5. p = Prefix(o)
    BY <2>3, <2>4 DEF Prefix
  <2>12. 0 <= a /\ a <= 255 /\ 0 <= b /\ b <= 255 /\ 0 <= c /\ c <= 255
    BY <2>2, <2>3
  <2>6. /\ p \in Int
        /\ a = 10 <=> 655360 <= p /\ p <= 720895
        /\ a = 172 /\ 16 <= b /\ b <= 31 <=> 11276288 <= p /\ p <= 11280383
        /\ a = 192 /\ b = 168 <=> 12625920 <= p /\ p <= 12626175
        /\ a = 169 /\ b = 254 <=> 11140608 <= p /\ p <= 11140863
    BY <2>4, <2>12, PrefixParts
  <2>7. /\ Prefix(<<10, 0, 0>>) = 655360 /\ Prefix(<<172, 16, 0>>) = 11276288
        /\ Prefix(<<192, 168, 0>>) = 12625920 /\ Prefix(<<169, 254, 0>>) = 11140608
    BY DEF Prefix
  <2>8. ASSUME NEW first, NEW lo \in Int, NEW size \in Int, Prefix(first) = lo
        PROVE  p \in Block(first, size) <=> lo <= p /\ p <= lo + size - 1
    BY <2>6, <2>8, InRange DEF Block
  <2>9. p \in Private <=> \/ 655360 <= p /\ p <= 720895
                          \/ 11276288 <= p /\ p <= 11280383
                          \/ 12625920 <= p /\ p <= 12626175
                          \/ 11140608 <= p /\ p <= 11140863
    <3>1. p \in Block(<<10, 0, 0>>, 65536) <=> 655360 <= p /\ p <= 720895
      BY <2>7, <2>8
    <3>2. p \in Block(<<172, 16, 0>>, 4096) <=> 11276288 <= p /\ p <= 11280383
      BY <2>7, <2>8
    <3>3. p \in Block(<<192, 168, 0>>, 256) <=> 12625920 <= p /\ p <= 12626175
      BY <2>7, <2>8
    <3>4. p \in Block(<<169, 254, 0>>, 256) <=> 11140608 <= p /\ p <= 11140863
      BY <2>7, <2>8
    <3> QED
      BY <3>1, <3>2, <3>3, <3>4 DEF Private
  <2>10. b \in 16 .. 31 <=> 16 <= b /\ b <= 31
    BY InRange
  <2> QED
    BY <2>3, <2>5, <2>6, <2>9, <2>10
<1> QED
  BY <1>1, <1>2

LEMMA PrivateAddresses == LocalIsPrivate
<1>1. ASSUME NEW parts \in Addresses PROVE parts \in Seq(Int)
  <2>1. \A x \in Fields : x \in Int
    BY DEF Fields, NoNumber
  <2>2. \A x \in Edges : x \in Int
    BY DEF Edges, NoNumber
  <2>3. CASE parts \in Fields \X Fields \X Edges \X Edges
    <3>1. PICK a \in Fields, b \in Fields, c \in Edges, d \in Edges : parts = <<a, b, c, d>>
      BY <2>3
    <3> QED
      BY <2>1, <2>2, <3>1
  <2>4. CASE parts \in Fields \X Fields \X Edges
    <3>1. PICK a \in Fields, b \in Fields, c \in Edges : parts = <<a, b, c>>
      BY <2>4
    <3> QED
      BY <2>1, <2>2, <3>1
  <2> QED
    BY <1>1, <2>3, <2>4 DEF Addresses
<1> QED
  BY <1>1, LocalBlocks DEF LocalIsPrivate

LEMMA ProvisioningsRanked == OrderRanks
<1>1. ASSUME NEW s \in Provisionings PROVE s \in Seq(Names) /\ Distinct(s)
  <2>1. PICK n \in 0 .. 3 : s \in [1 .. n -> Names]
    BY <1>1 DEF Provisionings
  <2>2. Distinct(s)
    BY <1>1 DEF Provisionings, Distinct
  <2> QED
    BY <2>1, <2>2
<1> QED
  BY <1>1, OrderRanked DEF OrderRanks

-----------------------------------------------------------------------------
(* The addresses connect() has still to try.                               *)

\* A rank is not before itself.
LEMMA RankedOnce ==
  ASSUME NEW X, NEW hosts \in Seq(X), NEW local, NEW onLocalNetwork \in BOOLEAN, NEW worked,
         Distinct(hosts)
  PROVE  Distinct(Order(hosts, local, onLocalNetwork, worked))
<1> DEFINE tried == Order(hosts, local, onLocalNetwork, worked)
           rank(h) == Rank(hosts, local, onLocalNetwork, worked, h)
<1>1. /\ tried \in Seq(X)
      /\ \A k \in DOMAIN tried : \E i \in DOMAIN hosts : tried[k] = hosts[i]
      /\ \A i, k \in DOMAIN tried : i < k => Before(rank(tried[i]), rank(tried[k]))
  <2>1. tried \in Seq(X) /\ \A k \in DOMAIN tried : \E i \in DOMAIN hosts : tried[k] = hosts[i]
    BY OrderRanked
  <2>2. Ranked(hosts, local, onLocalNetwork, worked)
    BY OrderRanked
  <2> QED
    BY <2>1, <2>2, Zenon DEF Ranked
<1> HIDE DEF tried
<1>2. ASSUME NEW k \in DOMAIN tried PROVE ~ Before(rank(tried[k]), rank(tried[k]))
  <2>1. PICK i \in DOMAIN hosts : tried[k] = hosts[i]
    BY <1>1
  <2>2. Position(hosts, hosts[i]) = i /\ i \in Int
    BY DEF Position, Distinct
  <2>3. PICK x \in {0, 1}, y \in {0, 1} : rank(tried[k]) = <<x, y, i>>
    BY <2>1, <2>2 DEF Rank
  <2> HIDE DEF rank
  <2> QED
    BY <2>2, <2>3 DEF Before
<1> HIDE DEF rank
<1>3. ASSUME NEW i \in DOMAIN tried, NEW k \in DOMAIN tried, tried[i] = tried[k] PROVE i = k
  <2>1. ~ (i < k) /\ ~ (k < i)
    BY <1>1, <1>2, <1>3
  <2>2. i \in Int /\ k \in Int
    BY <1>1
  <2> QED
    BY <2>1, <2>2
<1> QED
  BY <1>3 DEF Distinct, tried

\* Each is to be tried once.
TriedOnce == order \in Seq(Host) /\ Distinct(order)

LEMMA Rests ==
  ASSUME NEW X, NEW s \in Seq(X), s # <<>>, Distinct(s)
  PROVE  Tail(s) \in Seq(X) /\ Distinct(Tail(s))
<1>1. /\ Tail(s) \in Seq(X) /\ Len(Tail(s)) = Len(s) - 1
      /\ \A k \in 1 .. Len(s) - 1 : Tail(s)[k] = s[k + 1]
  OBVIOUS
<1>2. ASSUME NEW i \in 1 .. Len(s) - 1, NEW k \in 1 .. Len(s) - 1, s[i + 1] = s[k + 1]
      PROVE  i = k
  <2>1. i + 1 \in DOMAIN s /\ k + 1 \in DOMAIN s
    OBVIOUS
  <2>2. i + 1 = k + 1
    BY <1>2, <2>1 DEF Distinct
  <2> QED
    BY <2>2
<1> QED
  BY <1>1, <1>2 DEF Distinct

LEMMA OrderTriedOnce ==
  ASSUME NEW worked, NEW onLocalNetwork \in BOOLEAN
  PROVE  /\ Order(Hosts, LocalHosts, onLocalNetwork, worked) \in Seq(Host)
         /\ Distinct(Order(Hosts, LocalHosts, onLocalNetwork, worked))
<1>1. Hosts \in Seq(Host) /\ Distinct(Hosts)
  BY HostsAssumption DEF Host, Distinct
<1> QED
  BY <1>1, OrderRanked, RankedOnce

LEMMA TriedOnceKept ==
  ASSUME IInv, TriedOnce, [Next]_vars PROVE TriedOnce'
<1>1. CASE MakeOrder
  <2>1. seenLan \in BOOLEAN
    BY DEF IInv, Typed
  <2>2. order' = Order(Hosts, LocalHosts, seenLan, lastWorked)
    BY <1>1 DEF MakeOrder
  <2> QED
    BY <2>1, <2>2, OrderTriedOnce DEF TriedOnce
<1>2. CASE ConnectRefused
  BY <1>2, Rests DEF ConnectRefused, TriedOnce
<1>3. CASE SetLastWorked
  BY <1>3 DEF SetLastWorked, TriedOnce, Distinct
<1>4. ASSUME order' = order PROVE TriedOnce'
  BY <1>4 DEF TriedOnce
<1>5. CASE Worker
  <2>1. CASE Top \/ DrainWake \/ ConnectOpens \/ SetClient \/ SetEndpoint \/ Check \/ Wait
    BY <1>4, <2>1 DEF Top, DrainWake, ConnectOpens, SetClient, SetEndpoint, Check, Wait
  <2>2. CASE Publish \/ BatchSent \/ PublishThrows \/ Failed \/ Woken \/ BackoffOver
    BY <1>4, <2>2 DEF Publish, BatchSent, PublishThrows, Failed, Woken, BackoffOver
  <2> QED
    BY <1>1, <1>2, <1>3, <1>5, <2>1, <2>2 DEF Worker
<1>6. CASE WatchStep
  <2>1. CASE DefaultSeen \/ LanSeen \/ ClearLastWorked
    BY <1>4, <2>1 DEF DefaultSeen, LanSeen, ClearLastWorked
  <2>2. CASE Judge \/ Disconnect \/ ReleaseWake
    BY <1>4, <2>2 DEF Judge, Disconnect, ReleaseWake
  <2> QED
    BY <1>6, <2>1, <2>2 DEF WatchStep
<1>7. CASE Environment
  <2>1. ASSUME NEW m, DefaultChanges(m) PROVE order' = order
    BY <2>1 DEF DefaultChanges
  <2>2. CASE LanLost \/ LanGained \/ StreamBreaks
    BY <1>4, <2>2 DEF LanLost, LanGained, StreamBreaks
  <2> QED
    BY <1>4, <1>7, <2>1, <2>2 DEF Environment
<1>8. CASE Offer \/ OldestAges
  BY <1>4, <1>8 DEF Offer, OldestAges
<1>9. CASE UNCHANGED vars
  BY <1>4, <1>9 DEF vars
<1> QED
  BY <1>5, <1>6, <1>7, <1>8, <1>9 DEF Next

\* Addresses are tried in order of rank, each once, whatever onNetworkChange() does
\* to lastWorked meanwhile (Endpoints.kt:5-39).
THEOREM AddressesTriedByRank == Spec => []TriedByRank
<1>1. Init => TriedOnce
  BY DEF Init, TriedOnce, Distinct
<1>2. IInv /\ TriedOnce /\ [Next]_vars => TriedOnce'
  BY TriedOnceKept
<1>3. TriedOnce => TriedByRank
  BY PrivateAddresses, ProvisioningsRanked DEF TriedOnce, TriedByRank, Distinct
<1> QED
  BY <1>1, <1>2, <1>3, Invariance, PTL DEF Spec
=============================================================================
