---------------------------- MODULE FeatureExtractionProofs ----------------------------
(***************************************************************************)
(* What the feature layer computes, for every finite view: the search of   *)
(* connected_accounts finds the component of an account, the counts of a   *)
(* vector agree with one another, and a vector's counts depend on the      *)
(* edges of the view and on the accounts' creations alone.                 *)
(*                                                                         *)
(* And what investigations are shown of it, at every cutoff and within all *)
(* limits: the links of a view, the peers they make, the timeline, the     *)
(* bounded search of get_identity_neighborhood, and that nothing of it     *)
(* depends on what happens after the cutoff.                               *)
(***************************************************************************)
EXTENDS EvidenceService, BoundedInduction, FiniteSetTheorems

(* An image of a finite set is finite and no larger, and as large if the      *)
(* function is injective.                                                     *)
LEMMA Image ==
    ASSUME NEW S, IsFiniteSet(S), NEW f, DOMAIN f = S
    PROVE  /\ IsFiniteSet({f[x] : x \in S}) /\ Cardinality({f[x] : x \in S}) <= Cardinality(S)
           /\ Cardinality({f[x] : x \in S}) = Cardinality(S)
                <=> \A x, y \in S : f[x] = f[y] => x = y
  <1> DEFINE T == {f[x] : x \in S}
             g == [x \in S |-> f[x]]
  <1>1. g \in Surjection(S, T)
    BY DEF Surjection
  <1>2. g \in Injection(S, T) <=> \A x, y \in S : f[x] = f[y] => x = y
    <2>1. g \in [S -> T] /\ \A x \in S : g[x] = f[x]
      OBVIOUS
    <2> HIDE DEF g, T
    <2>2. g \in Injection(S, T) <=> \A x, y \in S : g[x] = g[y] => x = y
      BY <2>1 DEF Injection, IsInjective
    <2> QED
      BY <2>1, <2>2
  <1> HIDE DEF g
  <1> QED
    BY <1>1, <1>2, FS_Surjection

(* A non-empty set of naturals up to a bound has a greatest element. *)
LEMMA GreatestNatural ==
    ASSUME NEW T \in SUBSET Nat, T # {}, NEW b \in Nat, \A n \in T : n <= b
    PROVE  Max(T) \in T /\ \A n \in T : n <= Max(T)
  <1> DEFINE U == {m \in Nat : \A n \in T : n <= m}
  <1>1. PICK m \in U : \A k \in U : m <= k
    <2>1. U \in SUBSET Nat /\ b \in U
      OBVIOUS
    <2> HIDE DEF U
    <2> QED
      BY <2>1, LeastNatural
  <1>2. m \in T
    <2>1. CASE m = 0
      <3>1. PICK n \in T : n \in Nat
        OBVIOUS
      <3>2. n <= m /\ n = 0
        BY <1>1, <2>1, <3>1
      <3> QED
        BY <2>1, <3>1, <3>2
    <2>2. CASE m > 0 /\ m \notin T
      <3>1. m - 1 \in Nat /\ \A n \in T : n <= m - 1
        BY <1>1, <2>2
      <3>2. m <= m - 1
        BY <1>1, <3>1
      <3> QED
        BY <1>1, <3>2
    <2> QED
      BY <1>1, <2>1, <2>2
  <1>3. \E x \in T : \A y \in T : x >= y
    BY <1>1, <1>2
  <1>4. Max(T) \in T /\ \A y \in T : Max(T) >= y
    BY <1>3 DEF Max
  <1> QED
    BY <1>4

----------------------------------------------------------------------------
(* The component. *)

(* The accounts that share an identity with an account. *)
Peers(E, a) == PeersOn(E, a, AccountIdentities(E, a))

(* Peers are accounts of the view, other than the account itself. *)
LEMMA PeersAre ==
    ASSUME NEW E, NEW a, NEW I
    PROVE  PeersOn(E, a, I) \subseteq Accounts(E) \ {a}
  BY DEF PeersOn, IdentityAccounts

(* A view with finitely many edges has finitely many accounts. *)
LEMMA AccountsFinite ==
    ASSUME NEW E, IsFiniteSet(E)
    PROVE  IsFiniteSet(Accounts(E))
  <1> DEFINE S == {y \in E : y.type \in IdentityTypes \cup {"PLACED"}}
             f == [x \in S |-> x.source]
  <1>1. IsFiniteSet(S)
    BY FS_Subset
  <1>2. Accounts(E) = {f[x] : x \in S}
    BY DEF Accounts
  <1>3. DOMAIN f = S
    OBVIOUS
  <1> HIDE DEF S, f
  <1> QED
    BY <1>1, <1>2, <1>3, Image

(* An account without edges of its own has no peers. *)
LEMMA StrangerIsAlone ==
    ASSUME NEW E, NEW a, a \notin Accounts(E)
    PROVE  AccountIdentities(E, a) = {}
  <1>1. {y \in E : y.type \in IdentityTypes /\ y.source = a} = {}
    BY DEF Accounts
  <1>2. AccountOrders(E, a) = {}
    BY DEF Accounts, AccountOrders, TargetsOf
  <1> QED
    BY <1>1, <1>2 DEF AccountIdentities

(* One ring more. *)
Around(E, s) == s \cup UNION {Peers(E, b) : b \in s}

(* The rings of connected_accounts, as many as there are accounts. *)
LEMMA RingsExist ==
    ASSUME NEW E, IsFiniteSet(E), NEW a
    PROVE  LET N == Cardinality(Accounts(E))
           IN  \E f \in [0 .. N -> SUBSET (Accounts(E) \cup {a})] :
                 /\ f[0] = {a}
                 /\ \A n \in 1 .. N : f[n] = Around(E, f[n - 1])
                 /\ ConnectedAccounts(E, a) = f[N]
  <1> DEFINE N == Cardinality(Accounts(E))
             U == Accounts(E) \cup {a}
             S == SUBSET U
             G == [n \in 1 .. N |-> [s \in S |-> Around(E, s)]]
             Is(r) == r = [n \in 0 .. N |-> IF n = 0 THEN {a} ELSE r[n - 1] \cup
                             UNION {PeersOn(E, b, AccountIdentities(E, b)) : b \in r[n - 1]}]
  <1>1. N \in Nat
    BY AccountsFinite, FS_CardinalityType
  <1>2. \A s \in S : Around(E, s) \in S
    BY PeersAre DEF Around, Peers
  <1>3. PICK f \in [0 .. N -> S] : Follows(f, N, {a}, G)
    <2>1. G \in [1 .. N -> [S -> S]] /\ {a} \in S
      BY <1>2
    <2> HIDE DEF N, S, G
    <2> QED
      BY <1>1, <2>1, Recursion
  <1>4. ASSUME NEW n \in 1 .. N PROVE f[n] = Around(E, f[n - 1])
    <2>1. n - 1 \in 0 .. N
      BY <1>1
    <2>2. f[n - 1] \in S
      BY <1>3, <2>1
    <2> QED
      BY <1>3, <2>2 DEF Follows
  <1>5. ASSUME NEW r, Is(r) PROVE r = f
    <2> DEFINE T == {n \in 0 .. N : r[n] = f[n]}
    <2>1. DOMAIN r = 0 .. N /\ r[0] = {a} /\ f[0] = {a} /\ 0 \in 0 .. N
      BY <1>1, <1>3, <1>5 DEF Follows
    <2>2. ASSUME NEW n \in 1 .. N, n - 1 \in T PROVE n \in T
      <3>1. r[n] = Around(E, r[n - 1])
        <4>1. n \in 0 .. N /\ n # 0
          BY ONLY <1>1, n \in 1 .. N
        <4>2. r[n] = r[n - 1] \cup UNION {PeersOn(E, b, AccountIdentities(E, b)) : b \in r[n - 1]}
          BY <1>5, <4>1
        <4> QED
          BY ONLY <4>2 DEF Around, Peers
      <3> QED
        BY <1>1, <1>4, <2>2, <3>1
    <2>3. 0 .. N \subseteq T
      <3> HIDE DEF T, N
      <3>1. 0 \in T
        BY <2>1 DEF T
      <3> QED
        BY <1>1, <2>2, <3>1, Induction
    <2>4. r = [n \in 0 .. N |-> r[n]]
      BY <1>5
    <2> QED
      BY <1>3, <2>1, <2>3, <2>4
  <1>6. Is(f)
    <2>1. \A n \in 0 .. N : f[n] = IF n = 0 THEN {a} ELSE f[n - 1] \cup
                             UNION {PeersOn(E, b, AccountIdentities(E, b)) : b \in f[n - 1]}
      BY <1>1, <1>3, <1>4 DEF Follows, Around, Peers
    <2> QED
      BY <1>3, <2>1
  <1>7. ConnectedAccounts(E, a) = (CHOOSE r : Is(r))[N]
    BY DEF ConnectedAccounts
  <1>8. Is(CHOOSE r : Is(r))
    <2> HIDE DEF Is
    <2> QED
      BY <1>6
  <1>9. ConnectedAccounts(E, a) = f[N]
    <2> HIDE DEF Is
    <2> QED
      BY <1>5, <1>7, <1>8
  <1>10. f[0] = {a}
    BY <1>3 DEF Follows
  <1> QED
    BY <1>3, <1>4, <1>9, <1>10

(* connected_accounts finds the component: its account, all that shares an   *)
(* identity with what it holds, and nothing that a closed set can leave out. *)
LEMMA ComponentFound ==
    ASSUME NEW E, IsFiniteSet(E), NEW a
    PROVE  LET C == ConnectedAccounts(E, a)
           IN  /\ a \in C /\ C \subseteq Accounts(E) \cup {a} /\ IsFiniteSet(C)
               /\ Closed(E, C)
               /\ \A s : a \in s /\ Closed(E, s) => C \subseteq s
  <1> DEFINE N == Cardinality(Accounts(E))
             U == Accounts(E) \cup {a}
             C == ConnectedAccounts(E, a)
  <1>1. N \in Nat /\ IsFiniteSet(Accounts(E)) /\ IsFiniteSet(U)
    BY AccountsFinite, FS_CardinalityType, FS_AddElement
  <1>2. PICK f \in [0 .. N -> SUBSET U] :
           /\ f[0] = {a}
           /\ \A n \in 1 .. N : f[n] = Around(E, f[n - 1])
           /\ C = f[N]
    BY RingsExist
  <1> HIDE DEF N, U, C
  <1>3. ASSUME NEW n \in 1 .. N PROVE n - 1 \in 0 .. N /\ n \in 0 .. N /\ f[n - 1] \subseteq f[n]
    <2>1. n - 1 \in 0 .. N /\ n \in 0 .. N
      BY <1>1
    <2> QED
      BY <1>2, <2>1 DEF Around
  <1>4. ASSUME NEW n \in 0 .. N PROVE f[n] \subseteq U /\ IsFiniteSet(f[n]) /\ Cardinality(f[n]) \in Nat
    <2>1. f[n] \subseteq U
      BY <1>2
    <2> QED
      BY <1>1, <2>1, FS_Subset, FS_CardinalityType
  <1>5. a \in C
    <2> DEFINE T == {n \in 0 .. N : a \in f[n]}
    <2>1. 0 \in T
      BY <1>1, <1>2
    <2>2. \A n \in 1 .. N : n - 1 \in T => n \in T
      BY <1>3
    <2> HIDE DEF T
    <2>3. 0 .. N \subseteq T
      BY <1>1, <2>1, <2>2, Induction
    <2>4. N \in T
      BY <1>1, <2>3
    <2> QED
      BY <1>2, <2>4 DEF T
  <1>6. ASSUME NEW s, a \in s, Closed(E, s) PROVE C \subseteq s
    <2> DEFINE T == {n \in 0 .. N : f[n] \subseteq s}
    <2>1. 0 \in T
      BY <1>1, <1>2, <1>6
    <2>2. ASSUME NEW n \in 1 .. N, n - 1 \in T PROVE n \in T
      <3>1. f[n - 1] \subseteq s /\ f[n] = Around(E, f[n - 1])
        BY <1>2, <2>2
      <3>2. \A b \in f[n - 1] : Peers(E, b) \subseteq s
        BY <1>6, <3>1 DEF Closed, Peers
      <3> QED
        BY <1>3, <3>1, <3>2 DEF Around
    <2> HIDE DEF T
    <2>3. 0 .. N \subseteq T
      BY <1>1, <2>1, <2>2, Induction
    <2>4. N \in T
      BY <1>1, <2>3
    <2> QED
      BY <1>2, <2>4 DEF T
  <1>7. Closed(E, C)
    <2> DEFINE Shut(s) == \A b \in s : Peers(E, b) \subseteq s
               T == {n \in 0 .. N : Shut(f[n]) \/ Cardinality(f[n]) >= n + 1}
    <2>1. 0 \in T
      <3>1. Cardinality(f[0]) = 1
        BY <1>2, FS_Singleton
      <3> QED
        BY <1>1, <3>1
    <2>2. ASSUME NEW n \in 1 .. N, n - 1 \in T PROVE n \in T
      <3>1. f[n] = Around(E, f[n - 1]) /\ n - 1 \in 0 .. N /\ n \in 0 .. N
        BY <1>2, <1>3
      <3>2. CASE Shut(f[n - 1])
        <4>1. f[n] = f[n - 1]
          BY <3>1, <3>2 DEF Around
        <4> QED
          BY <3>1, <3>2, <4>1
      <3>3. CASE ~Shut(f[n - 1])
        <4>1. f[n - 1] # f[n] /\ f[n - 1] \subseteq f[n]
          BY <1>3, <3>1, <3>3 DEF Around
        <4>2. Cardinality(f[n - 1]) <= Cardinality(f[n]) /\ Cardinality(f[n - 1]) # Cardinality(f[n])
          BY <1>4, <3>1, <4>1, FS_Subset
        <4>3. Cardinality(f[n - 1]) >= n
          BY <2>2, <3>3
        <4>4. Cardinality(f[n - 1]) \in Nat /\ Cardinality(f[n]) \in Nat
          BY <1>4, <3>1
        <4>5. Cardinality(f[n]) >= n + 1
          BY <4>2, <4>3, <4>4
        <4> QED
          BY <3>1, <4>5
      <3> QED
        BY <3>2, <3>3
    <2>3. N \in T
      <3> HIDE DEF T
      <3>1. 0 .. N \subseteq T
        BY <1>1, <2>1, <2>2, Induction
      <3> QED
        BY <1>1, <3>1
    <2>4. N \in 0 .. N
      BY <1>1
    <2>5. CASE Shut(f[N])
      BY <1>2, <2>5 DEF Closed, Peers
    <2>6. CASE Cardinality(f[N]) >= N + 1
      <3>1. CASE a \in Accounts(E)
        <4>1. f[N] \subseteq Accounts(E)
          BY <1>2, <2>4, <3>1 DEF U
        <4>2. Cardinality(f[N]) <= N
          BY <1>1, <4>1, FS_Subset DEF N
        <4> QED
          BY <1>1, <1>4, <2>4, <2>6, <4>2
      <3>2. CASE a \notin Accounts(E)
        <4>1. Closed(E, {a})
          BY <3>2, StrangerIsAlone DEF Closed, PeersOn
        <4>2. C = {a}
          BY <1>5, <1>6, <4>1
        <4> QED
          BY <4>1, <4>2
      <3> QED
        BY <3>1, <3>2
    <2> QED
      BY <2>3, <2>5, <2>6
  <1>8. C \subseteq U /\ IsFiniteSet(C)
    <2>1. N \in 0 .. N
      BY <1>1
    <2> QED
      BY <1>2, <1>4, <2>1
  <1> QED
    BY <1>5, <1>6, <1>7, <1>8 DEF C, U

(* The property that TLC checks view by view, for every finite view.  *)
THEOREM ComponentsHold ==
    ASSUME NEW view, IsFiniteSet(view.edges)
    PROVE  ComponentIsLeast(view)
  BY ComponentFound DEF ComponentIsLeast

----------------------------------------------------------------------------
(* The counts. *)

(* The accounts of an identity that an account holds include it, and the     *)
(* others are its peers.                                                     *)
LEMMA HoldersAre ==
    ASSUME NEW E, NEW a, NEW i \in AccountIdentities(E, a)
    PROVE  /\ a \in IdentityAccounts(E, i)
           /\ IdentityAccounts(E, i) \ {a} \subseteq Peers(E, a)
           /\ i[1] \in SharedTypes
  <1>1. a \in Accounts(E)
    BY StrangerIsAlone
  <1>2. i[1] \in SharedTypes
    BY DEF AccountIdentities, SharedTypes
  <1> QED
    BY <1>1, <1>2 DEF IdentityAccounts, Peers, PeersOn

(* The features of an account's identities agree with its component. *)
LEMMA IdentityAgrees ==
    ASSUME NEW E, IsFiniteSet(E), NEW a
    PROVE  LET v == IdentityFeatures(E, a)
           IN  /\ v.component \in Nat /\ v.neighbours \in Nat
               /\ v.maxReuse <= v.component
               /\ v.neighbours < v.component
               /\ v.neighbours = 0 <=> \A t \in SharedTypes : v.sharedWith[t] = 0
               /\ v.maxReuse > 1 <=> v.neighbours > 0
               /\ v.neighbours = Cardinality(Peers(E, a)) /\ IsFiniteSet(Peers(E, a))
  <1> DEFINE C == ConnectedAccounts(E, a)
             I == AccountIdentities(E, a)
             P == Peers(E, a)
             v == IdentityFeatures(E, a)
             on(t) == {i \in I : i[1] = t}
             R == {0} \cup {Cardinality(IdentityAccounts(E, i)) : i \in I}
  <1>1. /\ v.neighbours = Cardinality(P) /\ v.component = Cardinality(C)
        /\ v.maxReuse = Max(R)
        /\ \A t \in SharedTypes : v.sharedWith[t] = Cardinality(PeersOn(E, a, on(t)))
    BY DEF IdentityFeatures, Peers
  <1>2. a \in C /\ IsFiniteSet(C) /\ P \subseteq C /\ a \notin P
    BY ComponentFound, PeersAre DEF Closed, Peers
  <1>3. /\ IsFiniteSet(C \ {a}) /\ Cardinality(C) \in Nat /\ Cardinality(C \ {a}) = Cardinality(C) - 1
    BY <1>2, FS_RemoveElement, FS_CardinalityType
  <1>4. P \subseteq C \ {a}
    BY <1>2
  <1> HIDE DEF C
  <1>5. IsFiniteSet(P) /\ Cardinality(P) <= Cardinality(C) - 1 /\ Cardinality(P) \in Nat
    BY <1>3, <1>4, FS_Subset, FS_CardinalityType
  <1>6. Cardinality(P) = 0 <=> P = {}
    BY <1>5, FS_EmptySet
  <1>7. ASSUME NEW i \in I
        PROVE  /\ a \in IdentityAccounts(E, i) /\ IdentityAccounts(E, i) \ {a} \subseteq P
               /\ IsFiniteSet(IdentityAccounts(E, i))
               /\ Cardinality(IdentityAccounts(E, i)) \in Nat
               /\ Cardinality(IdentityAccounts(E, i)) <= Cardinality(C)
               /\ i[1] \in SharedTypes
    <2>1. a \in IdentityAccounts(E, i) /\ IdentityAccounts(E, i) \ {a} \subseteq P /\ i[1] \in SharedTypes
      BY HoldersAre
    <2>2. IdentityAccounts(E, i) \subseteq C
      BY <1>2, <2>1
    <2> HIDE DEF P
    <2> QED
      BY <1>2, <2>1, <2>2, FS_Subset, FS_CardinalityType
  <1>8. R \in SUBSET Nat /\ R # {} /\ \A n \in R : n <= Cardinality(C)
    BY <1>3, <1>7
  <1>9. Max(R) \in R /\ \A n \in R : n <= Max(R)
    <2> HIDE DEF R
    <2> QED
      BY <1>3, <1>8, GreatestNatural
  <1>10. Max(R) <= Cardinality(C)
    BY <1>8, <1>9
  <1>11. P = {} <=> \A t \in SharedTypes : Cardinality(PeersOn(E, a, on(t))) = 0
    <2>1. ASSUME NEW t \in SharedTypes
          PROVE  /\ PeersOn(E, a, on(t)) \subseteq P
                 /\ Cardinality(PeersOn(E, a, on(t))) = 0 <=> PeersOn(E, a, on(t)) = {}
      <3>1. PeersOn(E, a, on(t)) \subseteq P
        BY DEF PeersOn, Peers
      <3>2. IsFiniteSet(PeersOn(E, a, on(t)))
        <4> HIDE DEF P, on
        <4> QED
          BY <1>5, <3>1, FS_Subset
      <3> QED
        BY <3>1, <3>2, FS_EmptySet
    <2>2. ASSUME NEW b \in P PROVE \E t \in SharedTypes : b \in PeersOn(E, a, on(t))
      <3>1. PICK i \in I : b \in IdentityAccounts(E, i) /\ b # a
        BY DEF PeersOn, Peers
      <3>2. i[1] \in SharedTypes /\ i \in on(i[1])
        BY <1>7
      <3>3. b \in PeersOn(E, a, on(i[1]))
        BY <3>1, <3>2 DEF PeersOn
      <3> QED
        BY <3>2, <3>3
    <2> HIDE DEF P, on
    <2> QED
      BY <2>1, <2>2
  <1>12. Max(R) > 1 <=> P # {}
    <2>1. ASSUME Max(R) > 1 PROVE P # {}
      <3> DEFINE m == Max(R)
      <3>1. m \in R /\ m > 1
        BY <1>9, <2>1
      <3> HIDE DEF m
      <3>2. m # 0 /\ m # 1
        BY <3>1
      <3>3. PICK i \in I : Cardinality(IdentityAccounts(E, i)) = m
        BY <3>1, <3>2
      <3>4. IdentityAccounts(E, i) # {a}
        BY <3>2, <3>3, FS_Singleton
      <3> QED
        BY <1>7, <3>4
    <2>2. ASSUME NEW b \in P PROVE Max(R) > 1
      <3>1. PICK i \in I : b \in IdentityAccounts(E, i) /\ b # a
        BY DEF PeersOn, Peers
      <3>2. /\ a \in IdentityAccounts(E, i) /\ IsFiniteSet(IdentityAccounts(E, i))
            /\ Cardinality(IdentityAccounts(E, i)) \in Nat
        BY <1>7
      <3> DEFINE H == IdentityAccounts(E, i)
      <3> HIDE DEF H
      <3>3. Cardinality(H) # 0 /\ Cardinality(H) # 1
        BY <3>1, <3>2, FS_EmptySet, FS_Singleton DEF H
      <3>4. Cardinality(H) \in R
        BY DEF H
      <3>5. Cardinality(H) <= Max(R)
        BY <1>9, <3>4
      <3>6. Cardinality(H) \in Nat /\ Max(R) \in Nat
        BY <1>8, <1>9, <3>4
      <3> HIDE DEF R
      <3> QED
        BY <3>3, <3>5, <3>6
    <2> QED
      BY <2>1, <2>2
  <1> HIDE DEF v, P, R, on, I
  <1>13. v.neighbours = 0 <=> \A t \in SharedTypes : v.sharedWith[t] = 0
    BY <1>1, <1>6, <1>11
  <1>14. v.maxReuse > 1 <=> v.neighbours > 0
    BY <1>1, <1>5, <1>6, <1>12
  <1>15. v.neighbours < v.component
    BY <1>1, <1>3, <1>5
  <1> QED
    BY <1>1, <1>3, <1>5, <1>10, <1>13, <1>14, <1>15 DEF v, P

(* The features of an account's orders. *)
LEMMA CommerceAgrees ==
    ASSUME NEW E, IsFiniteSet(E), NEW a
    PROVE  LET v == CommerceFeatures(E, a)
           IN  v.refunded <= v.orders /\ v.refunded <= v.requested
  <1> DEFINE O == AccountOrders(E, a)
             Q == RefundEdges(E, O, "refund_requested")
             v == CommerceFeatures(E, a)
             S == {x.source : x \in Q}
             f == [x \in Q |-> x.source]
  <1>1. v.refunded = Cardinality(S) /\ v.orders = Cardinality(O) /\ v.requested = Cardinality(Q)
    BY DEF CommerceFeatures
  <1>2. IsFiniteSet(Q)
    BY FS_Subset DEF RefundEdges, OfType
  <1>3. IsFiniteSet(O)
    <2> DEFINE D == {y \in E : y.type = "PLACED" /\ y.source = a}
               g == [x \in D |-> x.target]
    <2>1. IsFiniteSet(D) /\ O = {g[x] : x \in D} /\ DOMAIN g = D
      BY FS_Subset DEF AccountOrders, TargetsOf
    <2> HIDE DEF D, g, O
    <2> QED
      BY <2>1, Image
  <1>4. S \subseteq O
    BY DEF RefundEdges, OfType
  <1>5. Cardinality(S) <= Cardinality(O)
    <2> HIDE DEF S, O
    <2> QED
      BY <1>3, <1>4, FS_Subset
  <1>6. Cardinality(S) <= Cardinality(Q)
    <2>1. S = {f[x] : x \in Q} /\ DOMAIN f = Q
      OBVIOUS
    <2> HIDE DEF f, Q, S
    <2> QED
      BY <1>2, <2>1, Image
  <1> QED
    BY <1>1, <1>5, <1>6

(* The recent peers and links. *)
LEMMA VelocityAgrees ==
    ASSUME NEW view, IsFiniteSet(view.edges), NEW a, NEW c
    PROVE  LET v == VelocityFeatures(view, a, c)
               E == view.edges
           IN  /\ v.created < Cardinality(ConnectedAccounts(E, a))
               /\ v.links > 0 => Peers(E, a) # {}
  <1> DEFINE E == view.edges
             C == ConnectedAccounts(E, a)
             v == VelocityFeatures(view, a, c)
             K == {b \in C \ {a} : Recent(CreatedAt(view, b, c), c)}
             L == {x \in {y \in E : /\ y.type \in IdentityTypes /\ y.source # a
                                    /\ <<y.type, y.target>> \in AccountIdentities(E, a)} :
                     Recent(x.at, c)}
  <1>1. v.created = Cardinality(K) /\ v.links = Cardinality(L)
    BY DEF VelocityFeatures
  <1>2. a \in C /\ IsFiniteSet(C)
    BY ComponentFound
  <1>3. Cardinality(C) \in Nat /\ IsFiniteSet(C \ {a}) /\ Cardinality(C \ {a}) = Cardinality(C) - 1
    BY <1>2, FS_RemoveElement, FS_CardinalityType
  <1>4. Cardinality(K) <= Cardinality(C) - 1 /\ Cardinality(K) \in Nat
    <2>1. K \subseteq C \ {a}
      OBVIOUS
    <2> HIDE DEF K, C
    <2> QED
      BY <1>3, <2>1, FS_Subset, FS_CardinalityType
  <1>5. ASSUME v.links > 0 PROVE Peers(E, a) # {}
    <2>1. L # {}
      <3> HIDE DEF L, v
      <3> QED
        BY <1>1, <1>5, FS_EmptySet
    <2>2. PICK x \in E : x.type \in IdentityTypes /\ x.source # a
                           /\ <<x.type, x.target>> \in AccountIdentities(E, a)
      BY <2>1
    <2>3. x.source \in IdentityAccounts(E, <<x.type, x.target>>)
      BY <2>2 DEF IdentityAccounts, Accounts, AccountIdentities
    <2> QED
      BY <2>2, <2>3 DEF Peers, PeersOn
  <1> HIDE DEF K, L, C, v
  <1>6. v.created < Cardinality(C)
    BY <1>1, <1>3, <1>4
  <1> QED
    BY <1>5, <1>6 DEF C, v

(* The property that TLC checks view by view, for every finite view. *)
THEOREM FeaturesHold ==
    ASSUME NEW view, "edges" \in DOMAIN view, IsFiniteSet(view.edges), NEW cutoff
    PROVE  FeaturesAgree(view, cutoff)
  <1> SUFFICES ASSUME NEW a \in Accounts(view.edges), Extract(view, a, cutoff) # None
               PROVE  LET v == Extract(view, a, cutoff)
                      IN  /\ v.identity.maxReuse <= v.identity.component
                          /\ v.identity.neighbours < v.identity.component
                          /\ v.identity.neighbours = 0
                               <=> \A t \in SharedTypes : v.identity.sharedWith[t] = 0
                          /\ v.identity.maxReuse > 1 <=> v.identity.neighbours > 0
                          /\ v.commerce.refunded <= v.commerce.orders
                          /\ v.commerce.refunded <= v.commerce.requested
                          /\ v.velocity.created < v.identity.component
                          /\ v.velocity.links > 0 => v.identity.neighbours > 0
    BY DEF FeaturesAgree
  <1> DEFINE V == SnapshotAt(view, cutoff)
             E == V.edges
             v == Extract(view, a, cutoff)
  <1>1. E = {x \in view.edges : x.at <= cutoff}
    BY DEF SnapshotAt
  <1>2. IsFiniteSet(E)
    BY <1>1, FS_Subset
  <1>3. v.identity = IdentityFeatures(E, a) /\ v.commerce = CommerceFeatures(E, a)
        /\ v.velocity = VelocityFeatures(V, a, cutoff)
    BY DEF Extract
  <1> HIDE DEF V
  <1>4. IdentityFeatures(E, a).component = Cardinality(ConnectedAccounts(E, a))
    BY DEF IdentityFeatures
  <1>5. v.commerce.refunded <= v.commerce.orders /\ v.commerce.refunded <= v.commerce.requested
    BY <1>2, <1>3, CommerceAgrees
  <1>6. /\ v.velocity.created < Cardinality(ConnectedAccounts(E, a))
        /\ v.velocity.links > 0 => Peers(E, a) # {}
    BY <1>2, <1>3, VelocityAgrees
  <1> HIDE DEF v, E
  <1>7. /\ v.identity.neighbours \in Nat
        /\ v.identity.maxReuse <= v.identity.component
        /\ v.identity.neighbours < v.identity.component
        /\ v.identity.neighbours = 0 <=> \A t \in SharedTypes : v.identity.sharedWith[t] = 0
        /\ v.identity.maxReuse > 1 <=> v.identity.neighbours > 0
        /\ v.identity.neighbours = Cardinality(Peers(E, a)) /\ IsFiniteSet(Peers(E, a))
    BY <1>2, <1>3, IdentityAgrees
  <1>8. v.velocity.links > 0 => v.identity.neighbours > 0
    BY <1>6, <1>7, FS_EmptySet
  <1> QED
    BY <1>3, <1>4, <1>5, <1>6, <1>7, <1>8 DEF v

----------------------------------------------------------------------------
(* What an extraction depends on. *)

(* An absent vector is none of the vectors. *)
NoneIsNoVector ==
    \A a, i, c, v, g : [age |-> a, identity |-> i, commerce |-> c, velocity |-> v,
                        categories |-> g] # None

(* The nodes that an extraction consults: the accounts of the component, and    *)
(* targets of edges.                                                           *)
LEMMA ConsultedAre ==
    ASSUME NEW S, NEW a
    PROVE  ConsultedNodes(S, a) \subseteq ConnectedAccounts(S, a) \cup {x.target : x \in S}
  <1> DEFINE T == {x.target : x \in S}
             latest == UNION {LatestTargets(OfType(S, t, {a})) : t \in {"USED_DEVICE", "PAID_WITH"}}
  <1>1. ASSUME NEW t, NEW k PROVE TargetsOf(S, t, k) \subseteq T
    BY DEF TargetsOf
  <1>2. ASSUME NEW t, NEW from PROVE LatestTargets(OfType(S, t, from)) \subseteq T
    BY DEF LatestTargets, OfType
  <1> HIDE DEF T
  <1>3. LatestAddresses(S, a) \subseteq T
    BY <1>1 DEF LatestAddresses, Least
  <1>4. AccountOrders(S, a) \subseteq T
    BY <1>1 DEF AccountOrders
  <1>5. latest \subseteq T
    BY <1>2
  <1>6. LatestTargets(OfType(S, "USED_PROMO", AccountOrders(S, a))) \subseteq T
    BY <1>2
  <1>7. ConsultedNodes(S, a) = AccountOrders(S, a) \cup ConnectedAccounts(S, a) \cup latest
          \cup LatestTargets(OfType(S, "USED_PROMO", AccountOrders(S, a))) \cup LatestAddresses(S, a)
    BY DEF ConsultedNodes
  <1>8. ConsultedNodes(S, a) \subseteq ConnectedAccounts(S, a) \cup T
    <2> HIDE DEF latest
    <2> QED
      BY <1>3, <1>4, <1>5, <1>6, <1>7
  <1> QED
    BY <1>8 DEF T

(* A snapshot cuts the edges and keeps the nodes. *)
LEMMA Snapshots ==
    ASSUME NEW N, NEW E, NEW c
    PROVE  SnapshotAt([nodes |-> N, edges |-> E], c)
             = [nodes |-> N, edges |-> {x \in E : x.at <= c}]
  <1> DEFINE v == [nodes |-> N, edges |-> E]
             S == {x \in v.edges : x.at <= c}
  <1>1. S = {x \in E : x.at <= c}
    OBVIOUS
  <1>2. SnapshotAt(v, c) = [v EXCEPT !.edges = S]
    BY DEF SnapshotAt
  <1> HIDE DEF S
  <1>3. [v EXCEPT !.edges = S] = [nodes |-> N, edges |-> S]
    OBVIOUS
  <1> QED
    BY <1>1, <1>2, <1>3

(* Two views with the same edges that agree on when accounts were created, and  *)
(* hold the edges' targets, are extracted from alike.                           *)
LEMMA ExtractsAgree ==
    ASSUME NoneIsNoVector, NEW N, NEW M, NEW E, NEW a, NEW c,
           \A x \in E : x.target \in DOMAIN N /\ x.target \in DOMAIN M,
           \A k : CreatedAt([nodes |-> N, edges |-> E], k, c)
                    = CreatedAt([nodes |-> M, edges |-> E], k, c)
    PROVE  LET v == Extract([nodes |-> N, edges |-> E], a, c)
               w == Extract([nodes |-> M, edges |-> E], a, c)
           IN  IF w = None THEN v = None ELSE v # None /\ Counts(v) = Counts(w)
  <1> DEFINE S == {x \in E : x.at <= c}
             V == [nodes |-> N, edges |-> S]
             W == [nodes |-> M, edges |-> S]
             v == Extract([nodes |-> N, edges |-> E], a, c)
             w == Extract([nodes |-> M, edges |-> E], a, c)
             C == ConnectedAccounts(S, a)
  <1>1. SnapshotAt([nodes |-> N, edges |-> E], c) = V /\ SnapshotAt([nodes |-> M, edges |-> E], c) = W
    BY Snapshots
  <1>2. ASSUME NEW k PROVE CreatedAt(V, k, c) = CreatedAt(W, k, c)
    <2>1. CreatedAt(V, k, c) = CreatedAt([nodes |-> N, edges |-> E], k, c)
      BY DEF CreatedAt
    <2>2. CreatedAt(W, k, c) = CreatedAt([nodes |-> M, edges |-> E], k, c)
      BY DEF CreatedAt
    <2> QED
      BY <2>1, <2>2
  <1>3. ASSUME NEW k PROVE /\ CreatedAt(V, k, c) # None => k \in DOMAIN N
                           /\ CreatedAt(W, k, c) # None => k \in DOMAIN M
    BY DEF CreatedAt
  <1>4. V.edges = S /\ W.edges = S /\ V.nodes = N /\ W.nodes = M
    OBVIOUS
  <1>5. \A x \in S : x.target \in DOMAIN N /\ x.target \in DOMAIN M
    OBVIOUS
  <1> HIDE DEF S, V, W
  <1>6. Consistent(V, a, c) <=> \A k \in C : CreatedAt(V, k, c) # None
    BY <1>3, <1>4, <1>5, ConsultedAre DEF Consistent
  <1>7. Consistent(W, a, c) <=> \A k \in C : CreatedAt(W, k, c) # None
    BY <1>3, <1>4, <1>5, ConsultedAre DEF Consistent
  <1>8. Consistent(V, a, c) <=> Consistent(W, a, c)
    BY <1>2, <1>6, <1>7
  <1>9. VelocityFeatures(V, a, c) = VelocityFeatures(W, a, c)
    <2> HIDE DEF C
    <2>1. {k \in C \ {a} : Recent(CreatedAt(V, k, c), c)}
            = {k \in C \ {a} : Recent(CreatedAt(W, k, c), c)}
      BY <1>2
    <2> QED
      BY <1>4, <2>1 DEF VelocityFeatures, C
  <1>10. CASE ~Consistent(V, a, c)
    <2>1. v = None /\ w = None
      BY <1>1, <1>8, <1>10 DEF Extract
    <2> QED
      BY <2>1
  <1>11. CASE Consistent(V, a, c)
    <2>1. v = [age |-> c - CreatedAt(V, a, c), identity |-> IdentityFeatures(S, a),
               commerce |-> CommerceFeatures(S, a), velocity |-> VelocityFeatures(V, a, c),
               categories |-> CategoricalFeatures(V, a)]
      BY <1>1, <1>4, <1>11 DEF Extract
    <2>2. w = [age |-> c - CreatedAt(W, a, c), identity |-> IdentityFeatures(S, a),
               commerce |-> CommerceFeatures(S, a), velocity |-> VelocityFeatures(W, a, c),
               categories |-> CategoricalFeatures(W, a)]
      BY <1>1, <1>4, <1>8, <1>11 DEF Extract
    <2>3. v # None /\ w # None
      BY <2>1, <2>2 DEF NoneIsNoVector
    <2>4. Counts(v) = Counts(w)
      <3> HIDE DEF v, w
      <3> QED
        BY <1>2, <1>9, <2>1, <2>2 DEF Counts
    <2> QED
      BY <2>3, <2>4
  <1> QED
    BY <1>10, <1>11

-----------------------------------------------------------------------------
(* Sorting. *)

(* Fewer come before what comes before. *)
LEMMA RanksGrow ==
    ASSUME NEW S, IsFiniteSet(S), NEW B \in [S -> SUBSET S],
           \A x \in S : x \notin B[x],
           \A x, y, z \in S : x \in B[y] /\ y \in B[z] => x \in B[z],
           NEW x \in S, NEW y \in S, x \in B[y]
    PROVE  Cardinality(B[x]) < Cardinality(B[y])
  <1>1. B[x] \subseteq B[y] /\ B[x] # B[y]
    OBVIOUS
  <1>2. IsFiniteSet(B[y])
    BY FS_Subset
  <1>3. Cardinality(B[x]) \in Nat /\ Cardinality(B[y]) \in Nat
    BY <1>1, <1>2, FS_Subset, FS_CardinalityType
  <1>4. Cardinality(B[x]) <= Cardinality(B[y]) /\ (Cardinality(B[x]) = Cardinality(B[y]) => B[x] = B[y])
    BY <1>1, <1>2, FS_Subset
  <1> QED
    BY <1>1, <1>3, <1>4

(* Among finitely many things in a strict order, each number of predecessors *)
(* is that of one of them.                                                   *)
LEMMA RanksAre ==
    ASSUME NEW S, IsFiniteSet(S), NEW B \in [S -> SUBSET S],
           \A x \in S : x \notin B[x],
           \A x, y \in S : x = y \/ x \in B[y] \/ y \in B[x],
           \A x, y, z \in S : x \in B[y] /\ y \in B[z] => x \in B[z]
    PROVE  /\ Cardinality(S) \in Nat
           /\ \A x \in S : Cardinality(B[x]) \in 0 .. Cardinality(S) - 1
           /\ \A k \in 1 .. Cardinality(S) : \E x \in S : Cardinality(B[x]) = k - 1
  <1> DEFINE N == Cardinality(S)
             r == [x \in S |-> Cardinality(B[x])]
             T == {r[x] : x \in S}
  <1>1. N \in Nat
    BY FS_CardinalityType
  <1>2. ASSUME NEW x \in S PROVE r[x] \in 0 .. N - 1
    <2>1. B[x] \subseteq S /\ B[x] # S
      OBVIOUS
    <2>2. IsFiniteSet(B[x]) /\ Cardinality(B[x]) \in Nat /\ Cardinality(B[x]) <= N
          /\ Cardinality(B[x]) # N
      BY <2>1, FS_Subset, FS_CardinalityType
    <2> QED
      BY <1>1, <2>2
  <1>3. ASSUME NEW x \in S, NEW y \in S, r[x] = r[y] PROVE x = y
    <2>1. ASSUME x \in B[y] PROVE FALSE
      <3>1. Cardinality(B[x]) < Cardinality(B[y])
        BY <2>1, RanksGrow
      <3> QED
        BY <1>2, <1>3, <3>1
    <2>2. ASSUME y \in B[x] PROVE FALSE
      <3>1. Cardinality(B[y]) < Cardinality(B[x])
        BY <2>2, RanksGrow
      <3> QED
        BY <1>2, <1>3, <3>1
    <2> QED
      BY <2>1, <2>2
  <1>4. IsFiniteSet(T) /\ Cardinality(T) = N
    <2>1. DOMAIN r = S /\ \A x, y \in S : r[x] = r[y] => x = y
      BY <1>3
    <2> HIDE DEF r, N
    <2>2. /\ IsFiniteSet({r[x] : x \in S})
          /\ Cardinality({r[x] : x \in S}) = Cardinality(S)
               <=> \A x, y \in S : r[x] = r[y] => x = y
      BY ONLY <2>1, Image, IsFiniteSet(S)
    <2> QED
      BY <2>1, <2>2 DEF N
  <1>5. T \subseteq 0 .. N - 1
    BY <1>2
  <1>6. IsFiniteSet(0 .. N - 1) /\ Cardinality(0 .. N - 1) = N
    <2>1. CASE N = 0
      <3>1. 0 .. N - 1 = {}
        BY <2>1
      <3> QED
        BY <2>1, <3>1, FS_EmptySet
    <2>2. CASE N # 0
      <3>1. 0 \in Int /\ N - 1 \in Int /\ 0 <= N - 1 /\ (N - 1) - 0 + 1 = N
        BY <1>1, <2>2
      <3> HIDE DEF N
      <3> QED
        BY <3>1, FS_Interval
    <2> QED
      BY <2>1, <2>2
  <1>7. T = 0 .. N - 1
    <2> HIDE DEF T
    <2> QED
      BY <1>4, <1>5, <1>6, FS_Subset
  <1>8. ASSUME NEW k \in 1 .. N PROVE \E x \in S : Cardinality(B[x]) = k - 1
    <2>1. k - 1 \in 0 .. N - 1
      BY <1>1
    <2>2. k - 1 \in T
      BY <1>7, <2>1
    <2> QED
      BY <2>2
  <1> QED
    BY <1>1, <1>2, <1>8

(* A sequence of what has 0, 1, 2, ... predecessors is all of them, in order. *)
LEMMA SortedAre ==
    ASSUME NEW S, IsFiniteSet(S), NEW B \in [S -> SUBSET S],
           \A x \in S : x \notin B[x],
           \A x, y \in S : x = y \/ x \in B[y] \/ y \in B[x],
           \A x, y, z \in S : x \in B[y] /\ y \in B[z] => x \in B[z],
           NEW s \in [1 .. Cardinality(S) -> S],
           \A k \in 1 .. Cardinality(S) : Cardinality(B[s[k]]) = k - 1
    PROVE  /\ s \in Seq(S) /\ Len(s) = Cardinality(S) /\ Len(s) \in Nat
           /\ \A x \in S : \E k \in 1 .. Len(s) : s[k] = x
           /\ \A j, k \in 1 .. Len(s) : j < k => s[j] \in B[s[k]]
  <1> DEFINE N == Cardinality(S)
  <1>1. N \in Nat /\ \A x \in S : Cardinality(B[x]) \in 0 .. N - 1
    BY RanksAre
  <1>2. s \in Seq(S) /\ Len(s) = N
    <2>1. s \in [1 .. N -> S]
      OBVIOUS
    <2> HIDE DEF N
    <2> QED
      BY ONLY <1>1, <2>1
  <1>3. ASSUME NEW x \in S, NEW y \in S, Cardinality(B[x]) = Cardinality(B[y]) PROVE x = y
    <2>1. ASSUME x \in B[y] PROVE FALSE
      <3>1. Cardinality(B[x]) < Cardinality(B[y])
        BY <2>1, RanksGrow
      <3> QED
        BY <1>1, <1>3, <3>1
    <2>2. ASSUME y \in B[x] PROVE FALSE
      <3>1. Cardinality(B[y]) < Cardinality(B[x])
        BY <2>2, RanksGrow
      <3> QED
        BY <1>1, <1>3, <3>1
    <2> QED
      BY <2>1, <2>2
  <1>4. ASSUME NEW x \in S PROVE \E k \in 1 .. N : s[k] = x
    <2>1. PICK k \in 1 .. N : k - 1 = Cardinality(B[x])
      <3>1. Cardinality(B[x]) + 1 \in 1 .. N /\ (Cardinality(B[x]) + 1) - 1 = Cardinality(B[x])
        BY <1>1
      <3> QED
        BY <3>1
    <2>2. s[k] \in S /\ Cardinality(B[s[k]]) = k - 1
      OBVIOUS
    <2> QED
      BY <1>3, <2>1, <2>2
  <1>5. ASSUME NEW j \in 1 .. N, NEW k \in 1 .. N, j < k PROVE s[j] \in B[s[k]]
    <2>1. s[j] \in S /\ s[k] \in S /\ Cardinality(B[s[j]]) = j - 1 /\ Cardinality(B[s[k]]) = k - 1
      OBVIOUS
    <2>2. j \in Int /\ k \in Int /\ ~(k - 1 < j - 1) /\ j - 1 # k - 1
      BY <1>1, <1>5
    <2>3. s[j] # s[k]
      BY <2>1, <2>2
    <2>4. ASSUME s[k] \in B[s[j]] PROVE FALSE
      <3>1. Cardinality(B[s[k]]) < Cardinality(B[s[j]])
        BY <2>1, <2>4, RanksGrow
      <3> QED
        BY <2>1, <2>2, <3>1
    <2> QED
      BY <2>1, <2>3, <2>4
  <1> QED
    BY <1>1, <1>2, <1>4, <1>5

(* No element of the sequence happens before one that it comes after.        *)
InTime(s) == \A j, k \in 1 .. Len(s) : j < k => s[j].at <= s[k].at

(* The last elements of a sequence in the order of its times leave out only  *)
(* what is not later than they are.                                          *)
LEMMA LastAre ==
    ASSUME NEW S, NEW s \in Seq(S), InTime(s), NEW n \in Nat
    PROVE  LET last == LastOf(s, n)
           IN  /\ last \in Seq(S) /\ InTime(last)
               /\ ToSet(last) \subseteq ToSet(s)
               /\ Len(last) <= Len(s)
               /\ Len(last) = Len(s) \/ Len(s) <= n => ToSet(last) = ToSet(s)
               /\ last # <<>> => Last(last) \in ToSet(last)
               /\ \A e \in ToSet(s) \ ToSet(last), f \in ToSet(last) : e.at <= f.at
  <1> DEFINE last == LastOf(s, n)
             m == IF Len(s) > n THEN Len(s) - n ELSE 0
  <1>1. Len(s) \in Nat /\ DOMAIN s = 1 .. Len(s) /\ \A i \in 1 .. Len(s) : s[i] \in S
    OBVIOUS
  <1>2. m \in Nat /\ m <= Len(s)
    BY <1>1
  <1>3. last = [i \in 1 .. Len(s) - m |-> s[m + i]]
    <2>1. last = SubSeq(s, m + 1, Len(s))
      BY <1>1 DEF LastOf
    <2> HIDE DEF m, last
    <2> QED
      BY <1>1, <1>2, <2>1
  <1> HIDE DEF last, m
  <1>4. /\ last \in Seq(S) /\ Len(last) = Len(s) - m /\ DOMAIN last = 1 .. Len(s) - m
        /\ \A i \in 1 .. Len(s) - m : last[i] = s[m + i] /\ m + i \in 1 .. Len(s)
    <2>1. Len(s) - m \in Nat
      BY <1>1, <1>2
    <2>2. \A i \in 1 .. Len(s) - m : m + i \in 1 .. Len(s)
      BY <1>1, <1>2
    <2>3. last \in [1 .. Len(s) - m -> S]
      BY <1>1, <1>3, <2>2
    <2> QED
      BY <1>3, <2>1, <2>2, <2>3
  <1>5. InTime(last)
    <2> SUFFICES ASSUME NEW j \in 1 .. Len(last), NEW k \in 1 .. Len(last), j < k
                 PROVE  last[j].at <= last[k].at
      BY DEF InTime
    <2>1. m + j < m + k
      BY <1>2, <1>4
    <2> QED
      BY <1>4, <2>1 DEF InTime
  <1>6. ToSet(last) \subseteq ToSet(s)
    BY <1>1, <1>4 DEF ToSet
  <1>7. ASSUME Len(last) = Len(s) \/ Len(s) <= n PROVE ToSet(last) = ToSet(s)
    <2>1. m = 0
      <3>1. CASE Len(s) <= n
        <4>1. ~(Len(s) > n)
          BY <1>1, <3>1
        <4> QED
          BY <4>1 DEF m
      <3>2. CASE Len(last) = Len(s)
        BY <1>1, <1>2, <1>4, <3>2
      <3> QED
        BY <1>7, <3>1, <3>2
    <2>2. \A i \in 1 .. Len(s) : i \in 1 .. Len(s) - m /\ last[i] = s[i]
      BY <1>1, <1>4, <2>1
    <2>3. DOMAIN last = DOMAIN s
      BY <1>1, <1>4, <2>1
    <2> QED
      BY <1>1, <2>2, <2>3 DEF ToSet
  <1>8. ASSUME last # <<>> PROVE Last(last) \in ToSet(last)
    <2>1. Len(last) \in Nat /\ Len(last) # 0
      BY <1>4, <1>8
    <2>2. Len(last) \in 1 .. Len(last) /\ DOMAIN last = 1 .. Len(last)
      BY <1>4, <2>1
    <2> QED
      BY <2>2 DEF Last, ToSet
  <1>9. ASSUME NEW e \in ToSet(s) \ ToSet(last), NEW f \in ToSet(last) PROVE e.at <= f.at
    <2>1. PICK i \in 1 .. Len(s) : s[i] = e
      BY <1>1 DEF ToSet
    <2>2. PICK k \in 1 .. Len(s) - m : last[k] = f
      BY <1>4 DEF ToSet
    <2>3. i <= m
      <3>1. ASSUME ~(i <= m) PROVE FALSE
        <4>1. i - m \in 1 .. Len(s) - m /\ m + (i - m) = i
          BY <1>1, <1>2, <3>1
        <4>2. last[i - m] = e
          BY <1>4, <2>1, <4>1
        <4> QED
          BY <1>4, <1>9, <4>1, <4>2 DEF ToSet
      <3> QED
        BY <3>1
    <2>4. m + k \in 1 .. Len(s) /\ i < m + k /\ s[m + k] = f
      BY <1>2, <1>4, <2>2, <2>3
    <2> QED
      BY <2>1, <2>4 DEF InTime
  <1>10. Len(last) <= Len(s)
    BY <1>1, <1>2, <1>4
  <1> QED
    BY <1>4, <1>5, <1>6, <1>7, <1>8, <1>9, <1>10 DEF last

(* One element more, if it is shown at all. *)
Kept(h, n, s) == IF h[n].type \in TimelineTypes THEN Append(s, h[n]) ELSE s

(* The selection of the timeline's events, one element at a time.            *)
LEMMA SignalsExist ==
    ASSUME NEW S, NEW h \in Seq(S)
    PROVE  \E r : /\ r[0] = <<>>
                  /\ \A n \in 1 .. Len(h) : r[n] = Kept(h, n, r[n - 1])
                  /\ HighSignal(h) = r[Len(h)]
  <1> DEFINE N == Len(h)
             Q == Seq(S)
             G == [n \in 1 .. N |-> [s \in Q |-> Kept(h, n, s)]]
             Is(r) == r = [n \in 0 .. N |->
                             IF n = 0 THEN <<>>
                             ELSE IF h[n].type \in TimelineTypes THEN Append(r[n - 1], h[n])
                             ELSE r[n - 1]]
  <1>1. N \in Nat /\ \A n \in 1 .. N : h[n] \in S
    OBVIOUS
  <1>2. PICK f \in [0 .. N -> Q] : Follows(f, N, <<>>, G)
    <2>1. G \in [1 .. N -> [Q -> Q]] /\ <<>> \in Q
      BY <1>1 DEF Kept
    <2> HIDE DEF N, Q, G
    <2> QED
      BY <1>1, <2>1, Recursion
  <1>3. Is(f)
    <2>1. ASSUME NEW n \in 0 .. N
          PROVE  f[n] = IF n = 0 THEN <<>>
                        ELSE IF h[n].type \in TimelineTypes THEN Append(f[n - 1], h[n])
                        ELSE f[n - 1]
      <3>1. CASE n = 0
        BY <1>2, <3>1 DEF Follows
      <3>2. CASE n # 0
        <4>1. n \in 1 .. N /\ n - 1 \in 0 .. N
          BY <1>1, <3>2
        <4>2. f[n - 1] \in Q
          BY <1>2, <4>1
        <4>3. f[n] = Kept(h, n, f[n - 1])
          BY <1>2, <4>1, <4>2 DEF Follows
        <4> QED
          BY <3>2, <4>3 DEF Kept
      <3> QED
        BY <3>1, <3>2
    <2> QED
      BY <1>2, <2>1
  <1> DEFINE r == CHOOSE r : Is(r)
  <1>4. Is(r)
    <2> HIDE DEF Is
    <2> QED
      BY <1>3
  <1>5. HighSignal(h) = r[N]
    BY DEF HighSignal
  <1>6. r[0] = <<>> /\ \A n \in 1 .. N : r[n] = Kept(h, n, r[n - 1])
    <2>1. r[0] = <<>>
      <3> HIDE DEF r
      <3>1. 0 \in 0 .. N
        BY <1>1
      <3> QED
        BY <1>4, <3>1
    <2>2. ASSUME NEW n \in 1 .. N PROVE r[n] = Kept(h, n, r[n - 1])
      <3> HIDE DEF r
      <3>1. n \in 0 .. N /\ n # 0
        BY <1>1
      <3> QED
        BY <1>4, <3>1 DEF Kept
    <2> QED
      BY <2>1, <2>2
  <1> QED
    BY <1>5, <1>6

(* The timeline's events of a history are those of its types, in its order.  *)
LEMMA SignalsAre ==
    ASSUME NEW S, NEW h \in Seq(S), InTime(h)
    PROVE  LET signals == HighSignal(h)
           IN  /\ signals \in Seq(S) /\ InTime(signals)
               /\ ToSet(signals) = {e \in ToSet(h) : e.type \in TimelineTypes}
  <1> DEFINE N == Len(h)
  <1>1. PICK r : /\ r[0] = <<>>
                 /\ \A n \in 1 .. N : r[n] = Kept(h, n, r[n - 1])
                 /\ HighSignal(h) = r[N]
    BY SignalsExist
  <1>2. N \in Nat /\ DOMAIN h = 1 .. N /\ \A n \in 1 .. N : h[n] \in S
    OBVIOUS
  <1> DEFINE From(n) == {h[i] : i \in {j \in 1 .. n : h[j].type \in TimelineTypes}}
             Good(n) == r[n] \in Seq(S) /\ InTime(r[n]) /\ ToSet(r[n]) = From(n)
             T == {n \in 0 .. N : Good(n)}
  <1>3. 0 \in T
    <2>1. <<>> \in Seq(S) /\ Len(<<>>) = 0 /\ DOMAIN <<>> = {}
      OBVIOUS
    <2>2. InTime(<<>>) /\ ToSet(<<>>) = {}
      BY <2>1 DEF InTime, ToSet
    <2>3. From(0) = {}
      OBVIOUS
    <2> HIDE DEF From
    <2>4. Good(0)
      BY <1>1, <2>1, <2>2, <2>3
    <2> QED
      BY <1>2, <2>4
  <1>4. ASSUME NEW n \in 1 .. N, n - 1 \in T PROVE n \in T
    <2>1. Good(n - 1) /\ r[n] = Kept(h, n, r[n - 1]) /\ n \in 0 .. N
      BY <1>1, <1>2, <1>4
    <2>2. 1 .. n = (1 .. n - 1) \cup {n}
      BY <1>2
    <2>3. CASE h[n].type \notin TimelineTypes
      <3>1. From(n) = From(n - 1)
        BY <2>2, <2>3
      <3> QED
        BY <2>1, <2>3, <3>1 DEF Kept
    <2>4. CASE h[n].type \in TimelineTypes
      <3> DEFINE p == r[n - 1]
      <3>1. r[n] = Append(p, h[n]) /\ p \in Seq(S) /\ h[n] \in S
        BY <1>2, <2>1, <2>4 DEF Kept
      <3>2. /\ r[n] \in Seq(S) /\ Len(r[n]) = Len(p) + 1 /\ Len(p) \in Nat
            /\ \A i \in 1 .. Len(p) : r[n][i] = p[i]
            /\ r[n][Len(p) + 1] = h[n]
            /\ DOMAIN r[n] = 1 .. Len(p) + 1 /\ DOMAIN p = 1 .. Len(p)
        <4> HIDE DEF p
        <4> QED
          BY <3>1
      <3>3. From(n) = From(n - 1) \cup {h[n]}
        BY <2>2, <2>4
      <3>4. ToSet(r[n]) = ToSet(p) \cup {h[n]}
        <4> HIDE DEF p
        <4>1. 1 .. Len(p) + 1 = (1 .. Len(p)) \cup {Len(p) + 1}
          BY <3>2
        <4> QED
          BY <3>2, <4>1 DEF ToSet
      <3>5. ASSUME NEW j \in 1 .. Len(r[n]), NEW k \in 1 .. Len(r[n]), j < k
            PROVE  r[n][j].at <= r[n][k].at
        <4>1. CASE k \in 1 .. Len(p)
          <5>1. j \in 1 .. Len(p)
            BY <3>2, <3>5, <4>1
          <5>2. p[j].at <= p[k].at
            BY <2>1, <3>5, <4>1, <5>1 DEF InTime
          <5> QED
            BY <3>2, <4>1, <5>1, <5>2
        <4>2. CASE k \notin 1 .. Len(p)
          <5>1. k = Len(p) + 1 /\ j \in 1 .. Len(p)
            BY <3>2, <3>5, <4>2
          <5>2. p[j] \in ToSet(p)
            BY <3>2, <5>1 DEF ToSet
          <5>3. PICK i \in 1 .. n - 1 : h[i] = p[j]
            BY <2>1, <5>2
          <5>4. i \in 1 .. N /\ i < n
            BY <1>2
          <5>5. h[i].at <= h[n].at
            BY <5>4 DEF InTime
          <5> QED
            BY <3>2, <5>1, <5>3, <5>5
        <4> QED
          BY <4>1, <4>2
      <3>6. InTime(r[n])
        BY <3>5 DEF InTime
      <3> QED
        BY <2>1, <3>2, <3>3, <3>4, <3>6
    <2> QED
      BY <2>3, <2>4
  <1>5. N \in T
    <2> HIDE DEF T, N
    <2> QED
      BY <1>2, <1>3, <1>4, Induction
  <1>6. From(N) = {e \in ToSet(h) : e.type \in TimelineTypes}
    BY <1>2 DEF ToSet
  <1> QED
    BY <1>1, <1>5, <1>6

-----------------------------------------------------------------------------
(* The timeline. *)

(* Known events happen at times and are told apart by their IDs.             *)
EventsAreKnown(V) ==
    /\ IsFiniteSet(V)
    /\ \A e \in V : e.at \in Nat /\ e.id \in Nat /\ \A f \in V : e.id = f.id => e = f

(* The history of some accounts is their events, in the order of their times. *)
LEMMA HistoryIs ==
    ASSUME NEW view, EventsAreKnown(view.events), NEW links, NEW a, NEW c, NEW l,
           NEW S, S = {e \in view.events : /\ e.at <= c
                                           /\ e.account \in {a} \cup SelectedPeers(links, a, l)}
    PROVE  LET history == ActivityEvents(view, links, a, c, l)
           IN  history \in Seq(S) /\ InTime(history) /\ ToSet(history) = S
  <1> DEFINE N == Cardinality(S)
             history == ActivityEvents(view, links, a, c, l)
             Prior(x) == {y \in S : y.at < x.at \/ (y.at = x.at /\ y.id < x.id)}
             B == [x \in S |-> Prior(x)]
  <1>1. IsFiniteSet(S) /\ \A e \in S : e.at \in Nat /\ e.id \in Nat /\ \A f \in S : e.id = f.id => e = f
    BY FS_Subset DEF EventsAreKnown
  <1>2. history = [k \in 1 .. N |-> CHOOSE x \in S : Cardinality(Prior(x)) = k - 1]
    BY DEF ActivityEvents, SortedBy
  <1>3. /\ B \in [S -> SUBSET S]
        /\ \A x \in S : x \notin B[x]
        /\ \A x, y \in S : x = y \/ x \in B[y] \/ y \in B[x]
        /\ \A x, y, z \in S : x \in B[y] /\ y \in B[z] => x \in B[z]
    <2>1. B \in [S -> SUBSET S]
      OBVIOUS
    <2>2. \A x \in S : x \notin B[x]
      BY <1>1
    <2>3. \A x, y \in S : x = y \/ x \in B[y] \/ y \in B[x]
      BY <1>1
    <2>4. \A x, y, z \in S : x \in B[y] /\ y \in B[z] => x \in B[z]
      BY <1>1
    <2> QED
      BY <2>1, <2>2, <2>3, <2>4
  <1>4. N \in Nat /\ \A k \in 1 .. N : \E x \in S : Cardinality(B[x]) = k - 1
    <2> HIDE DEF B, N
    <2> QED
      BY ONLY <1>1, <1>3, RanksAre DEF N
  <1>5. ASSUME NEW k \in 1 .. N PROVE history[k] \in S /\ Cardinality(B[history[k]]) = k - 1
    <2> DEFINE P(x) == Cardinality(Prior(x)) = k - 1
    <2>1. history[k] = CHOOSE x \in S : P(x)
      BY <1>2
    <2>2. \E x \in S : P(x)
      BY <1>4
    <2>3. history[k] \in S /\ P(history[k])
      <3> HIDE DEF P
      <3> QED
        BY <2>1, <2>2
    <2> QED
      BY <2>3
  <1>6. history \in [1 .. N -> S]
    <2> HIDE DEF Prior, history
    <2>1. DOMAIN history = 1 .. N
      BY <1>2
    <2> QED
      BY <1>2, <1>5
  <1> HIDE DEF history
  <1>7. /\ history \in Seq(S) /\ Len(history) = N
        /\ \A x \in S : \E k \in 1 .. N : history[k] = x
        /\ \A j, k \in 1 .. N : j < k => history[j] \in B[history[k]]
    <2> HIDE DEF B
    <2>1. \A k \in 1 .. N : Cardinality(B[history[k]]) = k - 1
      BY <1>5
    <2>2. /\ history \in Seq(S) /\ Len(history) = Cardinality(S)
          /\ \A x \in S : \E k \in 1 .. Len(history) : history[k] = x
          /\ \A j, k \in 1 .. Len(history) : j < k => history[j] \in B[history[k]]
      <3> HIDE DEF N
      <3>1. IsFiniteSet(S) /\ N = Cardinality(S)
        BY <1>1 DEF N
      <3> QED
        BY ONLY <3>1, <1>3, <1>6, <2>1, SortedAre, ZenonT(40)
    <2> QED
      BY <2>2
  <1>8. InTime(history)
    <2> SUFFICES ASSUME NEW j \in 1 .. N, NEW k \in 1 .. N, j < k
                 PROVE  history[j].at <= history[k].at
      BY <1>7 DEF InTime
    <2>1. history[j] \in S /\ history[k] \in S
      BY <1>5
    <2>2. history[j] \in Prior(history[k])
      BY <1>7, <2>1
    <2> QED
      BY <1>1, <2>1, <2>2
  <1>9. ToSet(history) = S
    <2>1. DOMAIN history = 1 .. N
      BY <1>6
    <2> QED
      BY <1>5, <1>7, <2>1 DEF ToSet
  <1> QED
    BY <1>7, <1>8, <1>9 DEF history

(* A timeline leaves out what is older than all it shows, and says so, for     *)
(* any events, cutoff and limits (service.py, get_case_timeline).             *)
THEOREM TimelineHolds ==
    ASSUME NEW view, EventsAreKnown(view.events), NEW a, NEW c \in Nat, NEW l,
           l.events \in Nat, l.timeline \in Nat
    PROVE  TimelineIsHonest(view, a, c, l)
  <1> DEFINE links == LinksAt(view, c)
             who == {a} \cup SelectedPeers(links, a, l)
             S == {e \in view.events : e.at <= c /\ e.account \in who}
             history == ActivityEvents(view, links, a, c, l)
             recent == LastOf(history, l.events)
             signals == HighSignal(recent)
             shown == LastOf(signals, l.timeline)
             wanted == {e \in view.events : e.type \in TimelineTypes /\ e.at <= c /\ e.account \in who}
             W == Timeline(view, links, a, c, l)
  <1>1. history \in Seq(S) /\ InTime(history) /\ ToSet(history) = S
    <2> HIDE DEF links
    <2>1. S = {e \in view.events : e.at <= c /\ e.account \in {a} \cup SelectedPeers(links, a, l)}
      OBVIOUS
    <2> HIDE DEF S
    <2>2. EventsAreKnown(view.events)
      OBVIOUS
    <2> QED
      BY ONLY <2>1, <2>2, HistoryIs
  <1>2. /\ W.events = shown
        /\ W.truncated <=> Len(history) > l.events \/ Len(signals) > Len(shown)
        /\ W.observed = IF shown = <<>> THEN c ELSE Last(shown).at
    BY DEF Timeline
  <1>3. wanted = {e \in S : e.type \in TimelineTypes} /\ \A e \in S : e.at \in Nat /\ e.at <= c
    BY DEF EventsAreKnown
  <1> HIDE DEF S, history
  <1>4. /\ recent \in Seq(S) /\ InTime(recent) /\ ToSet(recent) \subseteq S
        /\ Len(history) <= l.events => ToSet(recent) = S
        /\ \A e \in S \ ToSet(recent), f \in ToSet(recent) : e.at <= f.at
    BY <1>1, LastAre
  <1> HIDE DEF recent
  <1>5. /\ signals \in Seq(S) /\ InTime(signals)
        /\ ToSet(signals) = {e \in ToSet(recent) : e.type \in TimelineTypes}
    BY <1>4, SignalsAre
  <1> HIDE DEF signals
  <1>6. /\ shown \in Seq(S) /\ ToSet(shown) \subseteq ToSet(signals) /\ Len(shown) <= Len(signals)
        /\ Len(shown) = Len(signals) => ToSet(shown) = ToSet(signals)
        /\ shown # <<>> => Last(shown) \in ToSet(shown)
        /\ \A e \in ToSet(signals) \ ToSet(shown), f \in ToSet(shown) : e.at <= f.at
    BY <1>5, LastAre
  <1> HIDE DEF shown
  <1>7. ToSet(shown) \subseteq wanted
    BY <1>3, <1>4, <1>5, <1>6
  <1>8. ASSUME ~W.truncated PROVE ToSet(shown) = wanted
    <2>1. Len(history) \in Nat /\ Len(signals) \in Nat /\ Len(shown) \in Nat
      BY <1>1, <1>5, <1>6
    <2>2. Len(history) <= l.events /\ Len(shown) = Len(signals)
      BY <1>2, <1>6, <1>8, <2>1
    <2> QED
      BY <1>3, <1>4, <1>5, <1>6, <2>2
  <1>9. ASSUME NEW e \in wanted \ ToSet(shown), NEW f \in ToSet(shown) PROVE e.at <= f.at
    <2>1. f \in ToSet(signals) /\ f \in ToSet(recent) /\ e \in S
      BY <1>3, <1>5, <1>6
    <2>2. CASE e \in ToSet(recent)
      BY <1>3, <1>5, <1>6, <1>9, <2>2
    <2>3. CASE e \notin ToSet(recent)
      BY <1>4, <2>1, <2>3
    <2> QED
      BY <2>2, <2>3
  <1>10. W.observed <= c
    <2>1. CASE shown = <<>>
      BY <1>2, <2>1
    <2>2. CASE shown # <<>>
      BY <1>2, <1>3, <1>6, <1>7, <2>2
    <2> QED
      BY <2>1, <2>2
  <1> QED
    BY <1>2, <1>7, <1>8, <1>9, <1>10 DEF TimelineIsHonest

-----------------------------------------------------------------------------
(* What is read at a cutoff. *)

(* What is read of a view at a cutoff depends on the edges and events until  *)
(* then, and on the nodes.                                                   *)
SameUntil(v, w, c) ==
    /\ v.nodes = w.nodes
    /\ SnapshotAt(v, c).edges = SnapshotAt(w, c).edges
    /\ {e \in v.events : e.at <= c} = {e \in w.events : e.at <= c}

(* So does all evidence of the cutoff. *)
LEMMA EvidenceIsSame ==
    ASSUME NEW v, NEW w, NEW c, SameUntil(v, w, c), NEW a, NEW l
    PROVE  Evidence(v, a, c, l) = Evidence(w, a, c, l)
  <1>1. LinksAt(v, c) = LinksAt(w, c)
    <2>1. Uses(v, c) = Uses(w, c)
      BY DEF SameUntil, Uses
    <2> QED
      BY <2>1 DEF LinksAt
  <1> DEFINE links == LinksAt(w, c)
  <1>2. ActivityEvents(v, links, a, c, l) = ActivityEvents(w, links, a, c, l)
    <2> DEFINE who == {a} \cup SelectedPeers(links, a, l)
    <2>1. {e \in v.events : e.at <= c /\ e.account \in who}
            = {e \in w.events : e.at <= c /\ e.account \in who}
      BY DEF SameUntil
    <2> QED
      BY <2>1 DEF ActivityEvents
  <1>3. Activity(v, links, a, c, l) = Activity(w, links, a, c, l)
    BY <1>2 DEF Activity, OrderTotal, SameUntil
  <1>4. Timeline(v, links, a, c, l) = Timeline(w, links, a, c, l)
    BY <1>2 DEF Timeline
  <1>5. IdentityNeighborhood(v, a, c, l) = IdentityNeighborhood(w, a, c, l)
    BY <1>1 DEF IdentityNeighborhood, SameUntil
  <1> QED
    BY <1>1, <1>3, <1>4, <1>5 DEF Evidence

(* And so does the vector that its score explains. *)
LEMMA VectorIsSame ==
    ASSUME NEW v, NEW w, NEW c, SameUntil(v, w, c), NEW a,
           SnapshotAt(v, c).nodes = v.nodes, SnapshotAt(w, c).nodes = w.nodes
    PROVE  Extract(v, a, c) = Extract(w, a, c)
  <1> DEFINE V == SnapshotAt(v, c)
             W == SnapshotAt(w, c)
  <1>1. V.edges = W.edges /\ V.nodes = W.nodes
    BY DEF SameUntil
  <1> HIDE DEF V, W
  <1>2. \A b : CreatedAt(V, b, c) = CreatedAt(W, b, c)
    BY <1>1 DEF CreatedAt
  <1>3. Consistent(V, a, c) <=> Consistent(W, a, c)
    <2> DEFINE C == ConnectedAccounts(W.edges, a)
    <2>1. /\ Consistent(V, a, c) <=> /\ ConsultedNodes(W.edges, a) \subseteq DOMAIN W.nodes
                                    /\ \A b \in C : CreatedAt(V, b, c) # None
          /\ Consistent(W, a, c) <=> /\ ConsultedNodes(W.edges, a) \subseteq DOMAIN W.nodes
                                    /\ \A b \in C : CreatedAt(W, b, c) # None
      BY <1>1 DEF Consistent
    <2> HIDE DEF C
    <2> QED
      BY <1>2, <2>1
  <1>4. VelocityFeatures(V, a, c) = VelocityFeatures(W, a, c)
    <2> DEFINE P == ConnectedAccounts(W.edges, a) \ {a}
    <2>1. {b \in P : Recent(CreatedAt(V, b, c), c)} = {b \in P : Recent(CreatedAt(W, b, c), c)}
      BY <1>2
    <2> QED
      BY <1>1, <2>1 DEF VelocityFeatures
  <1>5. CategoricalFeatures(V, a) = CategoricalFeatures(W, a)
    <2>1. \A keys : Attributes(V, keys) = Attributes(W, keys)
      BY <1>1 DEF Attributes
    <2> QED
      BY <1>1, <2>1 DEF CategoricalFeatures
  <1> QED
    BY <1>1, <1>2, <1>3, <1>4, <1>5 DEF Extract, V, W

-----------------------------------------------------------------------------
(* Links. *)

(* The nodes that links join. *)
AccountNodes == {"Account"} \X Nat
(* Those of identities. *)
IdentityNodes == {"Address", "Device", "IPAddress", "PaymentIdentity"} \X Nat

(* The relationships of a snapshot.                                          *)
AreKnown(E, c) == IsFiniteSet(E) /\ \A x \in E : IsRelationship(x) /\ x.at <= c

(* The earliest and the latest of some times are among them.                 *)
LEMMA EarliestIs ==
    ASSUME NEW T \in SUBSET Nat, T # {}
    PROVE  EarliestOf(T) \in T /\ \A t \in T : EarliestOf(T) <= t
  <1>1. \E m \in T : \A t \in T : m <= t
    BY LeastNatural
  <1> QED
    BY <1>1 DEF EarliestOf

(* The latest of bounded times is among them. *)
LEMMA LatestIs ==
    ASSUME NEW T \in SUBSET Nat, T # {}, NEW c \in Nat, \A t \in T : t <= c
    PROVE  LatestOf(T) \in T /\ \A t \in T : t <= LatestOf(T)
  <1> DEFINE D == {c - t : t \in T}
  <1>1. D \in SUBSET Nat /\ D # {}
    <2>1. \A t \in T : c - t \in Nat
      OBVIOUS
    <2> QED
      BY <2>1
  <1>2. PICK d \in D : \A e \in D : d <= e
    <2> HIDE DEF D
    <2> QED
      BY <1>1, LeastNatural
  <1>3. PICK m \in T : d = c - m
    OBVIOUS
  <1>4. \A t \in T : t <= m
    <2> SUFFICES ASSUME NEW t \in T PROVE t <= m
      OBVIOUS
    <2>1. c - m <= c - t
      BY <1>2, <1>3
    <2> QED
      BY <2>1
  <1> QED
    BY <1>4 DEF LatestOf

(* Relationships of these types join nodes with these labels.                *)
LEMMA EndsAre ==
    ASSUME NEW x, IsRelationship(x)
    PROVE  /\ x.at \in Nat
           /\ x.type \in IdentityTypes =>
                /\ x.source \in AccountNodes /\ x.target \in IdentityNodes
                /\ x.target[1] # "Address"
                /\ x.type = "USED_DEVICE" <=> x.target[1] = "Device"
                /\ x.type = "SEEN_FROM" <=> x.target[1] = "IPAddress"
                /\ x.type = "PAID_WITH" <=> x.target[1] = "PaymentIdentity"
           /\ x.type = "PLACED" => x.source \in AccountNodes
           /\ x.type = "SHIPPED_TO" => x.target \in IdentityNodes /\ x.target[1] = "Address"
  <1>1. DOMAIN Ends = {"USED_DEVICE", "SEEN_FROM", "PAID_WITH", "PLACED", "SHIPPED_TO",
                       "USED_PROMO", "HAS_REFUND"}
    BY DEF Ends
  <1>2. CASE x.type = "USED_DEVICE"
    <2>1. x.source \in {"Account"} \X Nat /\ x.target \in {"Device"} \X Nat
      BY <1>2 DEF IsRelationship, Ends
    <2> QED
      BY <1>2, <2>1 DEF IsRelationship, IdentityTypes, AccountNodes, IdentityNodes
  <1>3. CASE x.type = "SEEN_FROM"
    <2>1. x.source \in {"Account"} \X Nat /\ x.target \in {"IPAddress"} \X Nat
      BY <1>3 DEF IsRelationship, Ends
    <2> QED
      BY <1>3, <2>1 DEF IsRelationship, IdentityTypes, AccountNodes, IdentityNodes
  <1>4. CASE x.type = "PAID_WITH"
    <2>1. x.source \in {"Account"} \X Nat /\ x.target \in {"PaymentIdentity"} \X Nat
      BY <1>4 DEF IsRelationship, Ends
    <2> QED
      BY <1>4, <2>1 DEF IsRelationship, IdentityTypes, AccountNodes, IdentityNodes
  <1>5. CASE x.type = "PLACED"
    <2>1. x.source \in {"Account"} \X Nat
      BY <1>5 DEF IsRelationship, Ends
    <2> QED
      BY <1>5, <2>1 DEF IsRelationship, IdentityTypes, AccountNodes, IdentityNodes
  <1>6. CASE x.type = "SHIPPED_TO"
    <2>1. x.target \in {"Address"} \X Nat
      BY <1>6 DEF IsRelationship, Ends
    <2> QED
      BY <1>6, <2>1 DEF IsRelationship, IdentityTypes, AccountNodes, IdentityNodes
  <1>7. CASE x.type \notin {"USED_DEVICE", "SEEN_FROM", "PAID_WITH", "PLACED", "SHIPPED_TO"}
    BY <1>7 DEF IsRelationship, IdentityTypes
  <1> QED
    BY <1>2, <1>3, <1>4, <1>5, <1>6, <1>7

(* An identity of an account is told by its node alone.                      *)
LEMMA IdentitiesAre ==
    ASSUME NEW E, \A x \in E : IsRelationship(x), NEW a, NEW t, NEW i,
           <<t, i>> \in AccountIdentities(E, a)
    PROVE  /\ t = "SHIPPED_TO" <=> i[1] = "Address"
           /\ t = "USED_DEVICE" <=> i[1] = "Device"
           /\ t = "SEEN_FROM" <=> i[1] = "IPAddress"
           /\ t = "PAID_WITH" <=> i[1] = "PaymentIdentity"
           /\ t \in SharedTypes
  <1>1. \/ \E x \in E : x.type \in IdentityTypes /\ x.source = a /\ x.type = t /\ x.target = i
        \/ t = "SHIPPED_TO" /\ \E x \in E : x.type = "SHIPPED_TO" /\ x.target = i
    BY DEF AccountIdentities, TargetsOf
  <1>2. ASSUME NEW x \in E, x.type \in IdentityTypes, x.type = t, x.target = i
        PROVE  /\ t \in IdentityTypes /\ i[1] # "Address"
               /\ t = "USED_DEVICE" <=> i[1] = "Device"
               /\ t = "SEEN_FROM" <=> i[1] = "IPAddress"
               /\ t = "PAID_WITH" <=> i[1] = "PaymentIdentity"
    BY <1>2, EndsAre
  <1>3. ASSUME NEW x \in E, x.type = "SHIPPED_TO", x.target = i PROVE i[1] = "Address"
    BY <1>3, EndsAre
  <1> QED
    BY <1>1, <1>2, <1>3 DEF SharedTypes, IdentityTypes

(* Finite sets of finite images.                                             *)
LEMMA ImagesFinite ==
    ASSUME NEW S, IsFiniteSet(S), NEW f, DOMAIN f = S
    PROVE  IsFiniteSet({f[x] : x \in S})
  BY Image

(* An account has an identity, of whatever type.                             *)
Holds(E, a, i) == \E t : <<t, i>> \in AccountIdentities(E, a)

(* Some use or link is of the account and the identity.                      *)
Joined(U, a, i) == \E u \in U : u.account = a /\ u.identity = i

(* The uses at a cutoff are of the identities that accounts have.            *)
LEMMA UsesAre ==
    ASSUME NEW view, NEW c \in Nat, NEW E, E = SnapshotAt(view, c).edges, AreKnown(E, c),
           NEW U, U = Uses(view, c)
    PROVE  /\ IsFiniteSet(U)
           /\ \A u \in U : /\ u.account \in AccountNodes /\ u.identity \in IdentityNodes
                           /\ u.at \in Nat /\ u.at <= c
           /\ \A a, i : Joined(U, a, i)
                        <=> Holds(E, a, i)
  <1> DEFINE D == {x \in E : x.type \in IdentityTypes}
             P == {x \in E : x.type = "PLACED"}
             Q == {x \in E : x.type = "SHIPPED_TO"}
             J == {q \in P \X Q : q[1].target = q[2].source}
             Direct(x) == [account |-> x.source, identity |-> x.target, at |-> x.at, ids |-> {x.id}]
             Shipped(p) == [account |-> p[1].source, identity |-> p[2].target,
                            at |-> IF p[1].at < p[2].at THEN p[2].at ELSE p[1].at,
                            ids |-> {p[1].id, p[2].id}]
             F == {Direct(x) : x \in D}
             G == {Shipped(p) : p \in J}
  <1>1. U = F \cup G
    BY DEF Uses
  <1>2. IsFiniteSet(D) /\ IsFiniteSet(J)
    <2>1. IsFiniteSet(E) /\ D \subseteq E /\ P \subseteq E /\ Q \subseteq E
      BY DEF AreKnown
    <2>2. IsFiniteSet(D) /\ IsFiniteSet(P) /\ IsFiniteSet(Q)
      BY <2>1, FS_Subset
    <2>3. IsFiniteSet(P \X Q)
      <3> HIDE DEF P, Q
      <3> QED
        BY <2>2, FS_Product
    <2>4. J \subseteq P \X Q
      OBVIOUS
    <2> QED
      BY <2>2, <2>3, <2>4, FS_Subset
  <1>3. IsFiniteSet(F)
    <2> DEFINE f == [x \in D |-> Direct(x)]
    <2>1. F = {f[x] : x \in D} /\ DOMAIN f = D
      OBVIOUS
    <2> HIDE DEF F, f, D
    <2>2. IsFiniteSet({f[x] : x \in D})
      BY ONLY <1>2, <2>1, ImagesFinite
    <2> QED
      BY <2>1, <2>2
  <1>4. IsFiniteSet(G)
    <2> DEFINE f == [p \in J |-> Shipped(p)]
    <2>1. G = {f[p] : p \in J} /\ DOMAIN f = J
      OBVIOUS
    <2> HIDE DEF G, f, J
    <2>2. IsFiniteSet({f[p] : p \in J})
      BY ONLY <1>2, <2>1, ImagesFinite
    <2> QED
      BY <2>1, <2>2
  <1>5. IsFiniteSet(U)
    <2> HIDE DEF F, G
    <2> QED
      BY <1>1, <1>3, <1>4, FS_Union
  <1>6. ASSUME NEW u \in U
        PROVE  /\ u.account \in AccountNodes /\ u.identity \in IdentityNodes
               /\ u.at \in Nat /\ u.at <= c
    <2>1. CASE u \in F
      <3>1. PICK x \in D : u = Direct(x)
        BY <2>1
      <3>2. IsRelationship(x) /\ x.at <= c /\ x.type \in IdentityTypes
        BY DEF AreKnown
      <3> QED
        BY <3>1, <3>2, EndsAre
    <2>2. CASE u \in G
      <3>1. PICK p \in J : u = Shipped(p)
        BY <2>2
      <3>2. /\ p[1] \in E /\ p[1].type = "PLACED" /\ p[2] \in E /\ p[2].type = "SHIPPED_TO"
        OBVIOUS
      <3>3. /\ IsRelationship(p[1]) /\ p[1].at <= c /\ IsRelationship(p[2]) /\ p[2].at <= c
        BY <3>2 DEF AreKnown
      <3>4. /\ p[1].source \in AccountNodes /\ p[2].target \in IdentityNodes
            /\ p[1].at \in Nat /\ p[2].at \in Nat
        BY <3>2, <3>3, EndsAre
      <3> QED
        BY <3>1, <3>3, <3>4
    <2> QED
      BY <1>1, <2>1, <2>2
  <1>7. ASSUME NEW u \in U PROVE \E t : <<t, u.identity>> \in AccountIdentities(E, u.account)
    <2>1. CASE u \in F
      <3>1. PICK x \in D : u = Direct(x)
        BY <2>1
      <3>2. u.account = x.source /\ u.identity = x.target
        BY <3>1
      <3>3. <<x.type, x.target>> \in AccountIdentities(E, x.source)
        BY DEF AccountIdentities
      <3> QED
        BY <3>2, <3>3
    <2>2. CASE u \in G
      <3>1. PICK p \in J : u = Shipped(p)
        BY <2>2
      <3>2. u.account = p[1].source /\ u.identity = p[2].target
        BY <3>1
      <3>3. p[1].target \in AccountOrders(E, p[1].source)
        BY DEF AccountOrders, TargetsOf
      <3>4. p[2].target \in TargetsOf(E, "SHIPPED_TO", p[1].target)
        BY DEF TargetsOf
      <3>5. <<"SHIPPED_TO", p[2].target>> \in AccountIdentities(E, p[1].source)
        BY <3>3, <3>4 DEF AccountIdentities
      <3> QED
        BY <3>2, <3>5
    <2> QED
      BY <1>1, <2>1, <2>2
  <1>8. ASSUME NEW a, NEW t, NEW i, <<t, i>> \in AccountIdentities(E, a)
        PROVE  \E u \in U : u.account = a /\ u.identity = i
    <2>1. \/ \E x \in E : x.type \in IdentityTypes /\ x.source = a /\ x.target = i
          \/ \E o \in AccountOrders(E, a) : i \in TargetsOf(E, "SHIPPED_TO", o)
      BY <1>8 DEF AccountIdentities
    <2>2. ASSUME NEW x \in E, x.type \in IdentityTypes, x.source = a, x.target = i
          PROVE  \E u \in U : u.account = a /\ u.identity = i
      <3>1. Direct(x) \in U /\ Direct(x).account = a /\ Direct(x).identity = i
        BY <1>1, <2>2
      <3> QED
        BY <3>1
    <2>3. ASSUME NEW o \in AccountOrders(E, a), i \in TargetsOf(E, "SHIPPED_TO", o)
          PROVE  \E u \in U : u.account = a /\ u.identity = i
      <3>1. PICK p \in P : p.source = a /\ p.target = o
        BY DEF AccountOrders, TargetsOf
      <3>2. PICK q \in Q : q.source = o /\ q.target = i
        BY <2>3 DEF TargetsOf
      <3> DEFINE z == <<p, q>>
      <3>3. z \in J /\ z[1] = p /\ z[2] = q
        BY <3>1, <3>2
      <3>4. Shipped(z) \in U
        <4> HIDE DEF z, J
        <4> QED
          BY <1>1, <3>3
      <3>5. Shipped(z).account = a /\ Shipped(z).identity = i
        BY <3>1, <3>2
      <3> QED
        BY <3>4, <3>5
    <2> QED
      BY <2>1, <2>2, <2>3
  <1>9. \A a, i : Joined(U, a, i)
                 => Holds(E, a, i)
    BY ONLY <1>7 DEF Holds, Joined
  <1>10. \A a, i : Holds(E, a, i)
                  => Joined(U, a, i)
    BY ONLY <1>8 DEF Holds, Joined
  <1> HIDE DEF D, P, Q, J, F, G, Direct, Shipped
  <1>11. \A a, i : Joined(U, a, i)
                  <=> Holds(E, a, i)
    BY ONLY <1>9, <1>10
  <1> QED
    BY ONLY <1>5, <1>6, <1>11

(* Links are of an account and an identity, one for each such pair; they     *)
(* have been used by the cutoff, and connect the peers of the features.      *)
AreLinks(L, E, c) ==
    /\ IsFiniteSet(L)
    /\ \A l \in L : /\ l.account \in AccountNodes /\ l.identity \in IdentityNodes
                    /\ l.first \in Nat /\ l.last \in Nat /\ l.first <= l.last /\ l.last <= c
    /\ \A l, m \in L : l.account = m.account /\ l.identity = m.identity => l = m
    /\ \A a, b : b \in Peers(E, a)
         <=> b # a /\ \E l, m \in L : l.account = a /\ m.account = b /\ l.identity = m.identity

(* The links at a cutoff are links of what is known at it. *)
LEMMA LinksAre ==
    ASSUME NEW view, NEW c \in Nat, NEW E, E = SnapshotAt(view, c).edges, AreKnown(E, c),
           NEW L, L = LinksAt(view, c)
    PROVE  AreLinks(L, E, c)
  <1> DEFINE U == Uses(view, c)
             Of(pair) == {u \in U : <<u.account, u.identity>> = pair}
             Link(pair) == [account |-> pair[1], identity |-> pair[2],
                            first |-> EarliestOf({u.at : u \in Of(pair)}),
                            last |-> LatestOf({u.at : u \in Of(pair)}),
                            ids |-> UNION {u.ids : u \in Of(pair)}]
             Pair(u) == <<u.account, u.identity>>
             K == {Pair(u) : u \in U}
  <1>1. L = {Link(pair) : pair \in K}
    BY DEF LinksAt
  <1>2. /\ IsFiniteSet(U)
        /\ \A u \in U : /\ u.account \in AccountNodes /\ u.identity \in IdentityNodes
                        /\ u.at \in Nat /\ u.at <= c
        /\ \A a, i : Joined(U, a, i)
                     <=> Holds(E, a, i)
    <2> HIDE DEF U
    <2>1. U = Uses(view, c)
      BY DEF U
    <2>2. E = SnapshotAt(view, c).edges /\ AreKnown(E, c) /\ c \in Nat
      OBVIOUS
    <2>3. IsFiniteSet(U)
      BY ONLY <2>1, <2>2, UsesAre
    <2>4. \A u \in U : /\ u.account \in AccountNodes /\ u.identity \in IdentityNodes
                       /\ u.at \in Nat /\ u.at <= c
      BY ONLY <2>1, <2>2, UsesAre
    <2>5. \A a, i : Joined(U, a, i)
                   <=> Holds(E, a, i)
      BY ONLY <2>1, <2>2, UsesAre
    <2> QED
      BY <2>3, <2>4, <2>5
  <1> HIDE DEF U
  <1>3. IsFiniteSet(L)
    <2> DEFINE f == [u \in U |-> Pair(u)]
               g == [pair \in K |-> Link(pair)]
    <2>1. IsFiniteSet(K)
      <3>1. K = {f[x] : x \in U} /\ DOMAIN f = U
        OBVIOUS
      <3> HIDE DEF K, f, Pair
      <3>2. IsFiniteSet({f[x] : x \in U})
        BY ONLY <1>2, <3>1, ImagesFinite
      <3> QED
        BY <3>1, <3>2
    <2>2. L = {g[pair] : pair \in K} /\ DOMAIN g = K
      <3> HIDE DEF K, Link
      <3> QED
        BY <1>1
    <2> HIDE DEF K, g, f, Link
    <2>3. IsFiniteSet({g[x] : x \in K})
      BY ONLY <2>1, <2>2, ImagesFinite
    <2> QED
      BY <2>2, <2>3
  <1>4. ASSUME NEW l \in L
        PROVE  \E u \in U : l = Link(Pair(u)) /\ l.account = u.account /\ l.identity = u.identity
    <2>1. PICK pair \in K : l = Link(pair)
      <3> HIDE DEF K, Link
      <3> QED
        BY <1>1
    <2>2. PICK u \in U : pair = Pair(u)
      OBVIOUS
    <2> QED
      BY <2>1, <2>2
  <1>5. ASSUME NEW u \in U
        PROVE  Link(Pair(u)) \in L /\ Link(Pair(u)).account = u.account
               /\ Link(Pair(u)).identity = u.identity
    <2>1. Pair(u) \in K
      OBVIOUS
    <2>2. Link(Pair(u)) \in L
      <3> HIDE DEF K, Link, Pair
      <3> QED
        BY <1>1, <2>1
    <2> QED
      BY <2>2
  <1>6. ASSUME NEW l \in L
        PROVE  /\ l.account \in AccountNodes /\ l.identity \in IdentityNodes
               /\ l.first \in Nat /\ l.last \in Nat /\ l.first <= l.last /\ l.last <= c
    <2>1. PICK u \in U : l = Link(Pair(u)) /\ l.account = u.account /\ l.identity = u.identity
      BY <1>4
    <2> DEFINE T == {w.at : w \in Of(Pair(u))}
    <2>2. l.first = EarliestOf(T) /\ l.last = LatestOf(T)
      BY <2>1
    <2>3. T \in SUBSET Nat /\ T # {} /\ \A t \in T : t <= c
      <3>1. u \in Of(Pair(u))
        OBVIOUS
      <3>2. Of(Pair(u)) \subseteq U
        OBVIOUS
      <3> HIDE DEF Of, Pair
      <3> QED
        BY <1>2, <3>1, <3>2
    <2> HIDE DEF T
    <2>4. EarliestOf(T) \in T /\ \A t \in T : EarliestOf(T) <= t
      BY <2>3, EarliestIs
    <2>5. LatestOf(T) \in T
      BY <2>3, LatestIs
    <2> QED
      BY <1>2, <2>1, <2>2, <2>3, <2>4, <2>5
  <1>7. ASSUME NEW l \in L, NEW m \in L, l.account = m.account, l.identity = m.identity
        PROVE  l = m
    <2>1. PICK u \in U : l = Link(Pair(u)) /\ l.account = u.account /\ l.identity = u.identity
      BY <1>4
    <2>2. PICK w \in U : m = Link(Pair(w)) /\ m.account = w.account /\ m.identity = w.identity
      BY <1>4
    <2>3. Pair(u) = Pair(w)
      BY <1>7, <2>1, <2>2
    <2> HIDE DEF Link, Pair
    <2> QED
      BY <2>1, <2>2, <2>3
  <1>8. \A a, i : Joined(L, a, i)
                <=> Holds(E, a, i)
    <2> HIDE DEF Link, Pair, K
    <2>1. \A a, i : Joined(L, a, i)
                  <=> Joined(U, a, i)
      BY <1>4, <1>5 DEF Joined
    <2> SUFFICES ASSUME NEW a, NEW i
                 PROVE  Joined(L, a, i)
                          <=> Holds(E, a, i)
      OBVIOUS
    <2>2. Joined(L, a, i)
            <=> Joined(U, a, i)
      BY ONLY <2>1
    <2>3. Joined(U, a, i)
            <=> Holds(E, a, i)
      BY ONLY <1>2
    <2> QED
      BY ONLY <2>2, <2>3
  <1>9. ASSUME NEW a, NEW b
        PROVE  b \in Peers(E, a)
                 <=> b # a /\ \E l, m \in L : /\ l.account = a /\ m.account = b
                                              /\ l.identity = m.identity
    <2>1. ASSUME NEW j, NEW k, NEW d, NEW e
          PROVE  j \in AccountIdentities(E, d) => j = <<j[1], j[2]>>
      BY DEF AccountIdentities
    <2>2. b \in Peers(E, a) => b # a /\ \E l, m \in L : /\ l.account = a /\ m.account = b
                                                       /\ l.identity = m.identity
      <3> SUFFICES ASSUME b \in Peers(E, a)
                   PROVE  b # a /\ \E l, m \in L : /\ l.account = a /\ m.account = b
                                                   /\ l.identity = m.identity
        OBVIOUS
      <3>1. PICK j \in AccountIdentities(E, a) : b \in IdentityAccounts(E, j)
        BY DEF Peers, PeersOn
      <3>2. b # a /\ j \in AccountIdentities(E, b)
        BY <3>1 DEF Peers, PeersOn, IdentityAccounts
      <3>3. j = <<j[1], j[2]>>
        BY <2>1
      <3> DEFINE i == j[2]
                 t == j[1]
      <3>6. <<t, i>> \in AccountIdentities(E, a) /\ <<t, i>> \in AccountIdentities(E, b)
        BY <3>2, <3>3
      <3> HIDE DEF i, t
      <3>4. PICK l \in L : l.account = a /\ l.identity = i
        BY ONLY <1>8, <3>6 DEF Holds, Joined
      <3>5. PICK m \in L : m.account = b /\ m.identity = i
        BY ONLY <1>8, <3>6 DEF Holds, Joined
      <3> QED
        BY <3>2, <3>4, <3>5
    <2>3. ASSUME b # a, NEW l \in L, NEW m \in L, l.account = a, m.account = b,
                 l.identity = m.identity
          PROVE  b \in Peers(E, a)
      <3>1. PICK t : <<t, l.identity>> \in AccountIdentities(E, a)
        BY <1>8, <2>3 DEF Holds, Joined
      <3>2. PICK v : <<v, l.identity>> \in AccountIdentities(E, b)
        BY <1>8, <2>3 DEF Holds, Joined
      <3>3. t = v
        <4>1. \A x \in E : IsRelationship(x)
          BY DEF AreKnown
        <4>2. /\ t = "SHIPPED_TO" <=> l.identity[1] = "Address"
              /\ t = "USED_DEVICE" <=> l.identity[1] = "Device"
              /\ t = "SEEN_FROM" <=> l.identity[1] = "IPAddress"
              /\ t = "PAID_WITH" <=> l.identity[1] = "PaymentIdentity"
              /\ t \in SharedTypes
          BY ONLY <4>1, <3>1, IdentitiesAre
        <4>3. /\ v = "SHIPPED_TO" <=> l.identity[1] = "Address"
              /\ v = "USED_DEVICE" <=> l.identity[1] = "Device"
              /\ v = "SEEN_FROM" <=> l.identity[1] = "IPAddress"
              /\ v = "PAID_WITH" <=> l.identity[1] = "PaymentIdentity"
              /\ v \in SharedTypes
          BY ONLY <4>1, <3>2, IdentitiesAre
        <4> QED
          BY ONLY <4>2, <4>3 DEF SharedTypes, IdentityTypes
      <3> DEFINE j == <<t, l.identity>>
      <3>4. j \in AccountIdentities(E, a) /\ j \in AccountIdentities(E, b)
        BY <3>1, <3>2, <3>3
      <3> HIDE DEF j
      <3>5. b \in Accounts(E)
        BY <3>4, StrangerIsAlone
      <3> QED
        BY <2>3, <3>4, <3>5 DEF Peers, PeersOn, IdentityAccounts
    <2> QED
      BY <2>2, <2>3
  <1> QED
    BY <1>3, <1>6, <1>7, <1>9 DEF AreLinks

-----------------------------------------------------------------------------
(* Peers. *)

(* The links of peers are those of the accounts that the features count.     *)
LEMMA PeersAreLinked ==
    ASSUME NEW L, NEW E, NEW c, AreLinks(L, E, c), NEW a
    PROVE  /\ {l.account : l \in PeerLinks(L, a)} = Peers(E, a)
           /\ \A l : l \in PeerLinks(L, a)
                <=> l \in L /\ l.account # a
                    /\ \E m \in L : m.account = a /\ m.identity = l.identity
           /\ IsFiniteSet(Peers(E, a))
  <1> DEFINE K == {[account |-> m.account, identity |-> m.identity] : m \in L}
             shared == PeerLinks(L, a)
  <1>1. ASSUME NEW i
        PROVE  [account |-> a, identity |-> i] \in K <=> \E m \in L : m.account = a /\ m.identity = i
    OBVIOUS
  <1>2. \A l : l \in shared <=> l \in L /\ l.account # a
                                /\ \E m \in L : m.account = a /\ m.identity = l.identity
    BY <1>1 DEF PeerLinks
  <1>3. {l.account : l \in shared} = Peers(E, a)
    <2> HIDE DEF shared
    <2>1. \A b : b \in Peers(E, a)
            <=> b # a /\ \E l, m \in L : l.account = a /\ m.account = b /\ l.identity = m.identity
      BY DEF AreLinks
    <2>2. ASSUME NEW l \in shared PROVE l.account \in Peers(E, a)
      BY <1>2, <2>1
    <2>3. ASSUME NEW b \in Peers(E, a) PROVE b \in {l.account : l \in shared}
      <3>1. PICK l \in L, m \in L : /\ l.account = a /\ m.account = b
                                    /\ l.identity = m.identity /\ b # a
        BY <2>1
      <3>2. m \in shared
        BY <1>2, <3>1
      <3> QED
        BY <3>1, <3>2
    <2> QED
      BY <2>2, <2>3
  <1>4. IsFiniteSet(Peers(E, a))
    <2> DEFINE f == [l \in shared |-> l.account]
    <2>1. IsFiniteSet(shared)
      <3>1. shared \subseteq L
        BY <1>2
      <3> QED
        BY <3>1, FS_Subset DEF AreLinks
    <2>2. {l.account : l \in shared} = {f[l] : l \in shared} /\ DOMAIN f = shared
      OBVIOUS
    <2> HIDE DEF f, shared
    <2>3. IsFiniteSet({f[l] : l \in shared})
      BY ONLY <2>1, <2>2, ImagesFinite
    <2> QED
      BY <1>3, <2>2, <2>3
  <1> QED
    BY <1>2, <1>3, <1>4

(* Every peer has a place in the ranking: fewer peers share more types, later, *)
(* or have a smaller ID.                                                       *)
LEMMA RankedAre ==
    ASSUME NEW L, NEW E, NEW c \in Nat, AreLinks(L, E, c), NEW a, NEW P, P = Peers(E, a),
           NEW ranked, ranked = RankedPeers(L, a)
    PROVE  /\ ranked \in Seq(P) /\ Len(ranked) = Cardinality(P) /\ ToSet(ranked) = P
           /\ Len(ranked) \in Nat
  <1> DEFINE shared == PeerLinks(L, a)
             N == Cardinality(P)
             Of(b) == {l \in shared : l.account = b}
             Breadth(b) == Cardinality({l.identity[1] : l \in Of(b)})
             Recently(b) == LatestOf({l.last : l \in Of(b)})
             Ahead(d, b) == \/ Breadth(d) > Breadth(b)
                            \/ Breadth(d) = Breadth(b)
                               /\ \/ Recently(d) > Recently(b)
                                  \/ Recently(d) = Recently(b) /\ d[2] < b[2]
             B == [b \in P |-> {d \in P : Ahead(d, b)}]
  <1>1. /\ {l.account : l \in shared} = P /\ IsFiniteSet(P)
        /\ shared \subseteq L
    BY PeersAreLinked
  <1>2. ranked = [k \in 1 .. N |->
                    CHOOSE b \in P : Cardinality({d \in P : Ahead(d, b)}) = k - 1]
    <2> DEFINE A == {l.account : l \in shared}
    <2>1. ranked = [k \in 1 .. Cardinality(A) |->
                      CHOOSE b \in A : Cardinality({d \in A : Ahead(d, b)}) = k - 1]
      BY DEF RankedPeers, SortedBy
    <2>2. A = P
      BY <1>1
    <2> HIDE DEF A, Ahead
    <2> QED
      BY ONLY <2>1, <2>2
  <1>3. ASSUME NEW b \in P
        PROVE  Breadth(b) \in Nat /\ Recently(b) \in Nat /\ b \in AccountNodes
    <2>1. PICK m \in shared : m.account = b
      <3> HIDE DEF shared
      <3> QED
        BY <1>1
    <2>2. m \in Of(b) /\ Of(b) \subseteq L
      BY <1>1, <2>1
    <2> HIDE DEF Of, shared
    <2>3. IsFiniteSet(Of(b))
      BY <2>2, FS_Subset DEF AreLinks
    <2>4. Breadth(b) \in Nat
      <3> DEFINE f == [l \in Of(b) |-> l.identity[1]]
                 F == {f[l] : l \in Of(b)}
      <3>1. {l.identity[1] : l \in Of(b)} = F /\ DOMAIN f = Of(b)
        OBVIOUS
      <3>2. IsFiniteSet(F)
        <4> HIDE DEF f
        <4> QED
          BY ONLY <2>3, <3>1, ImagesFinite
      <3> HIDE DEF F
      <3> QED
        BY <3>1, <3>2, FS_CardinalityType
    <2>5. Recently(b) \in Nat
      <3> DEFINE T == {l.last : l \in Of(b)}
      <3>1. T \in SUBSET Nat /\ T # {} /\ \A t \in T : t <= c
        BY <2>2 DEF AreLinks
      <3> HIDE DEF T
      <3>2. LatestOf(T) \in T
        BY <3>1, LatestIs
      <3> QED
        BY <3>1, <3>2 DEF T
    <2>6. b \in AccountNodes
      BY <1>1, <2>1, <2>2 DEF AreLinks
    <2> QED
      BY <2>4, <2>5, <2>6
  <1> HIDE DEF Breadth, Recently
  <1>4. ASSUME NEW d \in P, NEW b \in P, d[2] = b[2] PROVE d = b
    <2>1. d \in AccountNodes /\ b \in AccountNodes
      BY <1>3
    <2> QED
      BY <1>4, <2>1 DEF AccountNodes
  <1>5. \A b \in P : b[2] \in Nat
    <2> SUFFICES ASSUME NEW b \in P PROVE b[2] \in Nat
      OBVIOUS
    <2>1. b \in AccountNodes
      BY <1>3
    <2> QED
      BY <2>1 DEF AccountNodes
  <1>6. /\ B \in [P -> SUBSET P]
        /\ \A x \in P : x \notin B[x]
        /\ \A x, y \in P : x = y \/ x \in B[y] \/ y \in B[x]
        /\ \A x, y, z \in P : x \in B[y] /\ y \in B[z] => x \in B[z]
    <2>1. B \in [P -> SUBSET P]
      OBVIOUS
    <2>2. \A x \in P : x \notin B[x]
      BY <1>3, <1>5
    <2>3. \A x, y \in P : x = y \/ x \in B[y] \/ y \in B[x]
      BY <1>3, <1>4, <1>5
    <2>4. \A x, y, z \in P : x \in B[y] /\ y \in B[z] => x \in B[z]
      BY <1>3, <1>5
    <2> QED
      BY <2>1, <2>2, <2>3, <2>4
  <1>7. N \in Nat /\ \A k \in 1 .. N : \E x \in P : Cardinality(B[x]) = k - 1
    <2> HIDE DEF B, N
    <2>1. IsFiniteSet(P)
      BY <1>1
    <2> QED
      BY ONLY <1>6, <2>1, RanksAre DEF N
  <1>8. ASSUME NEW k \in 1 .. N PROVE ranked[k] \in P /\ Cardinality(B[ranked[k]]) = k - 1
    <2> DEFINE Q(x) == Cardinality({d \in P : Ahead(d, x)}) = k - 1
    <2>1. ranked[k] = CHOOSE x \in P : Q(x)
      BY <1>2
    <2>2. \E x \in P : Q(x)
      BY <1>7
    <2>3. ranked[k] \in P /\ Q(ranked[k])
      <3> HIDE DEF Q
      <3> QED
        BY <2>1, <2>2
    <2> QED
      BY <2>3
  <1>9. ranked \in [1 .. N -> P]
    <2> HIDE DEF Ahead
    <2>1. DOMAIN ranked = 1 .. N
      BY <1>2
    <2> QED
      BY <1>2, <1>8
  <1>10. /\ ranked \in Seq(P) /\ Len(ranked) = Cardinality(P)
         /\ \A x \in P : \E k \in 1 .. Len(ranked) : ranked[k] = x
    <2> HIDE DEF B
    <2>1. \A k \in 1 .. N : Cardinality(B[ranked[k]]) = k - 1
      BY <1>8
    <2>2. /\ ranked \in Seq(P) /\ Len(ranked) = Cardinality(P)
          /\ \A x \in P : \E k \in 1 .. Len(ranked) : ranked[k] = x
          /\ \A j, k \in 1 .. Len(ranked) : j < k => ranked[j] \in B[ranked[k]]
      <3> HIDE DEF N
      <3>1. IsFiniteSet(P) /\ N = Cardinality(P)
        BY <1>1 DEF N
      <3> QED
        BY ONLY <3>1, <1>6, <1>9, <2>1, SortedAre
    <2> QED
      BY <2>2
  <1>11. ToSet(ranked) = P
    <2>1. DOMAIN ranked = 1 .. N /\ \A k \in 1 .. N : ranked[k] \in P
      BY <1>8, <1>9
    <2> HIDE DEF N
    <2> QED
      BY <1>10, <2>1 DEF ToSet, N
  <1> QED
    BY <1>7, <1>10, <1>11

(* The peers selected are peers, and all of them if there is room.           *)
LEMMA SelectedAre ==
    ASSUME NEW L, NEW E, NEW c \in Nat, AreLinks(L, E, c), NEW a, NEW l, l.related \in Nat
    PROVE  /\ SelectedPeers(L, a, l) \subseteq Peers(E, a)
           /\ l.related >= Cardinality(Peers(E, a)) => SelectedPeers(L, a, l) = Peers(E, a)
  <1> DEFINE P == Peers(E, a)
             ranked == RankedPeers(L, a)
             m == IF l.related < Len(ranked) THEN l.related ELSE Len(ranked)
             first == SubSeq(ranked, 1, m)
  <1>1. ranked \in Seq(P) /\ Len(ranked) = Cardinality(P) /\ ToSet(ranked) = P
        /\ Len(ranked) \in Nat
    BY RankedAre
  <1>2. SelectedPeers(L, a, l) = ToSet(first)
    BY DEF SelectedPeers
  <1>3. m \in Nat /\ m <= Len(ranked)
    BY <1>1
  <1>4. l.related >= Cardinality(P) => m = Len(ranked)
    BY <1>1
  <1> HIDE DEF P, ranked, m
  <1>5. DOMAIN ranked = 1 .. Len(ranked)
    BY <1>1
  <1>6. first = [i \in 1 .. m |-> ranked[i]]
    BY <1>1, <1>3
  <1> HIDE DEF first
  <1>7. DOMAIN first = 1 .. m /\ \A i \in 1 .. m : i \in 1 .. Len(ranked) /\ first[i] = ranked[i]
    BY <1>1, <1>3, <1>6
  <1>8. ToSet(first) \subseteq P
    BY <1>1, <1>5, <1>7 DEF ToSet
  <1>9. ASSUME m = Len(ranked) PROVE ToSet(first) = P
    BY <1>1, <1>5, <1>7, <1>9 DEF ToSet
  <1> QED
    BY <1>2, <1>4, <1>8, <1>9 DEF P

(* The summary of an identity, for the peers that are selected.              *)
SummaryOf(L, a, l, i) ==
    LET users == {m \in L : m.identity = i}
        peers == {m.account : m \in users} \ {a}
    IN  [identity |-> i, count |-> Cardinality(peers),
         returned |-> peers \cap SelectedPeers(L, a, l),
         truncated |-> ~(peers \subseteq SelectedPeers(L, a, l)),
         first |-> EarliestOf({m.first : m \in users}),
         last |-> LatestOf({m.last : m \in users})]

(* What the summary of an identity says is true of the links to it. *)
SummaryHolds(s, L, a, l, i, c) ==
    /\ s.first <= s.last /\ s.last <= c
    /\ s.truncated <=> Cardinality(s.returned) < s.count
    /\ \A b : b \in s.returned <=> b # a /\ b \in SelectedPeers(L, a, l) /\ Joined(L, b, i)

(* A summary counts its peers, names those it can, and says if it leaves some *)
(* out; the identity was in use from its first to its last time, by then.     *)
LEMMA IdentitySummaryIs ==
    ASSUME NEW L, NEW E, NEW c \in Nat, AreLinks(L, E, c), NEW a, NEW l, NEW k \in L,
           NEW s, s = SummaryOf(L, a, l, k.identity)
    PROVE  SummaryHolds(s, L, a, l, k.identity, c)
  <1> DEFINE users == {m \in L : m.identity = k.identity}
             peers == {m.account : m \in users} \ {a}
             selected == SelectedPeers(L, a, l)
             F == {m.first : m \in users}
             T == {m.last : m \in users}
  <1>1. /\ s.count = Cardinality(peers) /\ s.returned = peers \cap selected
        /\ s.truncated <=> ~(peers \subseteq selected)
        /\ s.first = EarliestOf(F) /\ s.last = LatestOf(T)
    BY DEF SummaryOf
  <1>2. k \in users /\ users \subseteq L
    OBVIOUS
  <1>3. s.first <= s.last /\ s.last <= c
    <2>1. /\ \A m \in users : m.first \in Nat /\ m.last \in Nat /\ m.first <= m.last /\ m.last <= c
      BY <1>2 DEF AreLinks
    <2>2. F \in SUBSET Nat /\ F # {} /\ T \in SUBSET Nat /\ T # {} /\ \A t \in T : t <= c
      <3> HIDE DEF users
      <3> QED
        BY <1>2, <2>1
    <2>3. k.first \in F /\ k.last \in T
      BY <1>2
    <2> HIDE DEF F, T, users
    <2>4. EarliestOf(F) \in F /\ EarliestOf(F) <= k.first
      BY <2>2, <2>3, EarliestIs
    <2>5. LatestOf(T) \in T /\ k.last <= LatestOf(T)
      BY <2>2, <2>3, LatestIs
    <2>6. /\ EarliestOf(F) \in Nat /\ LatestOf(T) \in Nat /\ LatestOf(T) <= c
          /\ k.first \in Nat /\ k.last \in Nat /\ k.first <= k.last
      BY <1>2, <2>1, <2>2, <2>4, <2>5
    <2> QED
      BY <1>1, <2>4, <2>5, <2>6
  <1>4. IsFiniteSet(peers)
    <2> DEFINE f == [m \in users |-> m.account]
               G == {f[m] : m \in users}
    <2>1. IsFiniteSet(users)
      BY <1>2, FS_Subset DEF AreLinks
    <2>2. {m.account : m \in users} = G /\ DOMAIN f = users
      OBVIOUS
    <2>3. IsFiniteSet(G)
      <3> HIDE DEF f, users
      <3> QED
        BY ONLY <2>1, <2>2, ImagesFinite
    <2> HIDE DEF G, users
    <2>4. peers \subseteq G
      BY <2>2
    <2> QED
      BY <2>3, <2>4, FS_Subset
  <1>5. s.truncated <=> Cardinality(s.returned) < s.count
    <2> DEFINE R == peers \cap selected
    <2> HIDE DEF peers, selected
    <2>1. /\ IsFiniteSet(R) /\ Cardinality(R) \in Nat /\ Cardinality(peers) \in Nat
          /\ Cardinality(R) <= Cardinality(peers)
          /\ Cardinality(R) = Cardinality(peers) => R = peers
      <3>1. R \subseteq peers
        OBVIOUS
      <3> HIDE DEF R
      <3> QED
        BY <1>4, <3>1, FS_Subset, FS_CardinalityType
    <2>2. peers \subseteq selected <=> R = peers
      OBVIOUS
    <2> HIDE DEF R
    <2>3. s.returned = R
      BY <1>1 DEF R
    <2>4. Cardinality(s.returned) = Cardinality(R) /\ s.count = Cardinality(peers)
      BY <1>1, <2>3
    <2>5. s.truncated <=> R # peers
      BY <1>1, <2>2
    <2> QED
      BY ONLY <2>1, <2>4, <2>5
  <1>6. \A b : b \in s.returned
                <=> b # a /\ b \in selected
                    /\ Joined(L, b, k.identity)
    BY <1>1 DEF Joined
  <1> QED
    BY <1>3, <1>5, <1>6 DEF SummaryHolds

(* The investigator sees the peers that the features count, computed by other  *)
(* code over other structures (service.py, extractors.py).                    *)
THEOREM PeersHold ==
    ASSUME NEW view, NEW c \in Nat, NEW E, E = SnapshotAt(view, c).edges, AreKnown(E, c),
           NEW a, NEW l, l.related \in Nat
    PROVE  PeersAreThoseOfTheFeatures(view, a, c, l)
  <1> DEFINE L == LinksAt(view, c)
             P == Peers(E, a)
             shared == PeerLinks(L, a)
             summaries == SharedIdentities(L, a, l)
             selected == SelectedPeers(L, a, l)
  <1>1. AreLinks(L, E, c)
    <2> HIDE DEF L
    <2>1. L = LinksAt(view, c)
      BY DEF L
    <2> QED
      BY <2>1, LinksAre
  <1> HIDE DEF L
  <1>2. summaries = {SummaryOf(L, a, l, i) : i \in {k.identity : k \in shared}}
    BY DEF SharedIdentities, SummaryOf
  <1>3. /\ {k.account : k \in shared} = P
        /\ \A k : k \in shared <=> k \in L /\ k.account # a
                                   /\ \E m \in L : m.account = a /\ m.identity = k.identity
        /\ IsFiniteSet(P)
    BY ONLY <1>1, PeersAreLinked
  <1> HIDE DEF shared, summaries
  <1>4. ToSet(RankedPeers(L, a)) = P
    BY <1>1, RankedAre
  <1>5. selected \subseteq P /\ (l.related >= Cardinality(P) => selected = P)
    BY <1>1, SelectedAre
  <1> HIDE DEF selected
  <1>6. P # {} <=> summaries # {}
    BY <1>2, <1>3
  <1>7. ASSUME NEW s \in summaries
        PROVE  \E k \in shared : k \in L /\ s = SummaryOf(L, a, l, k.identity)
    BY <1>2, <1>3
  <1>8. ASSUME NEW s \in summaries
        PROVE  /\ s.first <= s.last /\ s.last <= c
               /\ s.truncated <=> Cardinality(s.returned) < s.count
               /\ s.returned \subseteq selected
    <2>1. PICK k \in shared : k \in L /\ s = SummaryOf(L, a, l, k.identity)
      BY <1>7
    <2>2. SummaryHolds(s, L, a, l, k.identity, c)
      BY ONLY <1>1, <2>1, IdentitySummaryIs, c \in Nat
    <2> QED
      BY <2>2 DEF selected, SummaryHolds
  <1>9. ASSUME l.related >= Cardinality(P) PROVE UNION {s.returned : s \in summaries} = P
    <2>1. selected = P
      BY <1>5, <1>9
    <2>2. ASSUME NEW b \in P PROVE \E s \in summaries : b \in s.returned
      <3>1. PICK k \in shared : k.account = b
        BY <1>3
      <3> DEFINE s == SummaryOf(L, a, l, k.identity)
      <3>2. s \in summaries /\ k \in L /\ k.account # a
        BY <1>2, <1>3
      <3>3. SummaryHolds(s, L, a, l, k.identity, c)
        <4> HIDE DEF s
        <4>1. s = SummaryOf(L, a, l, k.identity)
          BY DEF s
        <4> QED
          BY ONLY <1>1, <3>2, <4>1, IdentitySummaryIs, c \in Nat
      <3> HIDE DEF s
      <3>4. b \in s.returned
        BY <2>1, <3>1, <3>2, <3>3 DEF selected, Joined, SummaryHolds
      <3> QED
        BY <3>2, <3>4
    <2> QED
      BY <1>8, <2>1, <2>2
  <1>10. PeersAreThoseOfTheFeatures(view, a, c, l)
           <=> /\ ToSet(RankedPeers(L, a)) = P
               /\ selected \subseteq P
               /\ P # {} <=> summaries # {}
               /\ \A s \in summaries :
                    /\ s.first <= s.last /\ s.last <= c
                    /\ s.truncated <=> Cardinality(s.returned) < s.count
               /\ l.related >= Cardinality(P) => UNION {s.returned : s \in summaries} = P
    BY DEF PeersAreThoseOfTheFeatures, L, Peers, summaries, selected
  <1> QED
    BY <1>4, <1>5, <1>6, <1>8, <1>9, <1>10

-----------------------------------------------------------------------------
(* The neighbourhood. *)

(* All of them. *)
AllNodes == AccountNodes \cup IdentityNodes

(* The links of a node.                                                      *)
At(L, node) == {k \in L : node \in {k.account, k.identity}}

(* The links of a node in order are its links.                               *)
LEMMA LinksOfAre ==
    ASSUME NEW L, NEW E, NEW c, AreLinks(L, E, c), NEW node,
           NEW M, M = At(L, node), NEW mine, mine = LinksOf(L, node)
    PROVE  mine \in Seq(M) /\ ToSet(mine) = M
  <1> DEFINE N == Cardinality(M)
             R(x) == LabelRank[x.identity[1]]
             I(x) == x.identity[2]
             A(x) == x.account[2]
             Prior(x) == {y \in M : Before(y, x)}
             B == [x \in M |-> Prior(x)]
  <1>1. IsFiniteSet(M) /\ M \subseteq L
    BY FS_Subset DEF AreLinks, At
  <1>2. mine = [k \in 1 .. N |-> CHOOSE x \in M : Cardinality(Prior(x)) = k - 1]
    BY DEF LinksOf, SortedBy, At
  <1>3. ASSUME NEW x \in M
        PROVE  /\ R(x) \in Nat /\ I(x) \in Nat /\ A(x) \in Nat
               /\ x.identity = <<x.identity[1], I(x)>> /\ x.account = <<"Account", A(x)>>
               /\ x.identity[1] \in {"Address", "Device", "IPAddress", "PaymentIdentity"}
    <2>1. x.account \in {"Account"} \X Nat
          /\ x.identity \in {"Address", "Device", "IPAddress", "PaymentIdentity"} \X Nat
      BY <1>1 DEF AreLinks, AccountNodes, IdentityNodes
    <2> QED
      BY <2>1 DEF LabelRank
  <1>4. ASSUME NEW x \in M, NEW y \in M, R(x) = R(y), I(x) = I(y), A(x) = A(y) PROVE x = y
    <2>1. x.identity[1] = y.identity[1]
      BY <1>3, <1>4 DEF LabelRank
    <2>2. x.identity = y.identity /\ x.account = y.account
      BY <1>3, <1>4, <2>1
    <2> QED
      BY <1>1, <2>2 DEF AreLinks
  <1>5. \A x, y \in M : Before(x, y)
          <=> \/ R(x) < R(y)
              \/ R(x) = R(y) /\ (I(x) < I(y) \/ (I(x) = I(y) /\ A(x) < A(y)))
    BY DEF Before
  <1> HIDE DEF R, I, A
  <1>6. /\ B \in [M -> SUBSET M]
        /\ \A x \in M : x \notin B[x]
        /\ \A x, y \in M : x = y \/ x \in B[y] \/ y \in B[x]
        /\ \A x, y, z \in M : x \in B[y] /\ y \in B[z] => x \in B[z]
    <2>1. B \in [M -> SUBSET M]
      OBVIOUS
    <2>2. \A x \in M : x \notin B[x]
      BY <1>3, <1>5
    <2>3. \A x, y \in M : x = y \/ x \in B[y] \/ y \in B[x]
      BY <1>3, <1>4, <1>5
    <2>4. \A x, y, z \in M : x \in B[y] /\ y \in B[z] => x \in B[z]
      BY <1>3, <1>5
    <2> QED
      BY <2>1, <2>2, <2>3, <2>4
  <1>7. N \in Nat /\ \A k \in 1 .. N : \E x \in M : Cardinality(B[x]) = k - 1
    <2> HIDE DEF B, N
    <2> QED
      BY ONLY <1>1, <1>6, RanksAre DEF N
  <1>8. ASSUME NEW k \in 1 .. N PROVE mine[k] \in M /\ Cardinality(B[mine[k]]) = k - 1
    <2> DEFINE Q(x) == Cardinality(Prior(x)) = k - 1
    <2>1. mine[k] = CHOOSE x \in M : Q(x)
      BY <1>2
    <2>2. \E x \in M : Q(x)
      BY <1>7
    <2>3. mine[k] \in M /\ Q(mine[k])
      <3> HIDE DEF Q
      <3> QED
        BY <2>1, <2>2
    <2> QED
      BY <2>3
  <1>9. mine \in [1 .. N -> M]
    <2> HIDE DEF Prior
    <2>1. DOMAIN mine = 1 .. N
      BY <1>2
    <2> QED
      BY <1>2, <1>8
  <1>10. /\ mine \in Seq(M) /\ Len(mine) = Cardinality(M)
         /\ \A x \in M : \E k \in 1 .. Len(mine) : mine[k] = x
    <2> HIDE DEF B
    <2>1. \A k \in 1 .. N : Cardinality(B[mine[k]]) = k - 1
      BY <1>8
    <2>2. /\ mine \in Seq(M) /\ Len(mine) = Cardinality(M)
          /\ \A x \in M : \E k \in 1 .. Len(mine) : mine[k] = x
          /\ \A j, k \in 1 .. Len(mine) : j < k => mine[j] \in B[mine[k]]
      <3> HIDE DEF N
      <3>1. IsFiniteSet(M) /\ N = Cardinality(M)
        BY <1>1 DEF N
      <3> QED
        BY ONLY <3>1, <1>6, <1>9, <2>1, SortedAre
    <2> QED
      BY <2>2
  <1>11. ToSet(mine) = M
    <2>1. DOMAIN mine = 1 .. N /\ \A k \in 1 .. N : mine[k] \in M
      BY <1>8, <1>9
    <2> HIDE DEF N
    <2> QED
      BY <1>10, <2>1 DEF ToSet, N
  <1> QED
    BY <1>10, <1>11

(* Distances from the root over the edges found, and what is within one.     *)
AreRings(r, F, a, H) == r[0] = {a} /\ \A n \in 1 .. H : r[n] = AlongEdges(F, r[n - 1])

(* The node is within the distance. *)
Within(F, a, H, v, d) == \A r : AreRings(r, F, a, H) => v \in r[d]

(* Over more edges, or further along them, more is reached.                  *)
LEMMA AlongGrows ==
    ASSUME NEW F, NEW G, F \subseteq G, NEW s, NEW t, s \subseteq t
    PROVE  AlongEdges(F, s) \subseteq AlongEdges(G, t) /\ s \subseteq AlongEdges(F, s)
  BY DEF AlongEdges

(* From one end of an edge the other is reached. *)
LEMMA AlongIs ==
    ASSUME NEW F, NEW k \in F, NEW s, NEW v \in s, v \in {k.account, k.identity},
           NEW w \in {k.account, k.identity}
    PROVE  w \in AlongEdges(F, s)
  BY DEF AlongEdges

(* The distances that a recursion computes are such distances.               *)
LEMMA RingsEnd ==
    ASSUME NEW F, NEW a, NEW H \in Nat
    PROVE  LET reached[n \in 0 .. H] ==
                   IF n = 0 THEN {a} ELSE AlongEdges(F, reached[n - 1])
           IN  AreRings(reached, F, a, H)
  <1> DEFINE Is(r) == r = [n \in 0 .. H |-> IF n = 0 THEN {a} ELSE AlongEdges(F, r[n - 1])]
             U == {a} \cup UNION {{k.account, k.identity} : k \in F}
             S == SUBSET U
             G == [n \in 1 .. H |-> [s \in S |-> AlongEdges(F, s)]]
  <1>1. \A s \in S : AlongEdges(F, s) \in S
    BY DEF AlongEdges
  <1>2. PICK f \in [0 .. H -> S] : Follows(f, H, {a}, G)
    <2>1. G \in [1 .. H -> [S -> S]] /\ {a} \in S
      BY <1>1
    <2> HIDE DEF S, G
    <2> QED
      BY <2>1, Recursion
  <1>3. Is(f)
    <2>1. ASSUME NEW n \in 0 .. H
          PROVE  f[n] = IF n = 0 THEN {a} ELSE AlongEdges(F, f[n - 1])
      <3>1. CASE n = 0
        BY <1>2, <3>1 DEF Follows
      <3>2. CASE n # 0
        <4>1. n \in 1 .. H /\ n - 1 \in 0 .. H
          BY <3>2
        <4>2. f[n - 1] \in S
          BY <1>2, <4>1
        <4>3. f[n] = G[n][f[n - 1]]
          BY <1>2, <4>1 DEF Follows
        <4> HIDE DEF S
        <4> QED
          BY <3>2, <4>1, <4>2, <4>3
      <3> QED
        BY <3>1, <3>2
    <2> QED
      BY <1>2, <2>1
  <1> DEFINE r == CHOOSE r : Is(r)
  <1>4. Is(r)
    <2> HIDE DEF Is
    <2> QED
      BY <1>3
  <1>5. AreRings(r, F, a, H)
    <2>1. r[0] = {a}
      <3> HIDE DEF r
      <3>1. 0 \in 0 .. H
        OBVIOUS
      <3> QED
        BY <1>4, <3>1
    <2>2. ASSUME NEW n \in 1 .. H PROVE r[n] = AlongEdges(F, r[n - 1])
      <3> HIDE DEF r
      <3>1. n \in 0 .. H /\ n # 0
        OBVIOUS
      <3> QED
        BY <1>4, <3>1
    <2> HIDE DEF r
    <2> QED
      BY <2>1, <2>2 DEF AreRings
  <1> QED
    BY <1>5

(* There are such distances. *)
LEMMA ReachExists ==
    ASSUME NEW F, NEW a, NEW H \in Nat
    PROVE  \E r : AreRings(r, F, a, H)
  BY RingsEnd

(* More edges reach no less. *)
LEMMA RingsGrow ==
    ASSUME NEW F, NEW G, F \subseteq G, NEW a, NEW H \in Nat, NEW r, AreRings(r, F, a, H),
           NEW q, AreRings(q, G, a, H), NEW d \in 0 .. H
    PROVE  r[d] \subseteq q[d]
  <1> DEFINE T == {n \in 0 .. H : r[n] \subseteq q[n]}
  <1>1. 0 \in T
    BY DEF AreRings
  <1>2. ASSUME NEW n \in 1 .. H, n - 1 \in T PROVE n \in T
    <2>1. r[n] = AlongEdges(F, r[n - 1]) /\ q[n] = AlongEdges(G, q[n - 1])
          /\ r[n - 1] \subseteq q[n - 1] /\ n \in 0 .. H
      BY <1>2 DEF AreRings
    <2>2. r[n] \subseteq q[n]
      BY <2>1, AlongGrows
    <2> QED
      BY <2>1, <2>2
  <1>3. 0 .. H \subseteq T
    <2> HIDE DEF T
    <2> QED
      BY <1>1, <1>2, Induction
  <1> QED
    BY <1>3

(* A longer distance reaches no less. *)
LEMMA RingsAreNested ==
    ASSUME NEW F, NEW a, NEW H \in Nat, NEW r, AreRings(r, F, a, H),
           NEW d \in 0 .. H, NEW e \in d .. H
    PROVE  r[d] \subseteq r[e]
  <1> DEFINE T == {n \in 0 .. H : n >= d => r[d] \subseteq r[n]}
  <1>1. 0 \in T
    OBVIOUS
  <1>2. ASSUME NEW n \in 1 .. H, n - 1 \in T PROVE n \in T
    <2>1. r[n] = AlongEdges(F, r[n - 1]) /\ n \in 0 .. H
      BY DEF AreRings
    <2>2. r[n - 1] \subseteq r[n]
      BY <2>1, AlongGrows
    <2>3. n >= d => n - 1 >= d \/ n = d
      OBVIOUS
    <2> QED
      BY <1>2, <2>1, <2>2, <2>3
  <1>3. 0 .. H \subseteq T
    <2> HIDE DEF T
    <2> QED
      BY <1>1, <1>2, Induction
  <1> QED
    BY <1>3

(* What is within a distance stays so over more edges. *)
LEMMA WithinGrows ==
    ASSUME NEW F, NEW G, F \subseteq G, NEW a, NEW H \in Nat, NEW d \in 0 .. H,
           NEW v, Within(F, a, H, v, d)
    PROVE  Within(G, a, H, v, d)
  <1> SUFFICES ASSUME NEW q, AreRings(q, G, a, H) PROVE v \in q[d]
    BY DEF Within
  <1>1. PICK r : AreRings(r, F, a, H)
    BY ReachExists
  <1> QED
    BY <1>1, RingsGrow DEF Within

(* Within a distance is within a longer one. *)
LEMMA WithinLonger ==
    ASSUME NEW F, NEW a, NEW H \in Nat, NEW d \in 0 .. H, NEW e \in d .. H,
           NEW v, Within(F, a, H, v, d)
    PROVE  Within(F, a, H, v, e)
  BY RingsAreNested DEF Within

(* The neighbours of a node within a distance are within one more. *)
LEMMA WithinNext ==
    ASSUME NEW F, NEW a, NEW H \in Nat, NEW d \in Nat, d < H, NEW k \in F,
           NEW v \in {k.account, k.identity}, Within(F, a, H, v, d),
           NEW w \in {k.account, k.identity}
    PROVE  Within(F, a, H, w, d + 1)
  <1> SUFFICES ASSUME NEW r, AreRings(r, F, a, H) PROVE w \in r[d + 1]
    BY DEF Within
  <1>1. d + 1 \in 1 .. H /\ (d + 1) - 1 = d
    OBVIOUS
  <1>2. r[d + 1] = AlongEdges(F, r[d])
    BY <1>1 DEF AreRings
  <1>3. v \in r[d]
    BY DEF Within
  <1> QED
    BY <1>2, <1>3, AlongIs

(* The states of a search over links.                                        *)
Searches(L) ==
    [nodes : SUBSET AllNodes, edges : SUBSET L, pending : Seq(AllNodes \X Nat),
     truncated : BOOLEAN]

(* A link is left out. *)
Omitted(s, t) ==
    t.nodes = s.nodes /\ t.edges = s.edges /\ t.pending = s.pending /\ t.truncated

(* The link is followed, and its other end queued if it is new. *)
Followed(s, t, k, other, d, l) ==
    /\ t.edges = s.edges \cup {k} /\ t.nodes = s.nodes \cup {other}
    /\ t.truncated = s.truncated
    /\ k \notin s.edges => Cardinality(s.edges) < l.edges
    /\ \/ other \in s.nodes /\ t.pending = s.pending
       \/ /\ other \notin s.nodes /\ t.pending = Append(s.pending, <<other, d + 1>>)
          /\ Cardinality(s.nodes) < l.nodes

(* The limits are kept.                                                      *)
Bounded(s, l) ==
    /\ IsFiniteSet(s.nodes) /\ Cardinality(s.nodes) <= l.nodes
    /\ IsFiniteSet(s.edges) /\ Cardinality(s.edges) <= l.edges

(* The nodes found are those of the root's component.                        *)
Contained(s, L, C) ==
    \A v \in s.nodes : v \in C \/ \E m \in L : m.account \in C /\ m.identity = v

(* The edges found join nodes found, which are within the hops of the root,  *)
(* those that are queued within their distance.                              *)
Reached(s, a, H) ==
    /\ a \in s.nodes
    /\ \A k \in s.edges : {k.account, k.identity} \subseteq s.nodes
    /\ \A v \in s.nodes : Within(s.edges, a, H, v, H)
    /\ \A i \in 1 .. Len(s.pending) :
         /\ s.pending[i][1] \in s.nodes /\ s.pending[i][2] \in 0 .. H
         /\ Within(s.edges, a, H, s.pending[i][1], s.pending[i][2])

(* A search that keeps to its limits, its component and its distances. *)
IsSound(s, L, C, a, l) == Bounded(s, l) /\ Contained(s, L, C) /\ Reached(s, a, l.hops)

(* The node waits to be expanded. *)
Queued(s, v) == \E i \in 1 .. Len(s.pending) : s.pending[i][1] = v

(* Where nothing was left out, the links of every node have been followed,   *)
(* but for the nodes that are queued and the given ones.                     *)
IsExpanded(s, L, but) ==
    ~s.truncated => \A v \in s.nodes \ but : Queued(s, v) \/ At(L, v) \subseteq s.edges

(* The ends of a link.                                                       *)
LEMMA OtherEndIs ==
    ASSUME NEW L, NEW E, NEW c, AreLinks(L, E, c), NEW k \in L,
           NEW v \in {k.account, k.identity}
    PROVE  /\ {v, OtherEnd(k, v)} = {k.account, k.identity}
           /\ v \in AllNodes /\ OtherEnd(k, v) \in AllNodes
  <1>1. k.account \in AccountNodes /\ k.identity \in IdentityNodes
    BY DEF AreLinks
  <1>2. k.account \in AllNodes /\ k.identity \in AllNodes
    BY <1>1 DEF AllNodes
  <1> QED
    BY <1>2 DEF OtherEnd

(* One link.                                                                 *)
LEMMA FollowIs ==
    ASSUME NEW L, NEW E, NEW c, AreLinks(L, E, c), NEW k \in L,
           NEW v \in {k.account, k.identity}, NEW d \in Nat, NEW l, NEW s \in Searches(L),
           l.nodes \in Nat, l.edges \in Nat, Bounded(s, l),
           NEW t, t = Follow(s, k, v, d, l)
    PROVE  t \in Searches(L) /\ (Omitted(s, t) \/ Followed(s, t, k, OtherEnd(k, v), d, l))
  <1> DEFINE other == OtherEnd(k, v)
  <1>1. other \in AllNodes
    BY OtherEndIs
  <1>2. Cardinality(s.nodes) \in Nat /\ Cardinality(s.edges) \in Nat
    BY FS_CardinalityType DEF Bounded
  <1> HIDE DEF other
  <1>3. CASE \/ other \notin s.nodes /\ Cardinality(s.nodes) >= l.nodes
             \/ k \notin s.edges /\ Cardinality(s.edges) >= l.edges
    <2>1. t = [s EXCEPT !.truncated = TRUE]
      BY <1>3 DEF Follow, other
    <2> QED
      BY <2>1 DEF Searches, Omitted
  <1>4. CASE ~(\/ other \notin s.nodes /\ Cardinality(s.nodes) >= l.nodes
               \/ k \notin s.edges /\ Cardinality(s.edges) >= l.edges)
    <2> DEFINE P == IF other \notin s.nodes THEN Append(s.pending, <<other, d + 1>>) ELSE s.pending
    <2>1. t = [s EXCEPT !.edges = s.edges \cup {k}, !.nodes = s.nodes \cup {other}, !.pending = P]
      BY <1>4 DEF Follow, other
    <2>2. P \in Seq(AllNodes \X Nat)
      BY <1>1 DEF Searches
    <2> HIDE DEF P
    <2>3. t \in Searches(L) /\ t.edges = s.edges \cup {k} /\ t.nodes = s.nodes \cup {other}
          /\ t.truncated = s.truncated /\ t.pending = P
      <3>1. /\ s = [nodes |-> s.nodes, edges |-> s.edges, pending |-> s.pending,
                    truncated |-> s.truncated]
            /\ s.nodes \subseteq AllNodes /\ s.edges \subseteq L /\ s.truncated \in BOOLEAN
        BY ONLY s \in Searches(L) DEF Searches
      <3>2. t = [nodes |-> s.nodes \cup {other}, edges |-> s.edges \cup {k}, pending |-> P,
                 truncated |-> s.truncated]
        BY ONLY <2>1, <3>1
      <3>3. s.nodes \cup {other} \subseteq AllNodes /\ s.edges \cup {k} \subseteq L
        BY ONLY <1>1, <3>1, k \in L
      <3> QED
        BY ONLY <2>2, <3>1, <3>2, <3>3 DEF Searches
    <2>4. other \notin s.nodes => Cardinality(s.nodes) < l.nodes
      BY <1>2, <1>4
    <2>5. k \notin s.edges => Cardinality(s.edges) < l.edges
      BY <1>2, <1>4
    <2>6. Followed(s, t, k, other, d, l)
      BY <2>3, <2>4, <2>5 DEF Followed, P
    <2> QED
      BY <2>3, <2>6 DEF other
  <1> QED
    BY <1>3, <1>4

(* A link followed keeps the search sound.                                   *)
LEMMA SoundStays ==
    ASSUME NEW L, NEW E, NEW c, AreLinks(L, E, c), NEW C, Closed(E, C), C \subseteq AccountNodes,
           NEW a, NEW l, l.hops \in Nat, l.nodes \in Nat, l.edges \in Nat,
           NEW k \in L, NEW v \in {k.account, k.identity}, NEW d \in Nat, d < l.hops,
           NEW s \in Searches(L), IsSound(s, L, C, a, l), v \in s.nodes,
           Within(s.edges, a, l.hops, v, d),
           NEW t \in Searches(L), Followed(s, t, k, OtherEnd(k, v), d, l)
    PROVE  IsSound(t, L, C, a, l)
  <1> DEFINE other == OtherEnd(k, v)
             H == l.hops
  <1>1. {v, other} = {k.account, k.identity}
    BY OtherEndIs
  <1>2. Bounded(t, l)
    <2>1. IsFiniteSet(s.nodes) /\ IsFiniteSet(s.edges)
          /\ Cardinality(s.nodes) \in Nat /\ Cardinality(s.edges) \in Nat
          /\ Cardinality(s.nodes) <= l.nodes /\ Cardinality(s.edges) <= l.edges
      BY FS_CardinalityType DEF IsSound, Bounded
    <2>2. IsFiniteSet(t.nodes) /\ Cardinality(t.nodes) <= l.nodes
      <3>1. CASE other \in s.nodes
        <4>1. t.nodes = s.nodes
          BY <3>1 DEF Followed
        <4> QED
          BY <2>1, <4>1
      <3>2. CASE other \notin s.nodes
        <4>1. Cardinality(s.nodes \cup {other}) = Cardinality(s.nodes) + 1
              /\ IsFiniteSet(s.nodes \cup {other})
          BY <2>1, <3>2, FS_AddElement
        <4>2. t.nodes = s.nodes \cup {other} /\ Cardinality(s.nodes) < l.nodes
          BY <3>2 DEF Followed
        <4> QED
          BY <2>1, <4>1, <4>2
      <3> QED
        BY <3>1, <3>2
    <2>3. IsFiniteSet(t.edges) /\ Cardinality(t.edges) <= l.edges
      <3>1. CASE k \in s.edges
        <4>1. t.edges = s.edges
          BY <3>1 DEF Followed
        <4> QED
          BY <2>1, <4>1
      <3>2. CASE k \notin s.edges
        <4>1. Cardinality(s.edges \cup {k}) = Cardinality(s.edges) + 1
              /\ IsFiniteSet(s.edges \cup {k})
          BY <2>1, <3>2, FS_AddElement
        <4>2. t.edges = s.edges \cup {k} /\ Cardinality(s.edges) < l.edges
          BY <3>2 DEF Followed
        <4> QED
          BY <2>1, <4>1, <4>2
      <3> QED
        BY <3>1, <3>2
    <2> QED
      BY <2>2, <2>3 DEF Bounded
  <1>3. Contained(t, L, C)
    <2>1. k.account \in C
      <3>1. k.account \in AccountNodes /\ k.identity \in IdentityNodes
            /\ AccountNodes \cap IdentityNodes = {}
        BY DEF AreLinks, AccountNodes, IdentityNodes
      <3>2. v \in C \/ \E m \in L : m.account \in C /\ m.identity = v
        BY DEF IsSound, Contained
      <3>3. CASE v = k.account
        <4>1. \A m \in L : m.identity # v
          BY <3>1, <3>3 DEF AreLinks
        <4> QED
          BY <3>2, <3>3, <4>1
      <3>4. CASE v = k.identity
        <4>1. PICK m \in L : m.account \in C /\ m.identity = v
          BY <3>1, <3>2, <3>4
        <4>2. k.account # m.account => k.account \in Peers(E, m.account)
          BY <3>4, <4>1 DEF AreLinks
        <4>3. Peers(E, m.account) \subseteq C
          BY <4>1 DEF Closed, Peers
        <4> QED
          BY <4>1, <4>2, <4>3
      <3> QED
        BY <3>3, <3>4
    <2>2. t.nodes = s.nodes \cup {other} /\ other \in {k.account, k.identity}
      BY <1>1 DEF Followed
    <2> QED
      BY <2>1, <2>2 DEF Contained, IsSound
  <1>4. Reached(t, a, H)
    <2>1. /\ a \in s.nodes
          /\ \A m \in s.edges : {m.account, m.identity} \subseteq s.nodes
          /\ \A w \in s.nodes : Within(s.edges, a, H, w, H)
          /\ \A i \in 1 .. Len(s.pending) :
               /\ s.pending[i][1] \in s.nodes /\ s.pending[i][2] \in 0 .. H
               /\ Within(s.edges, a, H, s.pending[i][1], s.pending[i][2])
      BY DEF IsSound, Reached
    <2>2. t.edges = s.edges \cup {k} /\ t.nodes = s.nodes \cup {other}
      BY DEF Followed
    <2>3. \A m \in t.edges : {m.account, m.identity} \subseteq t.nodes
      BY <1>1, <2>1, <2>2
    <2>4. ASSUME NEW w, NEW e \in 0 .. H, Within(s.edges, a, H, w, e)
          PROVE  Within(t.edges, a, H, w, e)
      <3>1. s.edges \subseteq t.edges /\ H \in Nat
        BY <2>2
      <3> HIDE DEF H
      <3> QED
        BY ONLY <2>4, <3>1, e \in 0 .. H, WithinGrows
    <2>5. Within(t.edges, a, H, other, d + 1)
      <3>1. Within(t.edges, a, H, v, d)
        BY <2>4
      <3>2. k \in t.edges /\ other \in {k.account, k.identity} /\ H \in Nat /\ d < H /\ d \in Nat
            /\ v \in {k.account, k.identity}
        BY <1>1, <2>2
      <3> HIDE DEF H, other
      <3> QED
        BY ONLY <3>1, <3>2, WithinNext
    <2>6. Within(t.edges, a, H, other, H)
      <3> DEFINE e == d + 1
      <3>1. e \in 0 .. H /\ H \in e .. H /\ H \in Nat /\ Within(t.edges, a, H, other, e)
        BY <2>5
      <3> HIDE DEF H, other, e
      <3> QED
        BY ONLY <3>1, WithinLonger
    <2>7. \A w \in t.nodes : Within(t.edges, a, H, w, H)
      <3>1. H \in 0 .. H
        OBVIOUS
      <3> QED
        BY <2>1, <2>2, <2>4, <2>6, <3>1
    <2>8. \A i \in 1 .. Len(t.pending) :
             /\ t.pending[i][1] \in t.nodes /\ t.pending[i][2] \in 0 .. H
             /\ Within(t.edges, a, H, t.pending[i][1], t.pending[i][2])
      <3>1. CASE t.pending = s.pending
        BY <2>1, <2>2, <2>4, <3>1
      <3>2. CASE other \notin s.nodes /\ t.pending = Append(s.pending, <<other, d + 1>>)
        <4>1. s.pending \in Seq(AllNodes \X Nat)
          BY DEF Searches
        <4>2. /\ Len(t.pending) = Len(s.pending) + 1 /\ Len(s.pending) \in Nat
              /\ t.pending[Len(s.pending) + 1] = <<other, d + 1>>
              /\ \A i \in 1 .. Len(s.pending) : t.pending[i] = s.pending[i]
          <5>1. other \in AllNodes
            BY OtherEndIs
          <5>2. <<other, d + 1>> \in AllNodes \X Nat
            BY <5>1
          <5> HIDE DEF other
          <5> QED
            BY <3>2, <4>1, <5>2
        <4> SUFFICES ASSUME NEW i \in 1 .. Len(t.pending)
                     PROVE  /\ t.pending[i][1] \in t.nodes /\ t.pending[i][2] \in 0 .. H
                            /\ Within(t.edges, a, H, t.pending[i][1], t.pending[i][2])
          OBVIOUS
        <4>3. CASE i \in 1 .. Len(s.pending)
          BY <2>1, <2>2, <2>4, <4>2, <4>3
        <4>4. CASE i \notin 1 .. Len(s.pending)
          <5>1. t.pending[i] = <<other, d + 1>> /\ d + 1 \in 0 .. H
            BY <4>2, <4>4
          <5> QED
            BY <2>2, <2>5, <5>1
        <4> QED
          BY <4>3, <4>4
      <3> QED
        BY <3>1, <3>2 DEF Followed
    <2> QED
      BY <2>1, <2>2, <2>3, <2>7, <2>8 DEF Reached
  <1> QED
    BY <1>2, <1>3, <1>4 DEF IsSound

(* Following a link leads to a state of the search. *)
LEMMA FollowType ==
    ASSUME NEW L, NEW E, NEW c, AreLinks(L, E, c), NEW k \in L,
           NEW v \in {k.account, k.identity}, NEW d \in Nat, NEW l, NEW s \in Searches(L)
    PROVE  Follow(s, k, v, d, l) \in Searches(L)
  <1> DEFINE other == OtherEnd(k, v)
             P == IF other \notin s.nodes THEN Append(s.pending, <<other, d + 1>>) ELSE s.pending
  <1>1. other \in AllNodes
    BY OtherEndIs
  <1> HIDE DEF other
  <1>2. P \in Seq(AllNodes \X Nat)
    BY <1>1 DEF Searches
  <1>3. \/ Follow(s, k, v, d, l) = [s EXCEPT !.truncated = TRUE]
        \/ Follow(s, k, v, d, l)
             = [s EXCEPT !.edges = s.edges \cup {k}, !.nodes = s.nodes \cup {other}, !.pending = P]
    BY DEF Follow, other
  <1> HIDE DEF P
  <1>4. [s EXCEPT !.truncated = TRUE] \in Searches(L)
    BY DEF Searches
  <1>5. [s EXCEPT !.edges = s.edges \cup {k}, !.nodes = s.nodes \cup {other}, !.pending = P]
          \in Searches(L)
    BY <1>1, <1>2 DEF Searches
  <1> QED
    BY <1>3, <1>4, <1>5

(* The links of a node are followed one after another.                       *)
LEMMA FollowAllExists ==
    ASSUME NEW L, NEW E, NEW c, AreLinks(L, E, c), NEW v, NEW mine \in Seq(At(L, v)),
           NEW d \in Nat, NEW l, NEW s \in Searches(L)
    PROVE  \E r \in [0 .. Len(mine) -> Searches(L)] :
              /\ r[0] = s
              /\ \A n \in 1 .. Len(mine) : r[n] = Follow(r[n - 1], mine[n], v, d, l)
              /\ FollowAll(s, mine, v, d, l) = r[Len(mine)]
  <1> DEFINE N == Len(mine)
             Q == Searches(L)
             G == [n \in 1 .. N |-> [x \in Q |-> Follow(x, mine[n], v, d, l)]]
             Is(r) == r = [n \in 0 .. N |->
                             IF n = 0 THEN s ELSE Follow(r[n - 1], mine[n], v, d, l)]
  <1>1. N \in Nat /\ \A n \in 1 .. N : mine[n] \in L /\ v \in {mine[n].account, mine[n].identity}
    BY DEF At
  <1>2. PICK f \in [0 .. N -> Q] : Follows(f, N, s, G)
    <2>1. ASSUME NEW n \in 1 .. N, NEW x \in Q PROVE Follow(x, mine[n], v, d, l) \in Q
      BY <1>1, FollowType
    <2>2. G \in [1 .. N -> [Q -> Q]] /\ s \in Q
      BY <2>1
    <2> HIDE DEF N, Q, G
    <2> QED
      BY <1>1, <2>2, Recursion
  <1>3. Is(f)
    <2>1. ASSUME NEW n \in 0 .. N
          PROVE  f[n] = IF n = 0 THEN s ELSE Follow(f[n - 1], mine[n], v, d, l)
      <3>1. CASE n = 0
        BY <1>2, <3>1 DEF Follows
      <3>2. CASE n # 0
        <4>1. n \in 1 .. N /\ n - 1 \in 0 .. N
          BY <1>1, <3>2
        <4>2. f[n - 1] \in Q
          BY <1>2, <4>1
        <4>3. f[n] = G[n][f[n - 1]]
          BY <1>2, <4>1 DEF Follows
        <4> HIDE DEF Q
        <4> QED
          BY <3>2, <4>1, <4>2, <4>3
      <3> QED
        BY <3>1, <3>2
    <2> QED
      BY <1>2, <2>1
  <1> DEFINE r == CHOOSE r : Is(r)
  <1>4. Is(r)
    <2> HIDE DEF Is
    <2> QED
      BY <1>3
  <1>5. FollowAll(s, mine, v, d, l) = r[N]
    BY DEF FollowAll
  <1>6. r[0] = s /\ \A n \in 1 .. N : r[n] = Follow(r[n - 1], mine[n], v, d, l)
    <2>1. r[0] = s
      <3> HIDE DEF r
      <3>1. 0 \in 0 .. N
        BY <1>1
      <3> QED
        BY <1>4, <3>1
    <2>2. ASSUME NEW n \in 1 .. N PROVE r[n] = Follow(r[n - 1], mine[n], v, d, l)
      <3> HIDE DEF r
      <3>1. n \in 0 .. N /\ n # 0
        BY <1>1
      <3> QED
        BY <1>4, <3>1
    <2> QED
      BY <2>1, <2>2
  <1>7. r \in [0 .. N -> Q]
    <2> DEFINE T == {n \in 0 .. N : r[n] \in Q}
    <2>1. 0 \in T
      BY <1>1, <1>6
    <2>2. ASSUME NEW n \in 1 .. N, n - 1 \in T PROVE n \in T
      <3>1. r[n] = Follow(r[n - 1], mine[n], v, d, l) /\ r[n - 1] \in Q /\ n \in 0 .. N
        <4> HIDE DEF r
        <4> QED
          BY <1>6, <2>2
      <3>2. r[n] \in Q
        <4> HIDE DEF r
        <4>1. Follow(r[n - 1], mine[n], v, d, l) \in Q
          BY <1>1, <3>1, FollowType
        <4> QED
          BY <3>1, <4>1
      <3> QED
        BY <3>1, <3>2
    <2>3. 0 .. N \subseteq T
      <3> HIDE DEF T, N
      <3> QED
        BY <1>1, <2>1, <2>2, Induction
    <2>4. DOMAIN r = 0 .. N /\ r = [n \in 0 .. N |-> r[n]]
      <3> HIDE DEF r
      <3> QED
        BY <1>4
    <2> HIDE DEF r, Q, N
    <2> QED
      BY <2>3, <2>4
  <1> HIDE DEF r
  <1> QED
    BY <1>5, <1>6, <1>7

(* What a link does to the queue.                                            *)
LEMMA QueueIs ==
    ASSUME NEW L, NEW s \in Searches(L), NEW t \in Searches(L), IsFiniteSet(s.nodes),
           NEW k, NEW other, NEW d, NEW l, Followed(s, t, k, other, d, l), NEW but, IsExpanded(s, L, but)
    PROVE  /\ IsExpanded(t, L, but)
           /\ Cardinality(t.nodes) - Len(t.pending) = Cardinality(s.nodes) - Len(s.pending)
  <1>1. t.edges = s.edges \cup {k} /\ t.nodes = s.nodes \cup {other} /\ t.truncated = s.truncated
    BY DEF Followed
  <1>2. CASE other \in s.nodes /\ t.pending = s.pending
    <2>1. t.nodes = s.nodes
      BY <1>1, <1>2
    <2> QED
      BY <1>1, <1>2, <2>1 DEF IsExpanded, Queued
  <1>3. CASE other \notin s.nodes /\ t.pending = Append(s.pending, <<other, d + 1>>)
    <2> DEFINE q == <<other, d + 1>>
               n == Len(s.pending)
    <2>1. /\ Len(t.pending) = n + 1 /\ n \in Nat /\ t.pending[n + 1] = q
          /\ \A i \in 1 .. n : t.pending[i] = s.pending[i]
      <3>1. s.pending \in Seq(AllNodes \X Nat) /\ t.pending = Append(s.pending, q)
        BY <1>3 DEF Searches
      <3> HIDE DEF q
      <3> QED
        BY <3>1
    <2>2. \A w : Queued(s, w) => Queued(t, w)
      BY <2>1 DEF Queued
    <2>3. Queued(t, other)
      BY <2>1 DEF Queued
    <2>4. IsExpanded(t, L, but)
      BY <1>1, <2>2, <2>3 DEF IsExpanded
    <2>5. Cardinality(t.nodes) = Cardinality(s.nodes) + 1 /\ Cardinality(s.nodes) \in Nat
      BY <1>1, <1>3, FS_AddElement, FS_CardinalityType
    <2> QED
      BY <2>1, <2>4, <2>5
  <1> QED
    BY <1>2, <1>3 DEF Followed

(* What a search is given.                                                   *)
Setting(L, E, c, C, l) ==
    /\ AreLinks(L, E, c) /\ Closed(E, C) /\ C \subseteq AccountNodes
    /\ l.hops \in Nat /\ l.nodes \in Nat /\ l.edges \in Nat

(* A node that was taken from the queue is to be expanded.                   *)
IsDue(s, L, C, a, l, v, d) ==
    /\ s \in Searches(L) /\ IsSound(s, L, C, a, l) /\ v \in s.nodes
    /\ d \in Nat /\ d < l.hops /\ Within(s.edges, a, l.hops, v, d) /\ IsExpanded(s, L, {v})

(* All links of a node.                                                      *)
LEMMA FollowAllIs ==
    ASSUME NEW L, NEW E, NEW c, NEW C, NEW l, Setting(L, E, c, C, l), NEW a, NEW v, NEW d, NEW s,
           IsDue(s, L, C, a, l, v, d), NEW mine \in Seq(At(L, v)), ToSet(mine) = At(L, v),
           NEW t, t = FollowAll(s, mine, v, d, l)
    PROVE  /\ t \in Searches(L) /\ IsSound(t, L, C, a, l) /\ IsExpanded(t, L, {})
           /\ Cardinality(t.nodes) - Len(t.pending) = Cardinality(s.nodes) - Len(s.pending)
  <1> DEFINE N == Len(mine)
             H == l.hops
             Excess(x) == Cardinality(x.nodes) - Len(x.pending)
  <1>0. /\ AreLinks(L, E, c) /\ Closed(E, C) /\ C \subseteq AccountNodes
        /\ l.hops \in Nat /\ l.nodes \in Nat /\ l.edges \in Nat
        /\ s \in Searches(L) /\ IsSound(s, L, C, a, l) /\ v \in s.nodes
        /\ d \in Nat /\ d < l.hops /\ Within(s.edges, a, l.hops, v, d) /\ IsExpanded(s, L, {v})
    BY DEF Setting, IsDue
  <1>1. PICK r \in [0 .. N -> Searches(L)] :
              /\ r[0] = s
              /\ \A n \in 1 .. N : r[n] = Follow(r[n - 1], mine[n], v, d, l)
              /\ FollowAll(s, mine, v, d, l) = r[N]
    BY <1>0, FollowAllExists
  <1>2. N \in Nat /\ \A n \in 1 .. N : mine[n] \in L /\ v \in {mine[n].account, mine[n].identity}
    BY <1>0 DEF At, AreLinks
  <1> DEFINE Good(x, n) ==
               /\ IsSound(x, L, C, a, l) /\ v \in x.nodes /\ Within(x.edges, a, H, v, d)
               /\ IsExpanded(x, L, {v}) /\ Excess(x) = Excess(s)
               /\ ~x.truncated => \A j \in 1 .. n : mine[j] \in x.edges
             T == {n \in 0 .. N : Good(r[n], n)}
  <1>3. 0 \in T
    BY <1>0, <1>1, <1>2
  <1>4. ASSUME NEW n \in 1 .. N, n - 1 \in T PROVE n \in T
    <2> DEFINE x == r[n - 1]
               y == r[n]
               k == mine[n]
               other == OtherEnd(k, v)
    <2>1. /\ n \in 0 .. N /\ n - 1 \in 0 .. N /\ x \in Searches(L) /\ y \in Searches(L)
          /\ Good(x, n - 1) /\ y = Follow(x, k, v, d, l) /\ k \in L /\ v \in {k.account, k.identity}
      BY <1>1, <1>2, <1>4
    <2>2. 1 .. n = (1 .. n - 1) \cup {n}
      BY <1>2
    <2> HIDE DEF x, y, k
    <2>3. Omitted(x, y) \/ Followed(x, y, k, other, d, l)
      <3>1. Bounded(x, l)
        BY <2>1 DEF IsSound
      <3> QED
        BY ONLY <1>0, <2>1, <3>1, FollowIs
    <2>4. Good(y, n)
      <3>1. CASE Omitted(x, y)
        <4>1. IsSound(y, L, C, a, l)
          BY <2>1, <3>1 DEF IsSound, Bounded, Contained, Reached, Omitted
        <4> QED
          BY <2>1, <3>1, <4>1 DEF Omitted, IsExpanded
      <3>2. CASE Followed(x, y, k, other, d, l)
        <4>1. IsSound(y, L, C, a, l)
          <5>1. IsSound(x, L, C, a, l) /\ v \in x.nodes /\ Within(x.edges, a, l.hops, v, d)
            BY <2>1
          <5> QED
            BY <1>0, <2>1, <3>2, <5>1, SoundStays
        <4>2. IsExpanded(y, L, {v}) /\ Excess(y) = Excess(x)
          <5>1. IsFiniteSet(x.nodes) /\ IsExpanded(x, L, {v})
            BY <2>1 DEF IsSound, Bounded
          <5> QED
            BY <2>1, <3>2, <5>1, QueueIs
        <4>3. v \in y.nodes /\ y.edges = x.edges \cup {k} /\ y.truncated = x.truncated
          BY <2>1, <3>2 DEF Followed
        <4>4. Within(y.edges, a, H, v, d)
          <5>1. x.edges \subseteq y.edges /\ H \in Nat /\ d \in 0 .. H /\ Within(x.edges, a, H, v, d)
            BY <1>0, <2>1, <4>3
          <5> HIDE DEF H
          <5> QED
            BY ONLY <5>1, WithinGrows
        <4>5. ~y.truncated => \A j \in 1 .. n : mine[j] \in y.edges
          BY <2>1, <2>2, <4>3 DEF k
        <4> HIDE DEF H
        <4> QED
          BY <2>1, <4>1, <4>2, <4>3, <4>4, <4>5
      <3> QED
        BY <2>3, <3>1, <3>2
    <2> HIDE DEF Good
    <2> QED
      BY <2>1, <2>4 DEF y
  <1>5. N \in T
    <2> HIDE DEF T, N
    <2>1. 0 .. N \subseteq T
      BY <1>2, <1>3, <1>4, Induction
    <2> QED
      BY <1>2, <2>1
  <1>6. t \in Searches(L) /\ Good(t, N)
    BY <1>1, <1>2, <1>5
  <1>7. IsExpanded(t, L, {})
    <2>1. ~t.truncated => At(L, v) \subseteq t.edges
      <3>1. DOMAIN mine = 1 .. N
        OBVIOUS
      <3> QED
        BY <1>6, <3>1 DEF ToSet
    <2> QED
      BY <1>6, <2>1 DEF IsExpanded
  <1> QED
    BY <1>6, <1>7

(* The head of the queue, and the queue without it.                          *)
LEMMA TailIs ==
    ASSUME NEW L, NEW s \in Searches(L), s.pending # <<>>
    PROVE  LET rest == [s EXCEPT !.pending = Tail(@)]
               n == Len(s.pending)
           IN  /\ rest \in Searches(L) /\ rest.nodes = s.nodes /\ rest.edges = s.edges
               /\ rest.truncated = s.truncated /\ n \in Nat \ {0} /\ Len(rest.pending) = n - 1
               /\ Head(s.pending) = s.pending[1]
               /\ Head(s.pending)[1] \in AllNodes /\ Head(s.pending)[2] \in Nat
               /\ \A i \in 1 .. n - 1 : rest.pending[i] = s.pending[i + 1]
  <1> DEFINE p == s.pending
             S == AllNodes \X Nat
  <1>1. p \in Seq(S) /\ p # <<>>
    BY DEF Searches
  <1>2. /\ Tail(p) \in Seq(S) /\ Len(p) \in Nat \ {0} /\ Len(Tail(p)) = Len(p) - 1
        /\ Head(p) = p[1] /\ Head(p) \in S
        /\ \A i \in 1 .. Len(p) - 1 : Tail(p)[i] = p[i + 1]
    <2> HIDE DEF p, S
    <2> QED
      BY <1>1
  <1>3. Head(p)[1] \in AllNodes /\ Head(p)[2] \in Nat
    BY <1>2
  <1> DEFINE q == Tail(p)
             rest == [s EXCEPT !.pending = q]
  <1>4. /\ rest \in Searches(L) /\ rest.nodes = s.nodes /\ rest.edges = s.edges
        /\ rest.truncated = s.truncated /\ rest.pending = q
    <2>1. q \in Seq(S)
      BY <1>2
    <2> HIDE DEF q
    <2> QED
      BY <2>1 DEF Searches
  <1> HIDE DEF p, S
  <1> QED
    BY <1>2, <1>3, <1>4 DEF p

(* Expanding a node leads to a state of the search. *)
LEMMA ExpandType ==
    ASSUME NEW L, NEW E, NEW c, AreLinks(L, E, c), NEW l, NEW s \in Searches(L)
    PROVE  Expand(s, L, l) \in Searches(L)
  <1>1. CASE s.pending = <<>>
    BY <1>1 DEF Expand
  <1>2. CASE s.pending # <<>>
    <2> DEFINE v == Head(s.pending)[1]
               d == Head(s.pending)[2]
               rest == [s EXCEPT !.pending = Tail(@)]
               mine == LinksOf(L, v)
    <2>1. rest \in Searches(L) /\ d \in Nat
      BY <1>2, TailIs
    <2>2. mine \in Seq(At(L, v))
      BY LinksOfAre
    <2>3. Expand(s, L, l) = IF d >= l.hops THEN [rest EXCEPT !.truncated = @ \/ mine # <<>>]
                            ELSE FollowAll(rest, mine, v, d, l)
      BY <1>2 DEF Expand
    <2> HIDE DEF v, d, rest, mine
    <2>4. [rest EXCEPT !.truncated = @ \/ mine # <<>>] \in Searches(L)
      BY <2>1 DEF Searches
    <2>5. FollowAll(rest, mine, v, d, l) \in Searches(L)
      <3>1. PICK r \in [0 .. Len(mine) -> Searches(L)] :
                    FollowAll(rest, mine, v, d, l) = r[Len(mine)]
        BY <2>1, <2>2, FollowAllExists, SMTT(30)
      <3>2. Len(mine) \in 0 .. Len(mine)
        BY <2>2
      <3> QED
        BY <3>1, <3>2
    <2> QED
      BY <2>3, <2>4, <2>5
  <1> QED
    BY <1>1, <1>2

(* One round takes a node from the queue and keeps the search sound.         *)
LEMMA ExpandIs ==
    ASSUME NEW L, NEW E, NEW c, NEW C, NEW l, Setting(L, E, c, C, l), NEW a,
           NEW s \in Searches(L), IsSound(s, L, C, a, l), IsExpanded(s, L, {}),
           NEW t, t = Expand(s, L, l)
    PROVE  /\ t \in Searches(L) /\ IsSound(t, L, C, a, l) /\ IsExpanded(t, L, {})
           /\ \/ s.pending = <<>> /\ t = s
              \/ Cardinality(t.nodes) - Len(t.pending) = Cardinality(s.nodes) - Len(s.pending) + 1
  <1>1. CASE s.pending = <<>>
    BY <1>1 DEF Expand
  <1>2. CASE s.pending # <<>>
    <2> DEFINE v == Head(s.pending)[1]
               d == Head(s.pending)[2]
               rest == [s EXCEPT !.pending = Tail(@)]
               mine == LinksOf(L, v)
               n == Len(s.pending)
    <2>1. /\ rest \in Searches(L) /\ rest.nodes = s.nodes /\ rest.edges = s.edges
          /\ rest.truncated = s.truncated /\ n \in Nat \ {0} /\ Len(rest.pending) = n - 1
          /\ Head(s.pending) = s.pending[1] /\ v \in AllNodes /\ d \in Nat
          /\ \A i \in 1 .. n - 1 : rest.pending[i] = s.pending[i + 1]
      BY <1>2, TailIs
    <2>2. mine \in Seq(At(L, v)) /\ ToSet(mine) = At(L, v)
      BY LinksOfAre DEF Setting
    <2>3. t = IF d >= l.hops THEN [rest EXCEPT !.truncated = @ \/ mine # <<>>]
              ELSE FollowAll(rest, mine, v, d, l)
      BY <1>2 DEF Expand
    <2>4. v = s.pending[1][1] /\ d = s.pending[1][2]
      BY <2>1
    <2> HIDE DEF v, d, rest, mine
    <2>5. /\ \A i \in 1 .. Len(s.pending) :
               /\ s.pending[i][1] \in s.nodes /\ s.pending[i][2] \in 0 .. l.hops
               /\ Within(s.edges, a, l.hops, s.pending[i][1], s.pending[i][2])
      BY DEF IsSound, Reached
    <2>6. v \in s.nodes /\ Within(s.edges, a, l.hops, v, d)
      BY <2>1, <2>4, <2>5
    <2>7. IsSound(rest, L, C, a, l)
      <3>1. Reached(rest, a, l.hops)
        <4>1. \A i \in 1 .. Len(rest.pending) : i + 1 \in 1 .. n /\ i \in 1 .. n - 1
          BY <2>1
        <4>2. \A i \in 1 .. Len(rest.pending) :
                 /\ rest.pending[i][1] \in s.nodes /\ rest.pending[i][2] \in 0 .. l.hops
                 /\ Within(s.edges, a, l.hops, rest.pending[i][1], rest.pending[i][2])
          BY <2>1, <2>5, <4>1
        <4> QED
          BY <2>1, <4>2 DEF IsSound, Reached
      <3> QED
        BY <2>1, <3>1 DEF IsSound, Bounded, Contained
    <2>8. IsExpanded(rest, L, {v})
      <3>1. ASSUME NEW w, w # v, Queued(s, w) PROVE Queued(rest, w)
        <4>1. PICK i \in 1 .. n : s.pending[i][1] = w
          BY <3>1 DEF Queued
        <4>2. i - 1 \in 1 .. n - 1 /\ s.pending[(i - 1) + 1] = s.pending[i]
          BY <2>1, <2>4, <3>1, <4>1
        <4> QED
          BY <2>1, <4>1, <4>2 DEF Queued
      <3> QED
        BY <2>1, <3>1 DEF IsExpanded
    <2>9. Cardinality(rest.nodes) - Len(rest.pending) = Cardinality(s.nodes) - Len(s.pending) + 1
      <3>1. Cardinality(s.nodes) \in Nat
        BY FS_CardinalityType DEF IsSound, Bounded
      <3> QED
        BY <2>1, <3>1
    <2>10. CASE d >= l.hops
      <3>1. /\ t \in Searches(L) /\ t.nodes = rest.nodes /\ t.edges = rest.edges
            /\ t.pending = rest.pending /\ t.truncated = (rest.truncated \/ mine # <<>>)
        BY <2>1, <2>3, <2>10 DEF Searches
      <3>2. IsSound(t, L, C, a, l)
        BY <2>7, <3>1 DEF IsSound, Bounded, Contained, Reached
      <3>3. IsExpanded(t, L, {})
        <4>1. mine = <<>> => At(L, v) = {}
          <5>1. ToSet(<<>>) = {}
            BY DEF ToSet
          <5> QED
            BY <2>2, <5>1
        <4> QED
          BY <2>8, <3>1, <4>1 DEF IsExpanded, Queued
      <3> QED
        BY <2>9, <3>1, <3>2, <3>3
    <2>11. CASE d < l.hops
      <3>1. t = FollowAll(rest, mine, v, d, l)
        BY <2>1, <2>3, <2>11 DEF Setting
      <3>2. v \in rest.nodes /\ Within(rest.edges, a, l.hops, v, d)
        BY <2>1, <2>6
      <3>3. /\ t \in Searches(L) /\ IsSound(t, L, C, a, l) /\ IsExpanded(t, L, {})
            /\ Cardinality(t.nodes) - Len(t.pending) = Cardinality(rest.nodes) - Len(rest.pending)
        <4>1. IsDue(rest, L, C, a, l, v, d)
          BY <2>1, <2>7, <2>8, <2>11, <3>2 DEF IsDue
        <4> QED
          BY ONLY <2>2, <3>1, <4>1, Setting(L, E, c, C, l), FollowAllIs
      <3> QED
        BY <2>9, <3>3
    <2> QED
      BY <2>1, <2>10, <2>11 DEF Setting
  <1> QED
    BY <1>1, <1>2

(* The nodes that a search can find.                                         *)
Universe(L, a) == {a} \cup UNION {{l.account, l.identity} : l \in L}

(* The state in which a search starts. *)
Start(a) == [nodes |-> {a}, edges |-> {}, pending |-> <<<<a, 0>>>>, truncated |-> FALSE]

(* They are finitely many. *)
LEMMA UniverseIs ==
    ASSUME NEW L, IsFiniteSet(L), NEW a
    PROVE  IsFiniteSet(Universe(L, a)) /\ Cardinality(Universe(L, a)) \in Nat
  <1> DEFINE f == [l \in L |-> l.account]
             g == [l \in L |-> l.identity]
             A == {f[l] : l \in L}
             I == {g[l] : l \in L}
  <1>1. IsFiniteSet(A) /\ IsFiniteSet(I)
    BY ImagesFinite
  <1>2. Universe(L, a) \subseteq {a} \cup (A \cup I)
    BY DEF Universe
  <1> HIDE DEF A, I
  <1>3. IsFiniteSet(A \cup I) /\ IsFiniteSet({a})
    BY <1>1, FS_Union, FS_Singleton
  <1>4. IsFiniteSet({a} \cup (A \cup I))
    BY <1>3, FS_Union
  <1> QED
    BY <1>2, <1>4, FS_Subset, FS_CardinalityType

(* The rounds of a search are those of its definition. *)
LEMMA RoundsExist ==
    ASSUME NEW L, NEW E, NEW c, AreLinks(L, E, c), NEW a \in AllNodes, NEW l
    PROVE  LET N == Cardinality(Universe(L, a))
           IN  \E r \in [0 .. N -> Searches(L)] :
                 /\ r[0] = Start(a)
                 /\ \A n \in 1 .. N : r[n] = Expand(r[n - 1], L, l)
                 /\ Neighborhood(L, a, l) = r[N]
  <1> DEFINE N == Cardinality(Universe(L, a))
             Q == Searches(L)
             G == [n \in 1 .. N |-> [x \in Q |-> Expand(x, L, l)]]
             Is(r) == r = [n \in 0 .. N |->
                             IF n = 0 THEN Start(a) ELSE Expand(r[n - 1], L, l)]
  <1>1. N \in Nat
    BY UniverseIs DEF AreLinks
  <1>2. Start(a) \in Q
    <2>1. <<<<a, 0>>>> \in Seq(AllNodes \X Nat)
      OBVIOUS
    <2> QED
      BY <2>1 DEF Start, Searches
  <1> HIDE DEF N
  <1>3. PICK f \in [0 .. N -> Q] : Follows(f, N, Start(a), G)
    <2>1. ASSUME NEW n \in 1 .. N, NEW x \in Q PROVE Expand(x, L, l) \in Q
      BY ExpandType
    <2>2. G \in [1 .. N -> [Q -> Q]]
      BY <2>1
    <2> HIDE DEF Q, G
    <2> QED
      BY <1>1, <1>2, <2>2, Recursion
  <1>4. Is(f)
    <2>1. ASSUME NEW n \in 0 .. N
          PROVE  f[n] = IF n = 0 THEN Start(a) ELSE Expand(f[n - 1], L, l)
      <3>1. CASE n = 0
        BY <1>3, <3>1 DEF Follows
      <3>2. CASE n # 0
        <4>1. n \in 1 .. N /\ n - 1 \in 0 .. N
          BY <1>1, <3>2
        <4>2. f[n - 1] \in Q
          BY <1>3, <4>1
        <4>3. f[n] = G[n][f[n - 1]]
          BY <1>3, <4>1 DEF Follows
        <4> HIDE DEF Q
        <4> QED
          BY <3>2, <4>1, <4>2, <4>3
      <3> QED
        BY <3>1, <3>2
    <2> QED
      BY <1>3, <2>1
  <1> DEFINE r == CHOOSE r : Is(r)
  <1>5. Is(r)
    <2> HIDE DEF Is
    <2> QED
      BY <1>4
  <1>6. Neighborhood(L, a, l) = r[N]
    BY DEF Neighborhood, Start, Universe, N
  <1>7. r[0] = Start(a) /\ \A n \in 1 .. N : r[n] = Expand(r[n - 1], L, l)
    <2>1. r[0] = Start(a)
      <3> HIDE DEF r
      <3>1. 0 \in 0 .. N
        BY <1>1
      <3> QED
        BY <1>5, <3>1
    <2>2. ASSUME NEW n \in 1 .. N PROVE r[n] = Expand(r[n - 1], L, l)
      <3> HIDE DEF r
      <3>1. n \in 0 .. N /\ n # 0
        BY <1>1
      <3> QED
        BY <1>5, <3>1
    <2> QED
      BY <2>1, <2>2
  <1>8. r \in [0 .. N -> Q]
    <2> DEFINE T == {n \in 0 .. N : r[n] \in Q}
    <2>1. 0 \in T
      BY <1>1, <1>2, <1>7
    <2>2. ASSUME NEW n \in 1 .. N, n - 1 \in T PROVE n \in T
      <3> HIDE DEF r
      <3>1. r[n] = Expand(r[n - 1], L, l) /\ r[n - 1] \in Q /\ n \in 0 .. N
        BY <1>7, <2>2
      <3>2. r[n] \in Q
        BY <3>1, ExpandType
      <3> QED
        BY <3>1, <3>2
    <2>3. 0 .. N \subseteq T
      <3> HIDE DEF T
      <3> QED
        BY <1>1, <2>1, <2>2, Induction
    <2>4. DOMAIN r = 0 .. N /\ r = [n \in 0 .. N |-> r[n]]
      <3> HIDE DEF r
      <3> QED
        BY <1>5
    <2> HIDE DEF r, Q
    <2> QED
      BY <2>3, <2>4
  <1> HIDE DEF r
  <1> QED
    BY <1>6, <1>7, <1>8 DEF N

(* As many rounds as there are nodes empty the queue.                        *)
LEMMA SearchIs ==
    ASSUME NEW L, NEW E, NEW c, NEW C, NEW l, Setting(L, E, c, C, l), l.nodes > 0,
           NEW a \in AllNodes, a \in C, NEW s, s = Neighborhood(L, a, l)
    PROVE  /\ s \in Searches(L) /\ IsSound(s, L, C, a, l) /\ IsExpanded(s, L, {})
           /\ s.pending = <<>>
  <1> DEFINE N == Cardinality(Universe(L, a))
             Excess(x) == Cardinality(x.nodes) - Len(x.pending)
             Good(x, n) == /\ x \in Searches(L) /\ IsSound(x, L, C, a, l) /\ IsExpanded(x, L, {})
                           /\ x.nodes \subseteq Universe(L, a)
                           /\ x.pending = <<>> \/ Excess(x) = n
  <1>1. PICK r \in [0 .. N -> Searches(L)] :
                 /\ r[0] = Start(a)
                 /\ \A n \in 1 .. N : r[n] = Expand(r[n - 1], L, l)
                 /\ Neighborhood(L, a, l) = r[N]
    BY RoundsExist DEF Setting
  <1>2. N \in Nat /\ IsFiniteSet(Universe(L, a))
    BY UniverseIs DEF Setting, AreLinks
  <1> DEFINE T == {n \in 0 .. N : Good(r[n], n)}
  <1>3. 0 \in T
    <2>1. /\ r[0] \in Searches(L) /\ r[0].nodes = {a} /\ r[0].edges = {} /\ ~r[0].truncated
          /\ r[0].pending = <<<<a, 0>>>>
      <3>1. 0 \in 0 .. N
        BY <1>2
      <3>2. r[0] \in Searches(L)
        <4> HIDE DEF N
        <4> QED
          BY <1>1, <3>1
      <3>3. /\ Start(a).nodes = {a} /\ Start(a).edges = {} /\ ~Start(a).truncated
            /\ Start(a).pending = <<<<a, 0>>>>
        BY DEF Start
      <3> QED
        BY <1>1, <3>2, <3>3
    <2>2. Cardinality({a}) = 1 /\ IsFiniteSet({a}) /\ Cardinality({}) = 0 /\ IsFiniteSet({})
      BY FS_Singleton, FS_EmptySet
    <2>3. Len(<<<<a, 0>>>>) = 1 /\ <<<<a, 0>>>>[1] = <<a, 0>>
      OBVIOUS
    <2>4. Bounded(r[0], l)
      BY <2>1, <2>2 DEF Bounded, Setting
    <2>5. Contained(r[0], L, C)
      BY <2>1 DEF Contained
    <2>6. Reached(r[0], a, l.hops)
      <3>1. Within({}, a, l.hops, a, 0)
        BY DEF Within, AreRings
      <3>2. Within({}, a, l.hops, a, l.hops)
        <4>1. l.hops \in Nat /\ 0 \in 0 .. l.hops /\ l.hops \in 0 .. l.hops
          BY DEF Setting
        <4> QED
          BY ONLY <3>1, <4>1, WithinLonger
      <3> QED
        BY <2>1, <2>3, <3>1, <3>2 DEF Reached, Setting
    <2>7. IsExpanded(r[0], L, {})
      BY <2>1, <2>3 DEF IsExpanded, Queued
    <2>8. Excess(r[0]) = 0
      BY <2>1, <2>2, <2>3
    <2>9. r[0].nodes \subseteq Universe(L, a)
      BY <2>1 DEF Universe
    <2>10. Good(r[0], 0)
      <3> HIDE DEF Excess
      <3> QED
        BY <2>1, <2>4, <2>5, <2>6, <2>7, <2>8, <2>9 DEF IsSound
    <2> HIDE DEF Good
    <2> QED
      BY <1>2, <2>10
  <1>4. ASSUME NEW n \in 1 .. N, n - 1 \in T PROVE n \in T
    <2> DEFINE x == r[n - 1]
               y == r[n]
    <2>1. Good(x, n - 1) /\ y = Expand(x, L, l) /\ n \in 0 .. N
      BY <1>1, <1>4
    <2> HIDE DEF x, y
    <2>2. /\ y \in Searches(L) /\ IsSound(y, L, C, a, l) /\ IsExpanded(y, L, {})
          /\ \/ x.pending = <<>> /\ y = x
             \/ Excess(y) = Excess(x) + 1
      <3>1. x \in Searches(L) /\ IsSound(x, L, C, a, l) /\ IsExpanded(x, L, {})
        BY <2>1
      <3> QED
        BY ONLY <2>1, <3>1, Setting(L, E, c, C, l), ExpandIs
    <2>3. y.nodes \subseteq Universe(L, a)
      <3>1. \A m \in L : m.identity \in Universe(L, a) /\ m.account \in Universe(L, a)
        BY DEF Universe
      <3> SUFFICES ASSUME NEW v \in y.nodes PROVE v \in Universe(L, a)
        OBVIOUS
      <3>2. PICK q : AreRings(q, y.edges, a, l.hops)
        BY ReachExists DEF Setting
      <3>3. v \in q[l.hops]
        BY <2>2, <3>2 DEF IsSound, Reached, Within
      <3>4. y.edges \subseteq L /\ l.hops \in Nat
        BY <2>2 DEF Searches, Setting
      <3> DEFINE D == {d \in 0 .. l.hops : q[d] \subseteq Universe(L, a)}
      <3>5. 0 \in D
        BY <3>2, <3>4 DEF AreRings, Universe
      <3>6. ASSUME NEW d \in 1 .. l.hops, d - 1 \in D PROVE d \in D
        <4>1. q[d] = AlongEdges(y.edges, q[d - 1]) /\ d \in 0 .. l.hops
          BY <3>2, <3>4 DEF AreRings
        <4> QED
          BY <3>1, <3>4, <3>6, <4>1 DEF AlongEdges
      <3>7. l.hops \in D
        <4> DEFINE H == l.hops
        <4> HIDE DEF D
        <4>1. 0 .. H \subseteq D /\ H \in Nat
          <5> HIDE DEF H
          <5>1. H \in Nat
            BY <3>4 DEF H
          <5>2. 0 \in D /\ \A d \in 1 .. H : d - 1 \in D => d \in D
            BY <3>5, <3>6 DEF H
          <5> QED
            BY <5>1, <5>2, Induction
        <4> QED
          BY <4>1
      <3> QED
        BY <3>3, <3>7
    <2>4. Good(y, n)
      <3>1. CASE x.pending = <<>> /\ y = x
        BY <2>2, <2>3, <3>1
      <3>2. CASE ~(x.pending = <<>> /\ y = x) /\ x.pending # <<>>
        <4>1. Excess(y) = (n - 1) + 1
          BY <2>1, <2>2, <3>2
        <4>2. Excess(y) = n
          <5> HIDE DEF Excess
          <5> QED
            BY <4>1
        <4> QED
          BY <2>2, <2>3, <4>2
      <3>3. CASE x.pending = <<>> /\ y # x
        <4>1. Expand(x, L, l) = x
          BY <3>3 DEF Expand
        <4> QED
          BY <2>1, <3>3, <4>1
      <3> QED
        BY <3>1, <3>2, <3>3
    <2> HIDE DEF Good
    <2> QED
      BY <2>1, <2>4 DEF y
  <1>5. Good(s, N)
    <2>1. 0 .. N \subseteq T
      <3> HIDE DEF T, N
      <3> QED
        BY <1>2, <1>3, <1>4, Induction
    <2>2. N \in T
      BY <1>2, <2>1
    <2> QED
      BY <1>1, <2>2
  <1>6. s.pending = <<>>
    <2>1. Cardinality(s.nodes) <= N
      BY <1>2, <1>5, FS_Subset
    <2>2. s.pending \in Seq(AllNodes \X Nat)
      BY <1>5 DEF Searches
    <2>3. Len(s.pending) \in Nat /\ (Len(s.pending) = 0 => s.pending = <<>>)
      <3> DEFINE p == s.pending
      <3> HIDE DEF p
      <3>1. p \in Seq(AllNodes \X Nat)
        BY <2>2 DEF p
      <3>2. Len(p) \in Nat /\ (Len(p) = 0 => p = <<>>)
        BY <3>1
      <3> QED
        BY <3>2 DEF p
    <2>4. Cardinality(s.nodes) \in Nat
      BY <1>5, FS_CardinalityType DEF IsSound, Bounded
    <2> HIDE DEF N
    <2> QED
      BY <1>2, <1>5, <2>1, <2>3, <2>4
  <1> QED
    BY <1>5, <1>6

(* The accounts of a component are nodes of accounts.                        *)
LEMMA ComponentNodes ==
    ASSUME NEW E, NEW c, AreKnown(E, c), NEW a \in AccountNodes
    PROVE  ConnectedAccounts(E, a) \subseteq AccountNodes
  <1>1. Accounts(E) \subseteq AccountNodes
    <2>1. ASSUME NEW x \in E, x.type \in IdentityTypes \cup {"PLACED"}
          PROVE  x.source \in AccountNodes
      <3>1. IsRelationship(x)
        BY DEF AreKnown
      <3> QED
        BY <2>1, <3>1, EndsAre
    <2> QED
      BY <2>1 DEF Accounts
  <1>2. ConnectedAccounts(E, a) \subseteq Accounts(E) \cup {a}
    BY ComponentFound DEF AreKnown
  <1> QED
    BY <1>1, <1>2

(* What is within the hops of the root over the edges found is what was      *)
(* found.                                                                    *)
LEMMA ReachedAre ==
    ASSUME NEW s, NEW a, NEW H \in Nat, Reached(s, a, H), NEW r, AreRings(r, s.edges, a, H)
    PROVE  s.nodes = r[H]
  <1> DEFINE D == {d \in 0 .. H : r[d] \subseteq s.nodes}
  <1>1. 0 \in D
    BY DEF AreRings, Reached
  <1>2. ASSUME NEW d \in 1 .. H, d - 1 \in D PROVE d \in D
    <2>1. r[d] = AlongEdges(s.edges, r[d - 1]) /\ d \in 0 .. H
      BY DEF AreRings
    <2>2. \A k \in s.edges : {k.account, k.identity} \subseteq s.nodes
      BY DEF Reached
    <2> QED
      BY <1>2, <2>1, <2>2 DEF AlongEdges
  <1>3. H \in D
    <2> HIDE DEF D
    <2>1. 0 .. H \subseteq D
      BY <1>1, <1>2, Induction
    <2> QED
      BY <2>1
  <1>4. \A v \in s.nodes : v \in r[H]
    BY DEF Reached, Within
  <1> QED
    BY <1>3, <1>4

(* A search that left nothing out found the whole component.                 *)
LEMMA WholeIsFound ==
    ASSUME NEW L, NEW E, NEW c, AreLinks(L, E, c), IsFiniteSet(E), NEW a \in AccountNodes,
           NEW C, C = ConnectedAccounts(E, a), C \subseteq AccountNodes,
           NEW s \in Searches(L), NEW H, Contained(s, L, C), Reached(s, a, H),
           IsExpanded(s, L, {}), s.pending = <<>>, ~s.truncated
    PROVE  /\ {n \in s.nodes : n[1] = "Account"} = C
           /\ s.edges = {l \in L : l.account \in s.nodes}
  <1> DEFINE A == {n \in s.nodes : n[1] = "Account"}
  <1>1. \A v \in s.nodes : At(L, v) \subseteq s.edges
    <2>1. Len(s.pending) = 0
      OBVIOUS
    <2> QED
      BY <2>1 DEF IsExpanded, Queued
  <1>2. s.edges \subseteq L /\ \A k \in s.edges : k.account \in s.nodes /\ k.identity \in s.nodes
    BY DEF Searches, Reached
  <1>3. \A k \in L : /\ k.account \in AccountNodes /\ k.account[1] = "Account"
                     /\ k.identity[1] # "Account"
    BY DEF AreLinks, AccountNodes, IdentityNodes
  <1>4. A \subseteq C
    BY <1>3 DEF Contained
  <1>5. a \in A
    BY DEF Reached, AccountNodes
  <1>6. Closed(E, A)
    <2> SUFFICES ASSUME NEW x \in A, NEW b \in Peers(E, x) PROVE b \in A
      BY DEF Closed, Peers
    <2>1. PICK k \in L, m \in L : k.account = x /\ m.account = b /\ k.identity = m.identity
      BY DEF AreLinks
    <2>2. k \in s.edges
      BY <1>1, <2>1 DEF At
    <2>3. m \in s.edges
      <3>1. m.identity \in s.nodes
        BY <1>2, <2>1, <2>2
      <3> QED
        BY <1>1, <3>1 DEF At
    <2> QED
      BY <1>2, <1>3, <2>1, <2>3
  <1>7. C \subseteq A
    <2> HIDE DEF A
    <2> QED
      BY <1>5, <1>6, ComponentFound
  <1>8. s.edges = {l \in L : l.account \in s.nodes}
    BY <1>1, <1>2 DEF At
  <1> QED
    BY <1>4, <1>7, <1>8

(* Whatever the limits, a neighbourhood is within them and is what its edges   *)
(* reach from the subject; one that is not marked as truncated is the whole    *)
(* component of the features (service.py, _bounded_neighborhood).              *)
THEOREM NeighborhoodHolds ==
    ASSUME NEW view, NEW c \in Nat, NEW E, E = SnapshotAt(view, c).edges, AreKnown(E, c),
           NEW a \in AccountNodes, NEW l, l.hops \in Nat, l.nodes \in Nat \ {0}, l.edges \in Nat
    PROVE  NeighborhoodIsHonest(view, a, c, l)
  <1> DEFINE L == LinksAt(view, c)
             C == ConnectedAccounts(E, a)
             s == Neighborhood(L, a, l)
             H == l.hops
             reached[n \in 0 .. H] == IF n = 0 THEN {a} ELSE AlongEdges(s.edges, reached[n - 1])
  <1>1. AreLinks(L, E, c)
    <2> HIDE DEF L
    <2>1. L = LinksAt(view, c)
      BY DEF L
    <2>2. E = SnapshotAt(view, c).edges /\ AreKnown(E, c) /\ c \in Nat
      OBVIOUS
    <2> QED
      BY ONLY <2>1, <2>2, LinksAre
  <1>2. a \in C /\ Closed(E, C) /\ IsFiniteSet(E)
    BY ComponentFound DEF AreKnown
  <1>3. C \subseteq AccountNodes
    BY ComponentNodes
  <1>4. AreRings(reached, s.edges, a, H)
    <2> DEFINE F == s.edges
    <2> HIDE DEF F
    <2>1. LET r[n \in 0 .. H] == IF n = 0 THEN {a} ELSE AlongEdges(F, r[n - 1])
          IN  AreRings(r, F, a, H)
      BY RingsEnd, ZenonT(40)
    <2> QED
      BY <2>1 DEF F
  <1> HIDE DEF L, C
  <1>5. /\ s \in Searches(L) /\ IsSound(s, L, C, a, l) /\ IsExpanded(s, L, {})
        /\ s.pending = <<>>
    <2> HIDE DEF s
    <2>1. Setting(L, E, c, C, l) /\ l.nodes > 0
      BY <1>1, <1>2, <1>3 DEF Setting
    <2>2. a \in AllNodes
      BY DEF AllNodes
    <2>3. s = Neighborhood(L, a, l)
      BY DEF s
    <2> QED
      BY ONLY <1>2, <2>1, <2>2, <2>3, SearchIs
  <1> HIDE DEF s, reached
  <1>6. s.nodes = reached[H]
    <2>1. Reached(s, a, H) /\ H \in Nat
      BY <1>5 DEF IsSound
    <2> HIDE DEF H
    <2> QED
      BY ONLY <1>4, <2>1, ReachedAre
  <1>7. ~s.truncated => /\ {n \in s.nodes : n[1] = "Account"} = C
                        /\ s.edges = {k \in L : k.account \in s.nodes}
    <2> SUFFICES ASSUME ~s.truncated
                 PROVE  /\ {n \in s.nodes : n[1] = "Account"} = C
                        /\ s.edges = {k \in L : k.account \in s.nodes}
      OBVIOUS
    <2>1. Contained(s, L, C) /\ Reached(s, a, H) /\ C = ConnectedAccounts(E, a)
          /\ s \in Searches(L) /\ IsExpanded(s, L, {}) /\ s.pending = <<>> /\ ~s.truncated
          /\ a \in AccountNodes
      BY <1>5 DEF IsSound, C
    <2> HIDE DEF H
    <2> QED
      BY ONLY <1>1, <1>2, <1>3, <2>1, WholeIsFound
  <1>8. /\ Cardinality(s.nodes) <= l.nodes /\ Cardinality(s.edges) <= l.edges
        /\ \A k \in s.edges : {k.account, k.identity} \subseteq s.nodes
    BY <1>5 DEF IsSound, Bounded, Reached
  <1>9. IdentityNeighborhood(view, a, c, l) # None => IdentityNeighborhood(view, a, c, l) = s
    BY DEF IdentityNeighborhood, L, s
  <1>10. CASE IdentityNeighborhood(view, a, c, l) = None
    BY <1>10 DEF NeighborhoodIsHonest
  <1>11. CASE IdentityNeighborhood(view, a, c, l) = s
    BY <1>6, <1>7, <1>8, <1>11, ZenonT(40) DEF NeighborhoodIsHonest, L, C, reached
  <1> QED
    BY <1>9, <1>10, <1>11

=======================================================================================
