---------------------------- MODULE Pkcs11Proofs ----------------------------
(***************************************************************************)
(* Proofs about the PKCS #11 module: first what the two loops that fill    *)
(* its lists compute, then that every step keeps the module in order.      *)
(***************************************************************************)
EXTENDS Pkcs11, FiniteSetTheorems, RecursionLemmas

-----------------------------------------------------------------------------
(* The list of identities of C_Initialize. *)

(* The usable keys among the first n of a list, and the identity made of   *)
(* the one at place i.                                                     *)
Usable(raw, n) == {j \in DOMAIN raw : raw[j].key_type = "ed25519" /\ j <= n}
Entry(raw, i) == [key |-> raw[i].key, index |-> i - 1]

(* What the loop of Identities does in one round. *)
Round(raw, n, s) ==
  IF raw[n].key_type = "ed25519" THEN Append(s, Entry(raw, n)) ELSE s

(* A round makes a list of identities longer by at most an identity. *)
LEMMA RoundType ==
  ASSUME NEW raw \in Seq(Raw), NEW n \in 1..Len(raw), NEW s \in Seq(Identity)
  PROVE  Round(raw, n, s) \in Seq(Identity)
<1>1. raw[n] \in Raw /\ n - 1 \in Nat
  OBVIOUS
<1>2. Entry(raw, n) \in Identity
  BY <1>1 DEF Entry, Identity, Raw
<1> QED
  BY <1>2 DEF Round

(* Identities is what the loop has after the last round. *)
LEMMA IdentitiesLoop ==
  ASSUME NEW raw \in Seq(Raw)
  PROVE  \E f \in [0..Len(raw) -> Seq(Identity)] :
           /\ Identities(raw) = f[Len(raw)]
           /\ f[0] = << >>
           /\ \A n \in 1..Len(raw) : f[n] = Round(raw, n, f[n-1])
<1> DEFINE len == Len(raw)
           S == [n \in 1..len |-> [s \in Seq(Identity) |-> Round(raw, n, s)]]
           Body(g) == [n \in 0..len |-> IF n = 0 THEN << >> ELSE
                        IF raw[n].key_type = "ed25519"
                        THEN Append(g[n-1], [key |-> raw[n].key, index |-> n - 1])
                        ELSE g[n-1]]
           F == CHOOSE g : g = Body(g)
<1>1. len \in Nat /\ << >> \in Seq(Identity)
  OBVIOUS
<1>2. S \in [1..len -> [Seq(Identity) -> Seq(Identity)]]
  BY RoundType
<1>3. PICK f \in [0..len -> Seq(Identity)] :
        f[0] = << >> /\ \A n \in 1..len : f[n] = S[n][f[n-1]]
  <2> HIDE DEF S, len
  <2>1. PICK B, a, l, R : B = Seq(Identity) /\ a = << >> /\ l = len /\ R = S
    OBVIOUS
  <2>2. a \in B /\ l \in Nat /\ R \in [1..l -> [B -> B]]
    BY <1>1, <1>2, <2>1
  <2>3. LoopValues(B, a, l, R) # {}
    BY <2>2, LoopExists
  <2> QED
    BY <2>1, <2>3 DEF LoopValues
<1>4. \A n \in 1..len : n \in 0..len /\ n # 0 /\ n - 1 \in 0..len
  BY <1>1
<1>5. \A n \in 0..len : Body(f)[n] = f[n]
  <2> TAKE n \in 0..len
  <2>1. CASE n = 0
    BY <2>1, <1>3
  <2>2. CASE n # 0
    <3>1. n \in 1..len /\ f[n-1] \in Seq(Identity)
      BY <2>2, <1>1, <1>4
    <3>2. f[n] = Round(raw, n, f[n-1])
      BY <1>3, <3>1, <2>2
    <3> QED
      BY <3>2, <2>2 DEF Round, Entry
  <2> QED
    BY <2>1, <2>2
<1>6. f = Body(f)
  BY <1>5
<1>7. F = Body(F)
  <2> HIDE DEF Body
  <2> QED
    BY <1>6
<1>8. Identities(raw) = F[len]
  BY DEF Identities
<1> HIDE DEF F
<1>9. F[0] = << >>
  BY <1>7, <1>1
<1>10. \A n \in 1..len : F[n] = Round(raw, n, F[n-1])
  BY <1>7, <1>4 DEF Round, Entry
<1>11. \A n \in 0..len : F[n] \in Seq(Identity)
  <2> DEFINE T == {n \in 0..len : F[n] \in Seq(Identity)}
  <2>1. 0 \in T
    BY <1>9, <1>1, SMTT(30)
  <2>2. \A n \in 0..len : n \in T /\ n < len => n + 1 \in T
    <3> SUFFICES ASSUME NEW n \in 0..len, F[n] \in Seq(Identity), n < len
                 PROVE  n + 1 \in 0..len /\ F[n+1] \in Seq(Identity)
      OBVIOUS
    <3>1. n + 1 \in 1..len /\ (n + 1) - 1 = n
      BY <1>1
    <3> QED
      BY <3>1, <1>10, RoundType
  <2> HIDE DEF T, len
  <2>3. 0..len \subseteq T
    BY <2>1, <2>2, <1>1, InductionUpTo
  <2> QED
    BY <2>3 DEF T
<1>12. F \in [0..len -> Seq(Identity)]
  <2>1. F = [n \in 0..len |-> F[n]]
    BY <1>7
  <2> QED
    BY <2>1, <1>11
<1> QED
  BY <1>8, <1>9, <1>10, <1>12

(* The rank of a place among the usable ones counts by one. *)
LEMMA UsableNext ==
  ASSUME NEW raw \in Seq(Raw), NEW n \in 1..Len(raw)
  PROVE  /\ IsFiniteSet(Usable(raw, n))
         /\ raw[n].key_type = "ed25519" =>
              /\ Usable(raw, n) = Usable(raw, n-1) \cup {n}
              /\ Cardinality(Usable(raw, n)) = Cardinality(Usable(raw, n-1)) + 1
         /\ raw[n].key_type # "ed25519" => Usable(raw, n) = Usable(raw, n-1)
<1>1. \A m \in Nat : IsFiniteSet(Usable(raw, m))
  <2> TAKE m \in Nat
  <2>1. Usable(raw, m) \subseteq 1..Len(raw) /\ IsFiniteSet(1..Len(raw))
    BY FS_Interval DEF Usable
  <2> QED
    BY <2>1, FS_Subset
<1>2. n \in Nat /\ n - 1 \in Nat /\ n \in DOMAIN raw
  OBVIOUS
<1>3. n \notin Usable(raw, n-1)
  BY <1>2 DEF Usable
<1>4. ASSUME raw[n].key_type = "ed25519"
      PROVE  Usable(raw, n) = Usable(raw, n-1) \cup {n}
  BY <1>2, <1>4 DEF Usable
<1>5. ASSUME raw[n].key_type # "ed25519"
      PROVE  Usable(raw, n) = Usable(raw, n-1)
  BY <1>2, <1>5 DEF Usable
<1>6. Cardinality(Usable(raw, n-1) \cup {n}) = Cardinality(Usable(raw, n-1)) + 1
  BY <1>1, <1>2, <1>3, FS_AddElement
<1> QED
  BY <1>1, <1>2, <1>4, <1>5, <1>6

(* The list s holds the identities of the usable keys among the first n,   *)
(* each at its rank.                                                       *)
Holds(raw, n, s) ==
  /\ s \in Seq(Identity)
  /\ Len(s) = Cardinality(Usable(raw, n))
  /\ Len(s) <= n
  /\ \A p \in 1..Len(s) : \E i \in Usable(raw, n) :
       Cardinality(Usable(raw, i)) = p
  /\ \A i \in Usable(raw, n) :
       /\ Cardinality(Usable(raw, i)) \in 1..Len(s)
       /\ s[Cardinality(Usable(raw, i))] = Entry(raw, i)

(* A round of the loop of Identities keeps it. *)
LEMMA HoldsRound ==
  ASSUME NEW raw \in Seq(Raw), NEW n \in 1..Len(raw), NEW s,
         Holds(raw, n - 1, s)
  PROVE  Holds(raw, n, Round(raw, n, s))
<1> DEFINE rank(i) == Cardinality(Usable(raw, i))
           r == Round(raw, n, s)
<1>1. s \in Seq(Identity) /\ r \in Seq(Identity)
  BY RoundType DEF Holds
<1>2. CASE raw[n].key_type # "ed25519"
  <2>1. Usable(raw, n) = Usable(raw, n-1) /\ r = s
    BY <1>2, UsableNext DEF Round
  <2> QED
    BY <2>1 DEF Holds
<1>3. CASE raw[n].key_type = "ed25519"
  <2>1. Usable(raw, n) = Usable(raw, n-1) \cup {n} /\ rank(n) = rank(n-1) + 1
    BY <1>3, UsableNext
  <2>2. r = Append(s, Entry(raw, n))
    BY <1>3 DEF Round
  <2>3. Len(s) = rank(n-1) /\ Len(s) <= n - 1 /\ Len(s) \in Nat
    BY <1>1 DEF Holds
  <2>4. Len(r) = rank(n) /\ Len(r) <= n /\ Len(r) = Len(s) + 1
    BY <1>1, <2>1, <2>2, <2>3
  <2>5. r[Len(r)] = Entry(raw, n) /\ \A p \in 1..Len(s) : r[p] = s[p]
    BY <1>1, <2>2, <2>4
  <2>6. \A p \in 1..Len(r) : \E i \in Usable(raw, n) : rank(i) = p
    <3> TAKE p \in 1..Len(r)
    <3>1. CASE p = Len(r)
      BY <3>1, <2>1, <2>4
    <3>2. CASE p # Len(r)
      <4>1. p \in 1..Len(s)
        BY <3>2, <2>3, <2>4
      <4>2. PICK i \in Usable(raw, n-1) : rank(i) = p
        BY <4>1 DEF Holds
      <4> QED
        BY <4>2, <2>1
    <3> QED
      BY <3>1, <3>2
  <2>7. \A i \in Usable(raw, n) :
          rank(i) \in 1..Len(r) /\ r[rank(i)] = Entry(raw, i)
    <3> TAKE i \in Usable(raw, n)
    <3>1. CASE i = n
      BY <3>1, <2>3, <2>4, <2>5
    <3>2. CASE i # n
      <4>1. i \in Usable(raw, n-1)
        BY <3>2, <2>1
      <4>2. rank(i) \in 1..Len(s) /\ s[rank(i)] = Entry(raw, i)
        BY <4>1 DEF Holds
      <4> QED
        BY <4>2, <2>3, <2>4, <2>5
    <3> QED
      BY <3>1, <3>2
  <2>8. Holds(raw, n, r)
    <3> HIDE DEF r
    <3> QED
      BY <1>1, <2>4, <2>6, <2>7 DEF Holds
  <2> QED
    BY <2>8
<1> QED
  BY <1>2, <1>3

(* What Identities gives: the usable keys in order, none missed, each with *)
(* its place in the avatar's list.                                         *)
LEMMA IdentitiesExact ==
  ASSUME NEW raw \in Seq(Raw)
  PROVE  Holds(raw, Len(raw), Identities(raw))
<1> DEFINE len == Len(raw)
<1>1. PICK f \in [0..len -> Seq(Identity)] :
        /\ Identities(raw) = f[len]
        /\ f[0] = << >>
        /\ \A n \in 1..len : f[n] = Round(raw, n, f[n-1])
  BY IdentitiesLoop
<1> DEFINE T == {n \in 0..len : Holds(raw, n, f[n])}
<1>2. len \in Nat
  OBVIOUS
<1>3. 0 \in T
  <2>1. Usable(raw, 0) = {}
    BY DEF Usable
  <2>2. Cardinality(Usable(raw, 0)) = 0
    BY <2>1, FS_EmptySet
  <2>3. f[0] \in Seq(Identity) /\ Len(f[0]) = 0
    BY <1>1, <1>2
  <2>4. Holds(raw, 0, f[0])
    BY <2>1, <2>2, <2>3 DEF Holds
  <2> QED
    BY <2>4, <1>2
<1>4. \A n \in 0..len : n \in T /\ n < len => n + 1 \in T
  <2> SUFFICES ASSUME NEW n \in 0..len, Holds(raw, n, f[n]), n < len
               PROVE  n + 1 \in 0..len /\ Holds(raw, n + 1, f[n+1])
    OBVIOUS
  <2>1. n + 1 \in 1..len /\ (n + 1) - 1 = n /\ n + 1 \in 0..len
    BY <1>2
  <2>2. f[n+1] = Round(raw, n + 1, f[n])
    BY <1>1, <2>1
  <2> QED
    BY <2>1, <2>2, HoldsRound
<1>5. len \in T
  <2> HIDE DEF T, len
  <2>1. 0..len \subseteq T
    BY <1>2, <1>3, <1>4, InductionUpTo
  <2> QED
    BY <2>1, <1>2
<1> QED
  BY <1>1, <1>5

(* The handle of a private key names in the module's list what its caller  *)
(* means in the avatar's.                                                  *)
LEMMA MeantExact ==
  ASSUME NEW raw \in Seq(Raw), NEW key \in Nat, IsPrivateKey(Identities(raw), key)
  PROVE  /\ handle_to_identity_index(key).index + 1 \in 1..Len(Identities(raw))
         /\ Identities(raw)[handle_to_identity_index(key).index + 1] = Meant(raw, key)
         /\ Meant(raw, key) \in Identity
<1> DEFINE ids == Identities(raw)
           p == (key - 1) \div 3 + 1
           ed == {i \in DOMAIN raw : raw[i].key_type = "ed25519"}
           rank(i) == Cardinality({j \in ed : j <= i})
           nth == CHOOSE i \in ed : 3 * rank(i) = key + 2
<1>1. Holds(raw, Len(raw), ids)
  BY IdentitiesExact
<1>2. Len(ids) \in Nat /\ ids \in Seq(Identity)
  BY <1>1 DEF Holds
<1>3. p \in 1..Len(ids) /\ 3 * p = key + 2
  <2>1. key # 0 /\ (key - 1) \div 3 < Len(ids) /\ key - 1 \in Nat
    BY DEF IsPrivateKey, ValidHandle, handle_to_identity_index
  <2>2. (key - 1) % 3 \in 0..2
    BY <2>1
  <2>3. Kinds[((key - 1) % 3) + 1] = "PrivateKey"
    BY DEF IsPrivateKey, handle_to_identity_index
  <2>4. (key - 1) % 3 = 0
    BY <2>2, <2>3 DEF Kinds
  <2> HIDE DEF ids
  <2> QED
    BY <1>2, <2>1, <2>4
<1>4. ed = Usable(raw, Len(raw))
  BY DEF Usable
<1>5. \A i : {j \in ed : j <= i} = Usable(raw, i)
  BY DEF Usable
<1>6. \E i \in ed : rank(i) = p
  BY <1>1, <1>3, <1>4, <1>5 DEF Holds
<1>7. nth \in ed /\ 3 * rank(nth) = key + 2
  BY <1>3, <1>6
<1>8. rank(nth) \in 1..Len(ids) /\ ids[rank(nth)] = Entry(raw, nth)
  BY <1>1, <1>4, <1>5, <1>7 DEF Holds
<1>9. rank(nth) = p
  BY <1>3, <1>7, <1>8
<1>10. Meant(raw, key) = Entry(raw, nth)
  BY DEF Meant, Entry
<1>11. handle_to_identity_index(key).index + 1 = p
  BY DEF handle_to_identity_index
<1> HIDE DEF nth, rank, p, ids
<1> QED
  BY <1>2, <1>3, <1>8, <1>9, <1>10, <1>11 DEF ids


-----------------------------------------------------------------------------
(* The list of handles of C_FindObjectsInit. *)

(* What the loop of Matching appends for the identity at place i, and the  *)
(* handles it should have after n identities.                              *)
Block(class, i) ==
  CASE class = "any" -> [k \in 1..3 |-> Handle(i, k)]
    [] class = "none" -> << >>
    [] OTHER -> <<Handle(i, CHOOSE k \in 1..3 : Kinds[k] = class)>>

Wanted(class, n) ==
  {h \in 1..3 * n : class \in {"any", handle_to_identity_index(h).kind}}

(* The kind of an object can be told from its handle. *)
LEMMA KindOfHandle ==
  ASSUME NEW i \in Nat, NEW k \in 1..3
  PROVE  /\ Handle(i, k) \in Nat
         /\ Handle(i, k) = 3 * i + k
         /\ handle_to_identity_index(Handle(i, k)).kind = Kinds[k]
<1>1. Handle(i, k) \in Nat /\ Handle(i, k) = 3 * i + k
  BY DEF Handle
<1>2. ((3 * i + k - 1) % 3) + 1 = k
  OBVIOUS
<1> QED
  BY <1>1, <1>2 DEF handle_to_identity_index

(* The block of an identity holds its handles of the class, in order. *)
LEMMA BlockExact ==
  ASSUME NEW class \in Classes, NEW i \in Nat
  PROVE  LET b == Block(class, i) IN
         /\ b \in Seq(Nat)
         /\ \A j \in 1..Len(b) : 3 * i < b[j] /\ b[j] \in Wanted(class, i + 1)
         /\ \A j, m \in 1..Len(b) : j < m => b[j] < b[m]
         /\ \A h \in Wanted(class, i + 1) : 3 * i < h =>
              \E j \in 1..Len(b) : b[j] = h
<1> DEFINE b == Block(class, i)
           K(h) == handle_to_identity_index(h).kind
<1>1. \A k \in 1..3 : Handle(i, k) \in 1..3 * (i + 1) /\ Handle(i, k) = 3 * i + k
                      /\ K(Handle(i, k)) = Kinds[k]
  <2> TAKE k \in 1..3
  <2>1. Handle(i, k) = 3 * i + k
    BY KindOfHandle
  <2>2. K(Handle(i, k)) = Kinds[k]
    <3> HIDE DEF K
    <3> QED
      BY KindOfHandle DEF K
  <2>3. Handle(i, k) \in 1..3 * (i + 1)
    BY <2>1
  <2> QED
    BY <2>1, <2>2, <2>3
<1>2. \A h \in 1..3 * (i + 1) : 3 * i < h => \E k \in 1..3 : h = Handle(i, k)
  <2> SUFFICES ASSUME NEW h \in 1..3 * (i + 1), 3 * i < h
               PROVE  \E k \in 1..3 : h = Handle(i, k)
    OBVIOUS
  <2>1. h - 3 * i \in 1..3
    OBVIOUS
  <2>2. h = Handle(i, h - 3 * i)
    BY <2>1, <1>1
  <2> QED
    BY <2>1, <2>2
<1> HIDE DEF K
<1>3. CASE class = "any"
  <2>1. b = [k \in 1..3 |-> Handle(i, k)]
    BY <1>3 DEF Block
  <2>2. b \in Seq(Nat) /\ Len(b) = 3 /\ \A j \in 1..3 : b[j] = Handle(i, j)
    BY <2>1, <1>1
  <2>3. Wanted(class, i + 1) = 1..3 * (i + 1)
    BY <1>3 DEF Wanted
  <2> HIDE DEF b
  <2> QED
    BY <2>2, <2>3, <1>1, <1>2 DEF b
<1>4. CASE class = "none"
  <2>1. b = << >> /\ b \in Seq(Nat) /\ Len(b) = 0
    BY <1>4 DEF Block
  <2>2. ASSUME NEW h \in Wanted(class, i + 1), 3 * i < h
        PROVE  FALSE
    <3>1. h \in 1..3 * (i + 1) /\ K(h) = "none"
      BY <1>4, <2>2 DEF Wanted, K
    <3>2. PICK k \in 1..3 : h = Handle(i, k)
      BY <1>2, <2>2, <3>1
    <3>3. Kinds[k] = "none"
      BY <1>1, <3>1, <3>2
    <3> QED
      BY <3>3 DEF Kinds
  <2> HIDE DEF b
  <2> QED
    BY <2>1, <2>2 DEF b
<1>5. CASE class \notin {"any", "none"}
  <2> DEFINE k == CHOOSE k \in 1..3 : Kinds[k] = class
  <2>1. k \in 1..3 /\ Kinds[k] = class /\ \A m \in 1..3 : Kinds[m] = class => m = k
    <3>1. \E m \in 1..3 : Kinds[m] = class
      <4>1. class \in {Kinds[1], Kinds[2], Kinds[3]}
        BY <1>5 DEF Classes, Kinds
      <4> QED
        BY <4>1
    <3>2. \A m, n \in 1..3 : Kinds[m] = Kinds[n] => m = n
      BY DEF Kinds
    <3> QED
      BY <3>1, <3>2
  <2>2. b = <<Handle(i, k)>>
    BY <1>5 DEF Block
  <2> HIDE DEF k
  <2>3. b \in Seq(Nat) /\ Len(b) = 1 /\ b[1] = Handle(i, k)
    BY <2>1, <2>2, <1>1
  <2>4. Handle(i, k) \in Wanted(class, i + 1) /\ 3 * i < Handle(i, k)
    BY <2>1, <1>1 DEF Wanted, K
  <2>5. ASSUME NEW h \in Wanted(class, i + 1), 3 * i < h
        PROVE  h = Handle(i, k)
    <3>1. h \in 1..3 * (i + 1) /\ K(h) = class
      BY <1>5, <2>5 DEF Wanted, K
    <3>2. PICK m \in 1..3 : h = Handle(i, m)
      BY <1>2, <2>5, <3>1
    <3> QED
      BY <1>1, <2>1, <3>1, <3>2
  <2> HIDE DEF b
  <2> QED
    BY <2>3, <2>4, <2>5 DEF b
<1> QED
  BY <1>3, <1>4, <1>5


(* Matching is what the loop has after the last identity. *)
LEMMA MatchingLoop ==
  ASSUME NEW ids \in Seq(Identity), NEW class \in Classes
  PROVE  \E f \in [0..Len(ids) -> Seq(Nat)] :
           /\ Matching(ids, class) = f[Len(ids)]
           /\ f[0] = << >>
           /\ \A n \in 1..Len(ids) : f[n] = f[n-1] \o Block(class, n - 1)
<1> DEFINE len == Len(ids)
           A == Seq(Nat)
           S == [n \in 1..len |-> [s \in A |-> s \o Block(class, n - 1)]]
           Body(g) == [n \in 0..len |-> IF n = 0 THEN << >>
                                        ELSE g[n-1] \o Block(class, n - 1)]
           F == CHOOSE g : g = Body(g)
<1>1. len \in Nat /\ << >> \in Seq(Nat)
  OBVIOUS
<1>2. \A n \in 1..len : n \in 0..len /\ n # 0 /\ n - 1 \in 0..len /\ n - 1 \in Nat
  BY <1>1
<1>3. \A n \in 1..len : Block(class, n - 1) \in Seq(Nat)
  BY <1>2, BlockExact
<1>4. << >> \in A /\ \A n \in 1..len, s \in A : s \o Block(class, n - 1) \in A
  BY <1>1, <1>3
<1> HIDE DEF A
<1>5. S \in [1..len -> [A -> A]]
  BY <1>4
<1>6. PICK f \in [0..len -> A] :
        f[0] = << >> /\ \A n \in 1..len : f[n] = S[n][f[n-1]]
  <2> HIDE DEF S, len
  <2>1. PICK B, a, l, R : B = A /\ a = << >> /\ l = len /\ R = S
    OBVIOUS
  <2>2. a \in B /\ l \in Nat /\ R \in [1..l -> [B -> B]]
    BY <1>1, <1>4, <1>5, <2>1
  <2>3. LoopValues(B, a, l, R) # {}
    BY <2>2, LoopExists
  <2> QED
    BY <2>1, <2>3 DEF LoopValues
<1>7. \A n \in 0..len : Body(f)[n] = f[n]
  <2> TAKE n \in 0..len
  <2>1. CASE n = 0
    BY <2>1, <1>6
  <2>2. CASE n # 0
    <3>1. n \in 1..len /\ f[n-1] \in A
      BY <2>2, <1>1, <1>2
    <3>2. f[n] = f[n-1] \o Block(class, n - 1)
      BY <1>6, <3>1
    <3> QED
      BY <3>2, <2>2
  <2> QED
    BY <2>1, <2>2
<1>8. f = Body(f)
  BY <1>7
<1>9. F = Body(F)
  <2> HIDE DEF Body
  <2> QED
    BY <1>8
<1>10. Matching(ids, class) = F[len]
  BY DEF Matching, Block
<1> HIDE DEF F
<1>11. F[0] = << >>
  BY <1>9, <1>1
<1>12. \A n \in 1..len : F[n] = F[n-1] \o Block(class, n - 1)
  BY <1>9, <1>2
<1>13. \A n \in 0..len : F[n] \in A
  <2> DEFINE T == {n \in 0..len : F[n] \in A}
  <2>1. 0 \in T
    BY <1>11, <1>4, <1>1
  <2>2. \A n \in 0..len : n \in T /\ n < len => n + 1 \in T
    <3> SUFFICES ASSUME NEW n \in 0..len, F[n] \in A, n < len
                 PROVE  n + 1 \in 0..len /\ F[n+1] \in A
      OBVIOUS
    <3>1. n + 1 \in 1..len /\ (n + 1) - 1 = n
      BY <1>1
    <3>2. F[n+1] = F[n] \o Block(class, n)
      BY <3>1, <1>12
    <3>3. F[n] \o Block(class, n) \in A
      BY <3>1, <1>4
    <3> QED
      BY <3>1, <3>2, <3>3
  <2> HIDE DEF T, len
  <2>3. 0..len \subseteq T
    BY <2>1, <2>2, <1>1, InductionUpTo
  <2> QED
    BY <2>3 DEF T
<1>14. F \in [0..len -> A]
  <2>1. F = [n \in 0..len |-> F[n]]
    BY <1>9
  <2> QED
    BY <2>1, <1>13
<1> QED
  BY <1>10, <1>11, <1>12, <1>14 DEF A

(* The list s holds, in order, the handles wanted of the first n           *)
(* identities.                                                             *)
Lists(class, n, s) ==
  /\ s \in Seq(Nat)
  /\ \A j \in 1..Len(s) : s[j] \in Wanted(class, n)
  /\ \A j, m \in 1..Len(s) : j < m => s[j] < s[m]
  /\ \A h \in Wanted(class, n) : \E j \in 1..Len(s) : s[j] = h

(* A round of the loop of Matching appends the matches of one identity. *)
LEMMA ListsRound ==
  ASSUME NEW class \in Classes, NEW n \in Nat, NEW s, Lists(class, n, s)
  PROVE  Lists(class, n + 1, s \o Block(class, n))
<1> DEFINE b == Block(class, n)
           r == s \o b
<1>1. /\ b \in Seq(Nat)
      /\ \A j \in 1..Len(b) : 3 * n < b[j] /\ b[j] \in Wanted(class, n + 1)
      /\ \A j, m \in 1..Len(b) : j < m => b[j] < b[m]
      /\ \A h \in Wanted(class, n + 1) : 3 * n < h =>
           \E j \in 1..Len(b) : b[j] = h
  BY BlockExact
<1> HIDE DEF b
<1>2. s \in Seq(Nat) /\ \A j \in 1..Len(s) : s[j] \in Wanted(class, n)
  BY DEF Lists
<1>3. \A h : h \in Wanted(class, n) <=> h \in Wanted(class, n + 1) /\ h <= 3 * n
  BY DEF Wanted
<1>4. /\ r \in Seq(Nat)
      /\ Len(r) = Len(s) + Len(b)
      /\ \A j \in 1..Len(s) : r[j] = s[j]
      /\ \A j \in 1..Len(b) : r[Len(s) + j] = b[j]
  BY <1>1, <1>2
<1>5. Len(s) \in Nat /\ Len(b) \in Nat
  BY <1>1, <1>2
<1> HIDE DEF r
<1>6. \A j \in 1..Len(r) : \/ j \in 1..Len(s) /\ r[j] = s[j]
                           \/ \E i \in 1..Len(b) : j = Len(s) + i /\ r[j] = b[i]
  <2> TAKE j \in 1..Len(r)
  <2>1. CASE j <= Len(s)
    BY <2>1, <1>4, <1>5
  <2>2. CASE ~(j <= Len(s))
    <3>1. j - Len(s) \in 1..Len(b) /\ j = Len(s) + (j - Len(s))
      BY <2>2, <1>4, <1>5
    <3> QED
      BY <3>1, <1>4
  <2> QED
    BY <2>1, <2>2
<1>7. \A j \in 1..Len(r) : r[j] \in Wanted(class, n + 1)
  BY <1>1, <1>2, <1>3, <1>6
<1>8. \A h \in Wanted(class, n + 1) : \E j \in 1..Len(r) : r[j] = h
  <2> TAKE h \in Wanted(class, n + 1)
  <2>0. h \in Nat
    BY DEF Wanted
  <2>1. CASE h <= 3 * n
    <3>1. PICK j \in 1..Len(s) : s[j] = h
      BY <2>1, <1>3 DEF Lists
    <3> QED
      BY <3>1, <1>4, <1>5
  <2>2. CASE 3 * n < h
    <3>1. PICK j \in 1..Len(b) : b[j] = h
      BY <2>2, <1>1
    <3>2. Len(s) + j \in 1..Len(r)
      BY <1>4, <1>5
    <3> QED
      BY <3>1, <3>2, <1>4
  <2> QED
    BY <2>0, <2>1, <2>2
<1>9. \A j, m \in 1..Len(r) : j < m => r[j] < r[m]
  <2> SUFFICES ASSUME NEW j \in 1..Len(r), NEW m \in 1..Len(r), j < m
               PROVE  r[j] < r[m]
    OBVIOUS
  <2>1. CASE m \in 1..Len(s)
    <3>1. j \in 1..Len(s)
      BY <2>1, <1>4, <1>5
    <3> QED
      BY <2>1, <3>1, <1>4 DEF Lists
  <2>2. CASE m \notin 1..Len(s)
    <3>1. PICK i \in 1..Len(b) : m = Len(s) + i /\ r[m] = b[i]
      BY <2>2, <1>6
    <3>2. CASE j \in 1..Len(s)
      <4>1. r[j] = s[j] /\ r[j] \in Wanted(class, n)
        BY <3>2, <1>2, <1>4
      <4>3. r[j] \in Nat /\ b[i] \in Nat
        BY <1>1, <4>1 DEF Wanted
      <4>2. r[j] <= 3 * n /\ 3 * n < b[i]
        BY <4>1, <1>1, <1>3
      <4> QED
        BY <3>1, <4>3, <4>2
    <3>3. CASE j \notin 1..Len(s)
      <4>1. PICK k \in 1..Len(b) : j = Len(s) + k /\ r[j] = b[k]
        BY <3>3, <1>6
      <4>2. k < i
        BY <3>1, <4>1, <1>5
      <4> QED
        BY <3>1, <4>1, <4>2, <1>1
    <3> QED
      BY <3>2, <3>3
  <2> QED
    BY <2>1, <2>2
<1>10. Lists(class, n + 1, r)
  BY <1>4, <1>7, <1>8, <1>9 DEF Lists
<1> QED
  BY <1>10 DEF r, b

(* What Matching gives: the handles of the class, in order, none missed. *)
LEMMA MatchingExact ==
  ASSUME NEW ids \in Seq(Identity), NEW class \in Classes
  PROVE  Lists(class, Len(ids), Matching(ids, class))
<1> DEFINE len == Len(ids)
<1>1. PICK f \in [0..len -> Seq(Nat)] :
        /\ Matching(ids, class) = f[len]
        /\ f[0] = << >>
        /\ \A n \in 1..len : f[n] = f[n-1] \o Block(class, n - 1)
  BY MatchingLoop
<1> DEFINE T == {n \in 0..len : Lists(class, n, f[n])}
<1>2. len \in Nat
  OBVIOUS
<1>3. 0 \in T
  <2>1. Wanted(class, 0) = {}
    BY DEF Wanted
  <2>2. f[0] \in Seq(Nat) /\ Len(f[0]) = 0
    BY <1>1, <1>2
  <2>3. Lists(class, 0, f[0])
    BY <2>1, <2>2 DEF Lists
  <2> QED
    BY <2>3, <1>2
<1>4. \A n \in 0..len : n \in T /\ n < len => n + 1 \in T
  <2> SUFFICES ASSUME NEW n \in 0..len, Lists(class, n, f[n]), n < len
               PROVE  n + 1 \in 0..len /\ Lists(class, n + 1, f[n+1])
    OBVIOUS
  <2>1. n + 1 \in 1..len /\ (n + 1) - 1 = n /\ n + 1 \in 0..len /\ n \in Nat
    BY <1>2
  <2>2. f[n+1] = f[n] \o Block(class, n)
    BY <1>1, <2>1
  <2> QED
    BY <2>1, <2>2, ListsRound
<1>5. len \in T
  <2> HIDE DEF T, len
  <2>1. 0..len \subseteq T
    BY <1>2, <1>3, <1>4, InductionUpTo
  <2> QED
    BY <2>1, <1>2
<1> QED
  BY <1>1, <1>5


-----------------------------------------------------------------------------
(* The inductive invariant. *)

(* What a thread's fields say of each other: in a call it names the        *)
(* function and has done with its last signature; while it signs, the      *)
(* request is for the identity it wants; what it got is by that key.       *)
ThreadInOrder(th) ==
  /\ th.pc = "in" => th.fn \in Function /\ th.got = None
  /\ th.pc # "in" => th.fn = None /\ ~th.overtaken
  /\ th.pc = "sign" => th.req = th.wants /\ th.req # None /\ th.got = None
  /\ th.pc # "sign" => th.req = None
  /\ th.got # None => th.wants \in Identity /\ th.got = th.wants.key

(* Inside C_Initialize a thread has the mutex, and until the list of       *)
(* identities is there the module is not initialized.                      *)
InitializeLocked ==
  \A t \in Threads :
    /\ threads[t].pc \in {"connect", "identities", "cert"} => lock = t
    /\ threads[t].pc \in {"connect", "identities"} => state = None

(* Who is inside a call of a module that is not initialized was overtaken. *)
CallInitialized ==
  \A t \in Threads : threads[t].pc = "in" /\ state = None => threads[t].overtaken

(* The module's list is that of the avatar's list it was made from.  A key *)
(* chosen for signing is a private key, and what it was to mean it means.  *)
SignReady ==
  state # None =>
    /\ state.identities = Identities(state.raw)
    /\ state.sign_op # None =>
         /\ IsPrivateKey(state.identities, state.sign_op)
         /\ state.meant = Meant(state.raw, state.sign_op)

(* A search under way has returned its list as far as its position. *)
FindInStep ==
  state # None /\ state.find_op # None =>
    LET find == state.find_op IN
    /\ find.handles = Matching(state.identities, find.class)
    /\ find.position <= Len(find.handles)
    /\ Len(found) = find.position
    /\ \A i \in 1..Len(found) : found[i] = find.handles[i]

IndInv ==
  /\ TypeOK
  /\ \A t \in Threads : ThreadInOrder(threads[t])
  /\ InitializeLocked
  /\ CallInitialized
  /\ ClosedIsClean
  /\ SignReady
  /\ FindInStep

-----------------------------------------------------------------------------
(* Every step preserves the invariant. *)

(* A mistyped state does not arise by None being taken for a value. *)
LEMMA NoneApart ==
  /\ None \notin Nat
  /\ None \notin Identity
  /\ None \notin FindOp
  /\ None \notin ModuleState
  /\ None \notin Threads
  /\ None \notin Keys
BY NoneAssumption, Pkcs11Assumption

(* The fields of the module's state have their types. *)
LEMMA StateFields ==
  ASSUME TypeOK, state # None
  PROVE  /\ state \in ModuleState
         /\ state.identities \in Seq(Identity)
         /\ state.raw \in RawLists
         /\ state.session_open \in BOOLEAN
         /\ state.session_handle \in {0, 1}
         /\ state.sign_op \in Nat \cup {None}
         /\ state.meant \in Choice
         /\ state.find_op \in FindOp \cup {None}
<1>1. state \in ModuleState
  BY DEF TypeOK
<1> QED
  BY <1>1 DEF ModuleState

(* A step of one thread that leaves STATE and the search as they are. *)
LEMMA ThreadStep ==
  ASSUME IndInv, NEW t \in Threads, NEW th \in Thread,
         threads' = [threads EXCEPT ![t] = th],
         ThreadInOrder(th),
         th.pc = "in" /\ state = None => th.overtaken,
         th.pc \in {"connect", "identities", "cert"} => lock' = t,
         th.pc \in {"connect", "identities"} => state = None,
         lock' \in Threads \cup {None},
         lock' # lock => \A u \in Threads \ {t} : lock # u,
         import' \in BOOLEAN,
         UNCHANGED <<state, found>>
  PROVE  IndInv'
<1>1. /\ TypeOK
      /\ threads \in [Threads -> Thread]
  BY DEF IndInv, TypeOK
<1>2. /\ threads' \in [Threads -> Thread]
      /\ threads'[t] = th
      /\ \A u \in Threads : u # t => threads'[u] = threads[u]
  BY <1>1
<1>3. TypeOK'
  BY <1>1, <1>2 DEF TypeOK
<1>4. \A u \in Threads : ThreadInOrder(threads'[u])
  BY <1>2 DEF IndInv
<1>5. InitializeLocked'
  <2> SUFFICES ASSUME NEW u \in Threads
               PROVE /\ threads'[u].pc \in {"connect", "identities", "cert"} => lock' = u
                     /\ threads'[u].pc \in {"connect", "identities"} => state' = None
    BY DEF InitializeLocked
  <2>1. CASE u = t
    BY <2>1, <1>2
  <2>2. CASE u # t
    BY <2>2, <1>2 DEF IndInv, InitializeLocked
  <2> QED
    BY <2>1, <2>2
<1>6. CallInitialized'
  BY <1>2 DEF IndInv, CallInitialized
<1>7. ClosedIsClean' /\ SignReady' /\ FindInStep'
  BY DEF IndInv, ClosedIsClean, SignReady, FindInStep
<1> QED
  BY <1>3, <1>4, <1>5, <1>6, <1>7 DEF IndInv

(* is_initialized has looked: the thread is inside the function. *)
LEMMA EnterStep ==
  ASSUME IndInv, NEW t \in Threads, NEW f \in Function, Enter(t, f)
  PROVE  IndInv'
<1> DEFINE old == threads[t]
           th == Called(t, f)
<1>1. old \in Thread /\ ThreadInOrder(old) /\ old.pc = "idle"
  BY DEF IndInv, TypeOK, Enter
<1>2. /\ threads' = [threads EXCEPT ![t] = th]
      /\ UNCHANGED <<state, lock, found, import>>
      /\ state # None
  BY DEF Enter, OnlyThread, is_initialized
<1>3. /\ th \in Thread
      /\ th.pc = "in" /\ th.fn = f /\ th.got = None /\ th.req = old.req
  BY <1>1 DEF Called, Thread, Choice
<1> HIDE DEF th
<1>4. ThreadInOrder(th)
  BY <1>1, <1>3 DEF ThreadInOrder
<1> QED
  BY <1>2, <1>3, <1>4, ThreadStep DEF IndInv, TypeOK

(* A thread that has come back from its call. *)
Back(t, th) ==
  /\ threads' = [threads EXCEPT ![t] = th]
  /\ th.pc = "idle"
  /\ ThreadInOrder(th)

(* It is in order, whatever became of its handle ... *)
LEMMA Returned ==
  ASSUME IndInv, NEW t \in Threads, threads[t].pc = "in", NEW session \in {0, 1},
         Return(t, [threads[t] EXCEPT !.session = session])
  PROVE  \E th \in Thread : Back(t, th)
<1> DEFINE old == threads[t]
           th == [[old EXCEPT !.session = session]
                    EXCEPT !.pc = "idle", !.fn = None, !.overtaken = FALSE]
<1>1. old \in Thread /\ ThreadInOrder(old) /\ old.pc = "in"
  BY DEF IndInv, TypeOK
<1>2. threads' = [threads EXCEPT ![t] = th]
  BY DEF Return
<1>3. /\ th \in Thread
      /\ th.pc = "idle" /\ th.fn = None /\ ~th.overtaken
      /\ th.req = old.req /\ th.got = old.got
  BY <1>1 DEF Thread
<1> HIDE DEF th
<1>4. ThreadInOrder(th)
  BY <1>1, <1>3 DEF ThreadInOrder
<1> QED
  BY <1>2, <1>3, <1>4 DEF Back

(* ... and when it has kept it. *)
LEMMA ReturnedAlike ==
  ASSUME IndInv, NEW t \in Threads, threads[t].pc = "in", Return(t, threads[t])
  PROVE  \E th \in Thread : Back(t, th)
<1>1. threads[t] \in Thread
  BY DEF IndInv, TypeOK
<1>2. /\ threads[t].session \in {0, 1}
      /\ threads[t] = [threads[t] EXCEPT !.session = threads[t].session]
  BY <1>1 DEF Thread
<1> QED
  BY <1>2, Returned

(* The thread as it is when its call returns, all else unchanged. *)
LEMMA RefuseStep ==
  ASSUME IndInv, NEW t \in Threads, threads[t].pc = "in", Refuse(t)
  PROVE  IndInv'
<1>1. Return(t, threads[t]) /\ UNCHANGED <<state, lock, found, import>>
  BY DEF Refuse
<1>2. PICK th \in Thread : Back(t, th)
  BY <1>1, ReturnedAlike
<1> QED
  BY <1>1, <1>2, ThreadStep DEF IndInv, TypeOK, Back

(* C_Sign without a key chosen. *)
LEMMA SignRefusedStep ==
  ASSUME IndInv, NEW t \in Threads, SignRefused(t)
  PROVE  IndInv'
BY RefuseStep DEF SignRefused, Refuse

(* C_Sign is back with a signature ... *)
LEMMA SignDoneStep ==
  ASSUME IndInv, NEW t \in Threads, SignDone(t)
  PROVE  IndInv'
<1> DEFINE old == threads[t]
           th == [old EXCEPT !.pc = "idle", !.req = None, !.got = old.req.key]
<1>1. old \in Thread /\ ThreadInOrder(old) /\ old.pc = "sign"
  BY DEF IndInv, TypeOK, SignDone
<1>2. /\ threads' = [threads EXCEPT ![t] = th]
      /\ UNCHANGED <<state, lock, found, import>>
  BY DEF SignDone, OnlyThread
<1>3. /\ old.req \in Identity /\ old.req = old.wants
      /\ old.fn = None /\ ~old.overtaken
  BY <1>1 DEF ThreadInOrder, Thread, Choice
<1>4. old.req.key \in Keys
  BY <1>3 DEF Identity
<1>5. /\ th \in Thread
      /\ th.pc = "idle" /\ th.fn = None /\ ~th.overtaken
      /\ th.got = old.req.key /\ th.req = None /\ th.wants = old.wants
  BY <1>1, <1>3, <1>4 DEF Thread, Choice
<1> HIDE DEF th
<1>6. ThreadInOrder(th)
  BY <1>3, <1>5 DEF ThreadInOrder
<1> QED
  BY <1>2, <1>5, <1>6, ThreadStep DEF IndInv, TypeOK

(* ... or without. *)
LEMMA SignDeviceErrorStep ==
  ASSUME IndInv, NEW t \in Threads, SignDeviceError(t)
  PROVE  IndInv'
<1> DEFINE old == threads[t]
           th == [old EXCEPT !.pc = "idle", !.req = None, !.wants = None]
<1>1. old \in Thread /\ ThreadInOrder(old) /\ old.pc = "sign"
  BY DEF IndInv, TypeOK, SignDeviceError
<1>2. /\ threads' = [threads EXCEPT ![t] = th]
      /\ UNCHANGED <<state, lock, found, import>>
  BY DEF SignDeviceError, OnlyThread
<1>3. /\ th \in Thread
      /\ th.pc = "idle" /\ th.fn = None /\ ~th.overtaken
      /\ th.got = None /\ th.req = None
  BY <1>1 DEF Thread, Choice, ThreadInOrder
<1> HIDE DEF th
<1>4. ThreadInOrder(th)
  BY <1>3 DEF ThreadInOrder
<1> QED
  BY <1>2, <1>3, <1>4, ThreadStep DEF IndInv, TypeOK

(* The process ends: nobody is inside a call any more. *)
LEMMA PanicStep ==
  ASSUME IndInv, NEW t \in Threads, Panic(t)
  PROVE  IndInv'
<1>1. /\ state = None /\ lock = None /\ threads' = [u \in Threads |-> Idle]
      /\ found' = << >> /\ UNCHANGED <<state, lock, import>>
  BY DEF Panic
<1>2. Idle \in Thread /\ ThreadInOrder(Idle) /\ Idle.pc = "idle"
  BY DEF Idle, Thread, Choice, ThreadInOrder
<1>3. /\ threads' \in [Threads -> Thread]
      /\ \A u \in Threads : threads'[u] = Idle
  BY <1>1, <1>2
<1>4. TypeOK'
  BY <1>1, <1>3 DEF IndInv, TypeOK
<1>5. \A u \in Threads : ThreadInOrder(threads'[u])
  BY <1>2, <1>3
<1>6. InitializeLocked' /\ CallInitialized'
  BY <1>2, <1>3 DEF InitializeLocked, CallInitialized
<1>7. ClosedIsClean' /\ SignReady' /\ FindInStep'
  BY <1>1 DEF ClosedIsClean, SignReady, FindInStep
<1> QED
  BY <1>4, <1>5, <1>6, <1>7 DEF IndInv

(* The steps of C_Initialize that leave STATE alone: only where the thread *)
(* is changes, and it keeps, takes or releases the mutex.                  *)
LEMMA InitializeMove ==
  ASSUME IndInv, NEW t \in Threads,
         NEW pc \in {"idle", "connect", "identities", "cert"},
         threads[t].pc \in {"idle", "connect", "identities", "cert"},
         threads' = [threads EXCEPT ![t].pc = pc],
         pc \in {"connect", "identities"} => state = None,
         pc # "idle" => lock' = t,
         lock' \in Threads \cup {None},
         lock' # lock => \A u \in Threads \ {t} : lock # u,
         import' \in BOOLEAN,
         UNCHANGED <<state, found>>
  PROVE  IndInv'
<1> DEFINE old == threads[t]
           th == [old EXCEPT !.pc = pc]
<1>1. old \in Thread /\ ThreadInOrder(old)
      /\ old.pc \in {"idle", "connect", "identities", "cert"}
  BY DEF IndInv, TypeOK
<1>2. threads' = [threads EXCEPT ![t] = th]
  BY <1>1
<1>3. /\ th \in Thread
      /\ th.pc = pc /\ th.fn = old.fn /\ th.overtaken = old.overtaken
      /\ th.got = old.got /\ th.req = old.req /\ th.wants = old.wants
  BY <1>1 DEF Thread
<1> HIDE DEF th
<1>4. ThreadInOrder(th)
  BY <1>1, <1>3 DEF ThreadInOrder
<1> QED
  BY <1>2, <1>3, <1>4, ThreadStep

(* C_Initialize takes the mutex and keeps it. *)
LEMMA InitializeBeginStep ==
  ASSUME IndInv, NEW t \in Threads, InitializeBegin(t)
  PROVE  IndInv'
<1>1. import \in BOOLEAN
  BY DEF IndInv, TypeOK
<1>2. \A u \in Threads : lock # u
  BY NoneApart DEF InitializeBegin
<1> QED
  BY <1>1, <1>2, InitializeMove DEF InitializeBegin, is_initialized

(* The avatar has accepted the connection. *)
LEMMA InitializeConnectedStep ==
  ASSUME IndInv, NEW t \in Threads, InitializeConnected(t)
  PROVE  IndInv'
<1>1. /\ threads' = [threads EXCEPT ![t].pc = "identities"]
      /\ threads[t].pc = "connect"
      /\ UNCHANGED <<state, lock, found, import>>
  <2>1. threads[t] \in Thread /\ threads \in [Threads -> Thread]
    BY DEF IndInv, TypeOK
  <2> QED
    BY <2>1 DEF InitializeConnected, OnlyThread
<1>2. lock = t /\ state = None /\ import \in BOOLEAN
  BY <1>1 DEF IndInv, InitializeLocked, TypeOK
<1> QED
  BY <1>1, <1>2, InitializeMove

(* C_Initialize fails, and the mutex is given back. *)
LEMMA InitializeFailsStep ==
  ASSUME IndInv, NEW t \in Threads, InitializeFails(t)
  PROVE  IndInv'
<1>1. lock = t /\ import \in BOOLEAN
  BY DEF IndInv, InitializeLocked, TypeOK, InitializeFails
<1> QED
  BY <1>1, InitializeMove DEF InitializeFails

(* C_Initialize is over, and the mutex is given back. *)
LEMMA InitializeDoneStep ==
  ASSUME IndInv, NEW t \in Threads, InitializeDone(t)
  PROVE  IndInv'
<1>1. lock = t /\ import' \in BOOLEAN
  BY DEF IndInv, InitializeLocked, TypeOK, InitializeDone
<1> QED
  BY <1>1, InitializeMove DEF InitializeDone


(* The list arrives: the module starts clean. *)
LEMMA InitializeIdentitiesStep ==
  ASSUME IndInv, NEW t \in Threads, NEW raw \in RawLists, InitializeIdentities(t, raw)
  PROVE  IndInv'
<1> DEFINE s == [identities |-> Identities(raw), raw |-> raw,
                 session_open |-> FALSE, session_handle |-> 0,
                 sign_op |-> None, meant |-> None, find_op |-> None]
           old == threads[t]
           th == [old EXCEPT !.pc = "cert"]
<1>1. raw \in Seq(Raw)
  BY Pkcs11Assumption
<1>2. Identities(raw) \in Seq(Identity)
  BY <1>1, IdentitiesExact DEF Holds
<1>3. s \in ModuleState
  BY <1>2 DEF ModuleState, Choice
<1>4. /\ threads \in [Threads -> Thread]
      /\ old \in Thread /\ ThreadInOrder(old)
      /\ old.pc = "identities" /\ lock = t
  BY DEF IndInv, TypeOK, InitializeLocked, InitializeIdentities
<1>5. /\ state' = s
      /\ threads' = [threads EXCEPT ![t] = th]
      /\ UNCHANGED <<lock, found, import>>
  BY <1>4 DEF InitializeIdentities
<1>6. /\ s # None
      /\ s.identities = Identities(raw) /\ s.raw = raw
      /\ s.sign_op = None /\ s.find_op = None
  BY <1>3, NoneApart
<1> HIDE DEF s
<1>7. /\ th \in Thread /\ th.pc = "cert" /\ th.fn = old.fn
      /\ th.overtaken = old.overtaken /\ th.wants = old.wants
      /\ th.req = old.req /\ th.got = old.got
  BY <1>4 DEF Thread
<1> HIDE DEF th
<1>8. ThreadInOrder(th)
  BY <1>4, <1>7 DEF ThreadInOrder
<1>9. /\ threads' \in [Threads -> Thread]
      /\ threads'[t] = th /\ \A u \in Threads : u # t => threads'[u] = threads[u]
  BY <1>4, <1>5, <1>7
<1>10. \A u \in Threads : u # t => threads[u].pc \notin {"connect", "identities", "cert"}
  BY <1>4 DEF IndInv, InitializeLocked
<1>11. TypeOK'
  BY <1>3, <1>5, <1>9 DEF IndInv, TypeOK
<1>12. \A u \in Threads : ThreadInOrder(threads'[u])
  BY <1>8, <1>9 DEF IndInv
<1>13. InitializeLocked'
  BY <1>4, <1>5, <1>7, <1>9, <1>10 DEF InitializeLocked
<1>14. CallInitialized'
  BY <1>5, <1>6 DEF CallInitialized
<1>15. ClosedIsClean' /\ SignReady' /\ FindInStep'
  BY <1>5, <1>6 DEF ClosedIsClean, SignReady, FindInStep
<1> QED
  BY <1>11, <1>12, <1>13, <1>14, <1>15 DEF IndInv

(* STATE is taken away; who is inside a call then is overtaken. *)
LEMMA FinalizeStep ==
  ASSUME IndInv, NEW t \in Threads, Finalize(t)
  PROVE  IndInv'
<1> DEFINE after(u) == [threads[u] EXCEPT !.session = IF u = t THEN 0 ELSE @,
                                          !.overtaken = @ \/ threads[u].pc = "in"]
<1>1. /\ threads \in [Threads -> Thread]
      /\ state' = None /\ found' = << >> /\ lock = None
      /\ threads' = [u \in Threads |-> after(u)]
      /\ UNCHANGED <<lock, import>>
  BY DEF IndInv, TypeOK, Finalize
<1>2. ASSUME NEW u \in Threads
      PROVE  /\ after(u) \in Thread
             /\ after(u).pc = threads[u].pc
             /\ after(u).overtaken = (threads[u].overtaken \/ threads[u].pc = "in")
             /\ after(u).fn = threads[u].fn /\ after(u).wants = threads[u].wants
             /\ after(u).req = threads[u].req /\ after(u).got = threads[u].got
  <2>1. threads[u] \in Thread
    BY <1>1
  <2>2. /\ (IF u = t THEN 0 ELSE threads[u].session) \in {0, 1}
        /\ (threads[u].overtaken \/ threads[u].pc = "in") \in BOOLEAN
    BY <2>1 DEF Thread
  <2> QED
    BY <2>1, <2>2 DEF Thread
<1> HIDE DEF after
<1>3. ASSUME NEW u \in Threads
      PROVE  ThreadInOrder(after(u))
  <2>1. ThreadInOrder(threads[u])
    BY DEF IndInv
  <2>2. threads[u].pc # "in" => ~after(u).overtaken
    BY <1>2, <2>1 DEF ThreadInOrder
  <2> QED
    BY <1>2, <2>1, <2>2 DEF ThreadInOrder
<1>4. /\ threads' \in [Threads -> Thread]
      /\ \A u \in Threads : threads'[u] = after(u)
  BY <1>1, <1>2
<1>5. TypeOK'
  BY <1>1, <1>4 DEF IndInv, TypeOK
<1>6. InitializeLocked'
  BY <1>1, <1>2, <1>4 DEF IndInv, InitializeLocked
<1>7. CallInitialized'
  BY <1>2, <1>4 DEF CallInitialized
<1>8. ClosedIsClean' /\ SignReady' /\ FindInStep'
  BY <1>1 DEF ClosedIsClean, SignReady, FindInStep
<1> QED
  BY <1>3, <1>4, <1>5, <1>6, <1>7, <1>8 DEF IndInv

(* The import runs, or nothing happens. *)
LEMMA RunImportStep ==
  ASSUME IndInv, RunImport \/ UNCHANGED vars
  PROVE  IndInv'
<1>1. /\ UNCHANGED <<state, lock, threads, found>>
      /\ import' \in BOOLEAN
  BY DEF IndInv, TypeOK, RunImport, vars
<1>2. TypeOK'
  BY <1>1 DEF IndInv, TypeOK
<1>3. \A u \in Threads : ThreadInOrder(threads[u])'
  BY <1>1 DEF IndInv
<1>4. InitializeLocked' /\ CallInitialized'
  BY <1>1 DEF IndInv, InitializeLocked, CallInitialized
<1>5. ClosedIsClean' /\ SignReady' /\ FindInStep'
  BY <1>1 DEF IndInv, ClosedIsClean, SignReady, FindInStep
<1> QED
  BY <1>2, <1>3, <1>4, <1>5 DEF IndInv

-----------------------------------------------------------------------------
(* The functions under the second lock. *)

(* A step within a call: the thread returns or goes on to sign, the mutex  *)
(* stays free.  What must hold of the state after it.                      *)
LEMMA CallReturns ==
  ASSUME IndInv, NEW t \in Threads, NEW th \in Thread,
         threads' = [threads EXCEPT ![t] = th],
         th.pc \in {"idle", "sign"}, ThreadInOrder(th),
         state' \in ModuleState, found' \in Seq(Nat),
         lock = None, UNCHANGED <<lock, import>>,
         ClosedIsClean', SignReady', FindInStep'
  PROVE  IndInv'
<1>1. /\ threads \in [Threads -> Thread]
      /\ threads' \in [Threads -> Thread]
      /\ threads'[t] = th
      /\ \A u \in Threads : u # t => threads'[u] = threads[u]
  BY DEF IndInv, TypeOK
<1>2. TypeOK'
  BY <1>1 DEF IndInv, TypeOK
<1>3. \A u \in Threads : ThreadInOrder(threads'[u])
  BY <1>1 DEF IndInv
<1>4. InitializeLocked'
  BY <1>1, NoneApart DEF IndInv, InitializeLocked
<1>5. CallInitialized'
  BY NoneApart DEF CallInitialized
<1> QED
  BY <1>2, <1>3, <1>4, <1>5 DEF IndInv

(* C_OpenSession: what the module has kept of a session still open it      *)
(* hands over.                                                             *)
LEMMA OpenSessionStep ==
  ASSUME IndInv, NEW t \in Threads, OpenSession(t)
  PROVE  IndInv'
<1> DEFINE s == [state EXCEPT !.session_open = TRUE, !.session_handle = 1]
<1>1. /\ threads[t].pc = "in" /\ lock = None /\ state # None
      /\ state' = s /\ UNCHANGED <<lock, found, import>>
      /\ Return(t, [threads[t] EXCEPT !.session = 1])
      /\ found \in Seq(Nat)
  BY DEF IndInv, TypeOK, OpenSession, Within
<1>2. PICK th \in Thread : Back(t, th)
  BY <1>1, Returned
<1>3. /\ s \in ModuleState
      /\ s.session_open /\ s.identities = state.identities /\ s.raw = state.raw
      /\ s.sign_op = state.sign_op /\ s.meant = state.meant
      /\ s.find_op = state.find_op
  BY <1>1, StateFields DEF IndInv, ModuleState
<1> HIDE DEF s
<1>4. ClosedIsClean'
  BY <1>1, <1>3 DEF ClosedIsClean
<1>5. SignReady' /\ FindInStep'
  BY <1>1, <1>3 DEF IndInv, SignReady, FindInStep
<1> QED
  BY <1>1, <1>2, <1>3, <1>4, <1>5, CallReturns DEF Back

(* The state without a session. *)
LEMMA NoSessionState ==
  ASSUME IndInv, state # None, state' = NoSession(state)
  PROVE  state' \in ModuleState /\ ClosedIsClean' /\ SignReady' /\ FindInStep'
<1> DEFINE s == NoSession(state)
<1>1. /\ s \in ModuleState
      /\ s.sign_op = None /\ s.find_op = None
      /\ s.identities = state.identities /\ s.raw = state.raw
  BY StateFields DEF IndInv, ModuleState, NoSession, Choice
<1> HIDE DEF s
<1>2. state' = s
  BY DEF s
<1> QED
  BY <1>1, <1>2 DEF IndInv, ClosedIsClean, SignReady, FindInStep

(* C_CloseSession, accepted or not. *)
LEMMA CloseSessionStep ==
  ASSUME IndInv, NEW t \in Threads, CloseSession(t)
  PROVE  IndInv'
<1>1. /\ threads[t].pc = "in" /\ lock = None /\ state # None
      /\ UNCHANGED <<lock, import>> /\ import \in BOOLEAN
      /\ Return(t, [threads[t] EXCEPT !.session = 0])
  BY DEF IndInv, TypeOK, CloseSession, Within
<1>2. PICK th \in Thread : Back(t, th)
  BY <1>1, Returned
<1>3. CASE SessionValid(t)
  <2>1. state' = NoSession(state) /\ found' = << >>
    BY <1>3 DEF CloseSession
  <2>2. found' \in Seq(Nat)
    BY <2>1
  <2> QED
    BY <1>1, <1>2, <2>1, <2>2, NoSessionState, CallReturns DEF Back
<1>4. CASE ~SessionValid(t)
  <2>1. UNCHANGED <<state, found>>
    BY <1>4 DEF CloseSession
  <2> QED
    BY <1>1, <1>2, <2>1, ThreadStep, NoneApart DEF Back
<1> QED
  BY <1>3, <1>4

(* C_CloseAllSessions, beside the calls of others too. *)
LEMMA CloseAllSessionsStep ==
  ASSUME IndInv, NEW t \in Threads, CloseAllSessions(t)
  PROVE  IndInv'
<1>1. /\ threads[t].pc = "in" /\ lock = None /\ state # None
      /\ state' = NoSession(state) /\ found' = << >> /\ UNCHANGED <<lock, import>>
      /\ Return(t, [threads[t] EXCEPT !.session = 0])
  BY DEF CloseAllSessions, Within
<1>2. PICK th \in Thread : Back(t, th)
  BY <1>1, Returned
<1>3. found' \in Seq(Nat)
  BY <1>1
<1> QED
  BY <1>1, <1>2, <1>3, NoSessionState, CallReturns DEF Back


(* A call in a session that is open leaves it open.  It leaves the chosen  *)
(* key, or takes it away, or chooses one and notes what it means.          *)
LEMMA SessionCall ==
  ASSUME IndInv, NEW t \in Threads, NEW th \in Thread,
         lock = None, UNCHANGED <<lock, import>>,
         state # None, SessionValid(t),
         threads' = [threads EXCEPT ![t] = th],
         th.pc \in {"idle", "sign"}, ThreadInOrder(th),
         NEW sign_op \in Nat \cup {None}, NEW meant \in Choice,
         NEW find_op \in FindOp \cup {None},
         state' = [state EXCEPT !.sign_op = sign_op, !.meant = meant,
                                !.find_op = find_op],
         found' \in Seq(Nat),
         sign_op # None =>
           /\ IsPrivateKey(state.identities, sign_op)
           /\ meant = Meant(state.raw, sign_op),
         FindInStep'
  PROVE  IndInv'
<1>1. /\ state' \in ModuleState
      /\ state'.identities = state.identities /\ state'.raw = state.raw
      /\ state'.session_open = state.session_open
      /\ state'.sign_op = sign_op /\ state'.meant = meant
  BY StateFields DEF IndInv, ModuleState
<1>2. ClosedIsClean'
  BY <1>1 DEF ClosedIsClean, SessionValid
<1>3. SignReady'
  BY <1>1 DEF IndInv, SignReady
<1> QED
  BY <1>1, <1>2, <1>3, CallReturns

(* The functions of the search return and leave the chosen key. *)
LEMMA FindCall ==
  ASSUME IndInv, NEW t \in Threads, NEW f, Within(t, f), SessionValid(t),
         Return(t, threads[t]), UNCHANGED <<lock, import>>,
         NEW find_op \in FindOp \cup {None},
         state' = [state EXCEPT !.find_op = find_op],
         found' \in Seq(Nat), FindInStep'
  PROVE  IndInv'
<1>1. threads[t].pc = "in" /\ lock = None /\ state # None
  BY DEF Within
<1>2. /\ state \in ModuleState
      /\ state.sign_op \in Nat \cup {None} /\ state.meant \in Choice
  BY <1>1, StateFields DEF IndInv
<1>3. PICK th \in Thread : Back(t, th)
  BY <1>1, ReturnedAlike
<1>4. state' = [state EXCEPT !.sign_op = state.sign_op, !.meant = state.meant,
                             !.find_op = find_op]
  BY <1>2 DEF ModuleState
<1>5. state.sign_op # None =>
        /\ IsPrivateKey(state.identities, state.sign_op)
        /\ state.meant = Meant(state.raw, state.sign_op)
  BY <1>1 DEF IndInv, SignReady
<1> QED
  BY <1>1, <1>2, <1>3, <1>4, <1>5, SessionCall DEF Back

(* A search starts with the list that Matching computes. *)
LEMMA FindObjectsInitStep ==
  ASSUME IndInv, NEW t \in Threads, NEW class \in Templates, FindObjectsInit(t, class)
  PROVE  IndInv'
<1> DEFINE handles == Matching(state.identities, class)
           find == [class |-> class, handles |-> handles, position |-> 0]
<1>1. /\ Within(t, "C_FindObjectsInit") /\ SessionValid(t)
      /\ Return(t, threads[t]) /\ UNCHANGED <<lock, import>>
      /\ state' = [state EXCEPT !.find_op = find] /\ found' = << >>
      /\ state # None
  BY DEF FindObjectsInit, Within
<1>2. class \in Classes
  BY TemplatesAssumption
<1>3. state \in ModuleState /\ state.identities \in Seq(Identity)
  BY <1>1, StateFields DEF IndInv
<1>4. handles \in Seq(Nat)
  BY <1>2, <1>3, MatchingExact DEF Lists
<1> HIDE DEF handles
<1>5. /\ find \in FindOp /\ find.class = class /\ find.handles = handles
      /\ find.position = 0
  BY <1>2, <1>4 DEF FindOp
<1> HIDE DEF find
<1>6. state'.find_op = find /\ state'.identities = state.identities
  BY <1>1, <1>3 DEF ModuleState
<1>7. found' \in Seq(Nat) /\ Len(found') = 0
  BY <1>1
<1>8. Len(handles) \in Nat
  BY <1>4
<1>9. FindInStep'
  BY <1>5, <1>6, <1>7, <1>8 DEF FindInStep, handles
<1> QED
  BY <1>1, <1>5, <1>7, <1>9, FindCall

(* A search ends. *)
LEMMA FindObjectsFinalStep ==
  ASSUME IndInv, NEW t \in Threads, FindObjectsFinal(t)
  PROVE  IndInv'
<1>1. /\ Within(t, "C_FindObjectsFinal") /\ SessionValid(t)
      /\ Return(t, threads[t]) /\ UNCHANGED <<lock, import>>
      /\ state' = [state EXCEPT !.find_op = None] /\ found' = << >>
      /\ state # None
  BY DEF FindObjectsFinal, Within
<1>2. state \in ModuleState
  BY <1>1, StateFields DEF IndInv
<1>3. state'.find_op = None
  BY <1>1, <1>2 DEF ModuleState
<1>4. found' \in Seq(Nat)
  BY <1>1
<1>5. FindInStep'
  BY <1>3 DEF FindInStep
<1> QED
  BY <1>1, <1>4, <1>5, FindCall

(* The next handles follow those returned before. *)
LEMMA FindObjectsStep ==
  ASSUME IndInv, NEW t \in Threads, NEW max_count \in Counts, FindObjects(t, max_count)
  PROVE  IndInv'
<1> DEFINE find == state.find_op
           handles == find.handles
           position == find.position
           remaining == Len(handles) - position
           to_return == IF remaining < max_count THEN remaining ELSE max_count
           end == position + to_return
           more == SubSeq(handles, position + 1, end)
           next == [find EXCEPT !.position = end]
<1>1. /\ Within(t, "C_FindObjects") /\ SessionValid(t) /\ find # None
      /\ Return(t, threads[t]) /\ UNCHANGED <<lock, import>>
      /\ state # None /\ found' = found \o more
  BY DEF FindObjects, Within
<1>2. /\ state \in ModuleState /\ find \in FindOp /\ found \in Seq(Nat)
  BY <1>1, StateFields DEF IndInv, TypeOK
<1>3. state' = [state EXCEPT !.find_op = next]
  BY <1>2 DEF FindObjects, ModuleState
<1>4. handles \in Seq(Nat) /\ position \in Nat /\ max_count \in Nat
  BY <1>2, Pkcs11Assumption DEF FindOp
<1>5. /\ handles = Matching(state.identities, find.class)
      /\ position <= Len(handles) /\ Len(found) = position
      /\ \A i \in 1..Len(found) : found[i] = handles[i]
  BY <1>1 DEF IndInv, FindInStep
<1>6. Len(handles) \in Nat /\ end \in Nat /\ position <= end /\ end <= Len(handles)
  BY <1>4, <1>5
<1>7. /\ next \in FindOp /\ next.class = find.class /\ next.handles = handles
      /\ next.position = end
  BY <1>2, <1>6 DEF FindOp
<1>8. state'.find_op = next /\ state'.identities = state.identities
  BY <1>2, <1>3, <1>7 DEF ModuleState
<1> HIDE DEF next, end, handles, position
<1>9. /\ more \in Seq(Nat) /\ Len(more) = end - position
      /\ \A i \in 1..end - position : more[i] = handles[position + i]
  BY <1>4, <1>6
<1> HIDE DEF more
<1>10. /\ found' \in Seq(Nat) /\ Len(found') = end
       /\ \A i \in 1..Len(found') : found'[i] = handles[i]
  <2>1. found' \in Seq(Nat) /\ Len(found') = end
    BY <1>1, <1>2, <1>4, <1>5, <1>6, <1>9
  <2>2. ASSUME NEW i \in 1..Len(found')
        PROVE  found'[i] = handles[i]
    <3>1. CASE i <= position
      BY <1>1, <1>2, <1>4, <1>5, <1>9, <3>1
    <3>2. CASE ~(i <= position)
      <4>1. i - position \in 1..end - position /\ position + (i - position) = i
        BY <1>4, <1>6, <2>1, <3>2
      <4>2. Len(found) < i /\ i <= Len(found) + Len(more) /\ i \in Nat
        BY <1>4, <1>5, <1>6, <1>9, <2>1, <3>2
      <4>3. (found \o more)[i] = more[i - Len(found)]
        BY <1>2, <1>9, <4>2
      <4> QED
        BY <1>1, <1>5, <1>9, <4>1, <4>3
    <3> QED
      BY <3>1, <3>2
  <2> QED
    BY <2>1, <2>2
<1>11. FindInStep'
  BY <1>5, <1>6, <1>7, <1>8, <1>10 DEF FindInStep
<1> QED
  BY <1>1, <1>3, <1>7, <1>10, <1>11, FindCall


(* The functions of signing leave the search. *)
LEMMA SignCall ==
  ASSUME IndInv, NEW t \in Threads, NEW th \in Thread, NEW f,
         Within(t, f), SessionValid(t), UNCHANGED <<lock, found, import>>,
         threads' = [threads EXCEPT ![t] = th],
         th.pc \in {"idle", "sign"}, ThreadInOrder(th),
         NEW sign_op \in Nat \cup {None}, NEW meant \in Choice,
         state' = [state EXCEPT !.sign_op = sign_op, !.meant = meant],
         sign_op # None =>
           /\ IsPrivateKey(state.identities, sign_op)
           /\ meant = Meant(state.raw, sign_op)
  PROVE  IndInv'
<1>1. state # None /\ lock = None
  BY DEF Within
<1>2. state \in ModuleState /\ state.find_op \in FindOp \cup {None}
  BY <1>1, StateFields DEF IndInv
<1>3. state' = [state EXCEPT !.sign_op = sign_op, !.meant = meant,
                             !.find_op = state.find_op]
  BY <1>2 DEF ModuleState
<1>4. state'.find_op = state.find_op /\ state'.identities = state.identities
  BY <1>2 DEF ModuleState
<1>5. FindInStep'
  BY <1>1, <1>4 DEF IndInv, FindInStep
<1>6. found' \in Seq(Nat)
  BY DEF IndInv, TypeOK
<1> QED
  BY <1>1, <1>2, <1>3, <1>5, <1>6, SessionCall

(* A private key that passed the check is in the list, and it is the one   *)
(* its handle means.                                                       *)
LEMMA ChosenKey ==
  ASSUME IndInv, state # None, NEW key \in Nat, IsPrivateKey(state.identities, key)
  PROVE  /\ Meant(state.raw, key) \in Identity
         /\ state.identities[handle_to_identity_index(key).index + 1]
              = Meant(state.raw, key)
<1>1. state.raw \in Seq(Raw) /\ state.identities = Identities(state.raw)
  BY StateFields, Pkcs11Assumption DEF IndInv, SignReady
<1> QED
  BY <1>1, MeantExact

(* A private key is chosen for signing. *)
LEMMA SignInitStep ==
  ASSUME IndInv, NEW t \in Threads, state # None,
         NEW key \in 1..3 * Len(state.identities), SignInit(t, key)
  PROVE  IndInv'
<1> DEFINE meant == Meant(state.raw, key)
<1>1. /\ Within(t, "C_SignInit") /\ SessionValid(t)
      /\ IsPrivateKey(state.identities, key)
      /\ state' = [state EXCEPT !.sign_op = key, !.meant = meant]
      /\ UNCHANGED <<lock, found, import>>
      /\ threads[t].pc = "in" /\ Return(t, threads[t])
  BY DEF SignInit, Within
<1>2. key \in Nat
  BY StateFields DEF IndInv
<1>3. meant \in Choice
  BY <1>1, <1>2, ChosenKey DEF Choice
<1>4. PICK th \in Thread : Back(t, th)
  BY <1>1, ReturnedAlike
<1> HIDE DEF meant
<1> QED
  BY <1>1, <1>2, <1>3, <1>4, SignCall DEF Back, meant

(* The request names the key that was chosen. *)
LEMMA SignBeginStep ==
  ASSUME IndInv, NEW t \in Threads, SignBegin(t)
  PROVE  IndInv'
<1> DEFINE old == threads[t]
           req == state.identities[handle_to_identity_index(state.sign_op).index + 1]
           wants == state.meant
           th == [old EXCEPT !.pc = "sign", !.fn = None, !.overtaken = FALSE,
                             !.wants = wants, !.req = req]
<1>1. /\ Within(t, "C_Sign") /\ SessionValid(t) /\ state.sign_op # None
      /\ state # None /\ state' = [state EXCEPT !.sign_op = None, !.meant = None]
      /\ UNCHANGED <<lock, found, import>>
      /\ old \in Thread /\ ThreadInOrder(old) /\ old.pc = "in"
      /\ threads \in [Threads -> Thread]
  BY DEF SignBegin, Within, IndInv, TypeOK
<1>2. threads' = [threads EXCEPT ![t] = th]
  <2>1. threads' = [threads EXCEPT ![t].pc = "sign", ![t].fn = None,
                      ![t].overtaken = FALSE, ![t].wants = wants, ![t].req = req]
    BY DEF SignBegin
  <2> HIDE DEF req, wants
  <2> QED
    BY <1>1, <2>1
<1>3. state.sign_op \in Nat
  BY <1>1, StateFields DEF IndInv
<1>4. req = wants /\ req \in Identity
  BY <1>1, <1>3, ChosenKey DEF IndInv, SignReady
<1> HIDE DEF req, wants
<1>5. old.got = None
  BY <1>1 DEF ThreadInOrder
<1>6. /\ th \in Thread /\ th.pc = "sign" /\ th.fn = None /\ ~th.overtaken
      /\ th.req = req /\ th.wants = wants /\ th.got = None
  BY <1>1, <1>4, <1>5 DEF Thread, Choice
<1> HIDE DEF th
<1>7. ThreadInOrder(th)
  BY <1>4, <1>6, NoneApart DEF ThreadInOrder
<1>8. None \in Choice
  BY DEF Choice
<1> QED
  BY <1>1, <1>2, <1>6, <1>7, <1>8, SignCall

(* C_Sign for the size alone: the operation is gone. *)
LEMMA SizeQueryStep ==
  ASSUME IndInv, NEW t \in Threads, SizeQuery(t)
  PROVE  IndInv'
<1>1. /\ Within(t, "C_Sign") /\ SessionValid(t)
      /\ state' = [state EXCEPT !.sign_op = None, !.meant = None]
      /\ UNCHANGED <<lock, found, import>>
      /\ threads[t].pc = "in" /\ Return(t, threads[t])
  BY DEF SizeQuery, Within
<1>2. PICK th \in Thread : Back(t, th)
  BY <1>1, ReturnedAlike
<1>3. None \in Choice
  BY DEF Choice
<1> QED
  BY <1>1, <1>2, <1>3, SignCall DEF Back

-----------------------------------------------------------------------------
(* The theorems. *)

(* Nothing is initialised at the start. *)
LEMMA InitIndInv == Init => IndInv
<1> SUFFICES ASSUME Init PROVE IndInv
  OBVIOUS
<1>1. Idle \in Thread
  BY DEF Idle, Thread, Choice
<1>2. \A t \in Threads : threads[t] = Idle
  BY DEF Init
<1>3. << >> \in Seq(Nat)
  OBVIOUS
<1>4. TypeOK
  BY <1>1, <1>3 DEF Init, TypeOK
<1>5. ThreadInOrder(Idle)
  BY DEF Idle, ThreadInOrder
<1>6. /\ \A t \in Threads : ThreadInOrder(threads[t])
      /\ InitializeLocked /\ CallInitialized
  BY <1>2, <1>5 DEF Idle, InitializeLocked, CallInitialized
<1>7. ClosedIsClean /\ SignReady /\ FindInStep
  BY DEF Init, ClosedIsClean, SignReady, FindInStep
<1> QED
  BY <1>4, <1>6, <1>7 DEF IndInv

(* A call, whichever function it is of, preserves the invariant. *)
LEMMA CallIndInv ==
  ASSUME IndInv, NEW t \in Threads, CallStep(t)
  PROVE  IndInv'
<1>1. CASE OpenSession(t)
  BY <1>1, OpenSessionStep
<1>2. CASE CloseSession(t)
  BY <1>2, CloseSessionStep
<1>3. CASE CloseAllSessions(t)
  BY <1>3, CloseAllSessionsStep
<1>4. CASE Query(t)
  BY <1>4, RefuseStep DEF Query, Within
<1>5. CASE \E class \in Templates : FindObjectsInit(t, class)
  BY <1>5, FindObjectsInitStep
<1>6. CASE \E max_count \in Counts : FindObjects(t, max_count)
  BY <1>6, FindObjectsStep
<1>7. CASE FindObjectsFinal(t)
  BY <1>7, FindObjectsFinalStep
<1>8. CASE FindFails(t)
  BY <1>8, RefuseStep DEF FindFails, Within
<1>9. CASE state # None /\ \E key \in 1..3 * Len(state.identities) : SignInit(t, key)
  BY <1>9, SignInitStep
<1>10. CASE SignInitFails(t)
  BY <1>10, RefuseStep DEF SignInitFails, Within
<1>11. CASE SignBegin(t)
  BY <1>11, SignBeginStep
<1>12. CASE SizeQuery(t)
  BY <1>12, SizeQueryStep
<1>13. CASE SignRefused(t)
  BY <1>13, SignRefusedStep
<1>14. CASE SignDone(t)
  BY <1>14, SignDoneStep
<1>15. CASE SignDeviceError(t)
  BY <1>15, SignDeviceErrorStep
<1>16. CASE Panic(t)
  BY <1>16, PanicStep
<1> QED
  BY <1>1, <1>2, <1>3, <1>4, <1>5, <1>6, <1>7, <1>8, <1>9, <1>10, <1>11, <1>12,
     <1>13, <1>14, <1>15, <1>16 DEF CallStep

(* Every step preserves the invariant. *)
LEMMA NextIndInv == IndInv /\ [Next]_vars => IndInv'
<1> SUFFICES ASSUME IndInv, [Next]_vars PROVE IndInv'
  OBVIOUS
<1>1. ASSUME NEW t \in Threads, NEW f \in Function, Enter(t, f)
      PROVE  IndInv'
  BY <1>1, EnterStep
<1>2. ASSUME NEW t \in Threads, CallStep(t)
      PROVE  IndInv'
  BY <1>2, CallIndInv
<1>3. ASSUME NEW t \in Threads, InitializeBegin(t)
      PROVE  IndInv'
  BY <1>3, InitializeBeginStep
<1>4. ASSUME NEW t \in Threads, InitializeStep(t)
      PROVE  IndInv'
  BY <1>4, InitializeConnectedStep, InitializeFailsStep, InitializeIdentitiesStep,
     InitializeDoneStep DEF InitializeStep
<1>5. ASSUME NEW t \in Threads, Finalize(t)
      PROVE  IndInv'
  BY <1>5, FinalizeStep
<1>6. CASE RunImport \/ UNCHANGED vars
  BY <1>6, RunImportStep
<1> QED
  BY <1>1, <1>2, <1>3, <1>4, <1>5, <1>6 DEF Next

(* The invariant holds in every state. *)
THEOREM Invariance == Spec => []IndInv
BY InitIndInv, NextIndInv, PTL DEF Spec

(* Every variable has its type: no handle, position or identity is out of  *)
(* its list, whatever the avatar's list and the order of the calls.        *)
THEOREM TypeCorrect == Spec => []TypeOK
<1>1. IndInv => TypeOK
  BY DEF IndInv
<1> QED
  BY <1>1, Invariance, PTL

(* A call of with_state that unwraps a STATE that is gone was overtaken by *)
(* C_Finalize between its two locks: nothing else explains the panic.      *)
THEOREM PanicsExplained == Spec => []OnlyFinalizePanics
<1>1. IndInv => OnlyFinalizePanics
  BY DEF IndInv, CallInitialized, OnlyFinalizePanics
<1> QED
  BY <1>1, Invariance, PTL

(* A signature is by the key whose handle was given to the session's last  *)
(* C_SignInit, whichever threads share the session.                        *)
THEOREM SignsRight == Spec => []SignsChosenKey
<1>1. IndInv => SignsChosenKey
  <2> SUFFICES ASSUME IndInv, NEW t \in Threads
               PROVE  /\ threads[t].req # None => threads[t].req = threads[t].wants
                      /\ threads[t].got # None => threads[t].got = threads[t].wants.key
    BY DEF SignsChosenKey
  <2> QED
    BY DEF IndInv, ThreadInOrder
<1> QED
  BY <1>1, Invariance, PTL

(* No search and no chosen key outlives the session, however many calls of *)
(* C_OpenSession it has had.                                               *)
THEOREM SessionsClean == Spec => []ClosedIsClean
<1>1. IndInv => ClosedIsClean
  BY DEF IndInv
<1> QED
  BY <1>1, Invariance, PTL

(* A search returns the objects of the class in order, each once and none  *)
(* missed, however many calls it takes.                                    *)
THEOREM SearchExact == Spec => []FindIsExact
<1>1. ASSUME IndInv PROVE FindIsExact
  <2> SUFFICES ASSUME state # None, state.find_op # None
               PROVE  FindIsExact
    BY DEF FindIsExact
  <2> DEFINE ids == state.identities
             handles == state.find_op.handles
             class == state.find_op.class
             wanted == Wanted(class, Len(ids))
             returned == {found[i] : i \in 1..Len(found)}
  <2>1. ids \in Seq(Identity) /\ state.find_op \in FindOp
    BY <1>1, StateFields DEF IndInv
  <2>2. class \in Classes /\ handles \in Seq(Nat) /\ state.find_op.position \in Nat
    BY <2>1 DEF FindOp
  <2>3. /\ handles = Matching(ids, class)
        /\ state.find_op.position <= Len(handles)
        /\ Len(found) = state.find_op.position
        /\ \A i \in 1..Len(found) : found[i] = handles[i]
    BY <1>1 DEF IndInv, FindInStep
  <2>4. Lists(class, Len(ids), handles)
    BY <2>1, <2>2, <2>3, MatchingExact
  <2>5. wanted = {h \in 1..3 * Len(ids) :
                    class \in {"any", handle_to_identity_index(h).kind}}
    BY DEF Wanted
  <2>6. /\ \A i \in 1..Len(handles) : handles[i] \in wanted
        /\ \A i, j \in 1..Len(handles) : i < j => handles[i] < handles[j]
        /\ \A h \in wanted : \E i \in 1..Len(handles) : handles[i] = h
    BY <2>4 DEF Lists
  <2>7. wanted \subseteq Nat
    BY <2>1, <2>5
  <2>8. Len(handles) \in Nat /\ Len(found) \in Nat /\ Len(found) <= Len(handles)
    BY <2>2, <2>3
  <2> HIDE DEF wanted, handles, class, ids
  <2>9. returned \subseteq wanted
    BY <2>3, <2>6, <2>8
  <2>10. \A i, j \in 1..Len(found) : i < j => found[i] < found[j]
    BY <2>3, <2>6, <2>8
  <2>11. ASSUME NEW g \in wanted, NEW h \in returned, g < h
         PROVE  g \in returned
    <3>1. PICK j \in 1..Len(found) : h = found[j]
      OBVIOUS
    <3>2. PICK i \in 1..Len(handles) : handles[i] = g
      BY <2>6
    <3>3. /\ handles[j] = h /\ j \in 1..Len(handles)
          /\ g \in Nat /\ h \in Nat
      <4>1. handles[j] = h /\ j \in 1..Len(handles)
        BY <2>3, <2>8, <3>1
      <4>2. h \in wanted
        BY <2>6, <4>1
      <4> QED
        BY <2>7, <4>1, <4>2
    <3>4. i < j
      <4>1. ~(j < i) /\ i # j
        BY <2>6, <2>11, <3>2, <3>3
      <4> QED
        BY <4>1, <2>8
    <3>5. i \in 1..Len(found)
      BY <2>8, <3>4
    <3> QED
      BY <2>3, <3>2, <3>5
  <2>12. state.find_op.position = Len(handles) => returned = wanted
    BY <2>3, <2>6, <2>9
  <2> HIDE DEF returned
  <2> QED
    BY <2>3, <2>5, <2>9, <2>10, <2>11, <2>12
       DEF FindIsExact, returned, handles, class, ids
<1> QED
  BY <1>1, Invariance, PTL


(* One byte tells the identities apart as long as there are not more than  *)
(* it has values.                                                          *)
LEMMA ByteTellsApart ==
  ASSUME NEW M \in Nat \ {0}, NEW a \in 0..M-1, NEW b \in 0..M-1,
         (a + 1) % M = (b + 1) % M
  PROVE  a = b
<1>1. \A x \in 0..M-1 : (x + 1) % M = IF x = M - 1 THEN 0 ELSE x + 1
  <2> TAKE x \in 0..M-1
  <2>1. CASE x = M - 1
    <3>1. x + 1 = M /\ M % M = 0
      BY <2>1
    <3> QED
      BY <2>1, <3>1
  <2>2. CASE x # M - 1
    <3>1. x + 1 \in 0..M-1
      BY <2>2
    <3>2. (x + 1) % M = x + 1
      BY <3>1
    <3> QED
      BY <2>2, <3>2
  <2> QED
    BY <2>1, <2>2
<1> QED
  BY <1>1

(* The identity of an object lies in the list, and its CKA_ID is that      *)
(* place, from 1, cut to a byte.                                           *)
LEMMA IdOfHandle ==
  ASSUME NEW ids \in Seq(Identity), NEW g \in 1..3 * Len(ids)
  PROVE  /\ (g - 1) \div 3 \in 0..Len(ids)-1
         /\ Attribute(ids, g, "ID") = (((g - 1) \div 3) + 1) % IdModulus
<1>1. Len(ids) \in Nat
  OBVIOUS
<1> DEFINE len == Len(ids)
<1>2. (g - 1) \div 3 \in 0..len-1
  <2>1. g \in 1..3 * len /\ len \in Nat
    BY <1>1
  <2> HIDE DEF len
  <2> QED
    BY <2>1
<1> QED
  BY <1>2 DEF Attribute, handle_to_identity_index

(* By CKA_ID an application pairs the objects of an identity as long as    *)
(* there are not more identities than CKA_ID has values (256), and no      *)
(* longer: the first and the one after the last value have the same.       *)
THEOREM ObjectsPaired == Spec => []ObjectsPair
<1>1. ASSUME IndInv PROVE ObjectsPair
  <2> SUFFICES ASSUME state # None
               PROVE  PairedById(state.identities)
                        <=> Len(state.identities) <= IdModulus
    BY DEF ObjectsPair
  <2> DEFINE ids == state.identities
  <2>1. ids \in Seq(Identity) /\ Len(ids) \in Nat /\ IdModulus \in Nat \ {0}
    BY <1>1, StateFields, Pkcs11Assumption DEF IndInv
  <2> HIDE DEF ids
  <2>2. ASSUME Len(ids) <= IdModulus,
               NEW g \in 1..3 * Len(ids), NEW h \in 1..3 * Len(ids)
        PROVE  Attribute(ids, g, "ID") = Attribute(ids, h, "ID")
                 <=> (g - 1) \div 3 = (h - 1) \div 3
    <3> DEFINE a == (g - 1) \div 3
               b == (h - 1) \div 3
    <3>1. /\ a \in 0..Len(ids)-1 /\ Attribute(ids, g, "ID") = (a + 1) % IdModulus
          /\ b \in 0..Len(ids)-1 /\ Attribute(ids, h, "ID") = (b + 1) % IdModulus
      BY <2>1, IdOfHandle
    <3> HIDE DEF a, b
    <3>2. a \in 0..IdModulus-1 /\ b \in 0..IdModulus-1
      BY <2>1, <2>2, <3>1
    <3>3. Attribute(ids, g, "ID") = Attribute(ids, h, "ID") <=> a = b
      BY <2>1, <3>1, <3>2, ByteTellsApart
    <3> QED
      BY <3>3 DEF a, b
  <2>3. ASSUME ~(Len(ids) <= IdModulus)
        PROVE  ~PairedById(ids)
    <3> DEFINE g == 1
               h == 3 * IdModulus + 1
    <3>1. g \in 1..3 * Len(ids) /\ h \in 1..3 * Len(ids)
      BY <2>1, <2>3
    <3>2. (g - 1) \div 3 = 0 /\ (h - 1) \div 3 = IdModulus
      BY <2>1
    <3> HIDE DEF g, h
    <3>3. /\ Attribute(ids, g, "ID") = (0 + 1) % IdModulus
          /\ Attribute(ids, h, "ID") = (IdModulus + 1) % IdModulus
      BY <2>1, <3>1, <3>2, IdOfHandle
    <3>4. (IdModulus + 1) % IdModulus = (0 + 1) % IdModulus
      BY <2>1
    <3>5. (g - 1) \div 3 # (h - 1) \div 3
      BY <2>1, <3>2
    <3> QED
      BY <3>1, <3>3, <3>4, <3>5 DEF PairedById
  <2> QED
    BY <2>2, <2>3 DEF PairedById, ids
<1> QED
  BY <1>1, Invariance, PTL

=============================================================================
