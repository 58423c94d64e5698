--------------------------- MODULE GpgKeysProofs ---------------------------
(***************************************************************************)
(* Proofs about the names of keys in scd-shim, for lists of any length.    *)
(***************************************************************************)
EXTENDS GpgKeys, RecursionLemmas

(* What one round of the filter_map does. *)
Round(raw, n, s) == IF raw[n] THEN Append(s, n) ELSE s

(* Usable is what the loop has after the last round. *)
LEMMA UsableLoop ==
  ASSUME NEW raw \in Seq(BOOLEAN)
  PROVE  \E f \in [0..Len(raw) -> Seq(Nat)] :
           /\ Usable(raw) = f[Len(raw)]
           /\ f[0] = << >>
           /\ \A n \in 1..Len(raw) : f[n] = Round(raw, n, f[n-1])
<1> DEFINE len == Len(raw)
           A == Seq(Nat)
           S == [n \in 1..len |-> [s \in A |-> Round(raw, n, s)]]
           Body(g) == [n \in 0..len |-> IF n = 0 THEN << >>
                         ELSE IF raw[n] THEN Append(g[n-1], n) ELSE g[n-1]]
           F == CHOOSE g : g = Body(g)
<1>1. len \in Nat
  OBVIOUS
<1>2. \A n \in 1..len : n \in 0..len /\ n # 0 /\ n - 1 \in 0..len /\ n \in Nat
  BY <1>1
<1>3. << >> \in A /\ \A n \in 1..len, s \in A : Round(raw, n, s) \in A
  BY <1>2 DEF Round
<1> HIDE DEF A
<1>4. S \in [1..len -> [A -> A]]
  BY <1>3
<1>5. PICK f \in [0..len -> A] :
        f[0] = << >> /\ \A n \in 1..len : f[n] = S[n][f[n-1]]
  <2> HIDE DEF S, len
  <2>1. PICK B, a, l, R : B = A /\ a = << >> /\ l = len /\ R = S
    OBVIOUS
  <2>2. a \in B /\ l \in Nat /\ R \in [1..l -> [B -> B]]
    BY <1>1, <1>3, <1>4, <2>1
  <2>3. LoopValues(B, a, l, R) # {}
    BY <2>2, LoopExists
  <2> QED
    BY <2>1, <2>3 DEF LoopValues
<1>6. \A n \in 0..len : Body(f)[n] = f[n]
  <2> TAKE n \in 0..len
  <2>1. CASE n = 0
    BY <2>1, <1>5
  <2>2. CASE n # 0
    <3>1. n \in 1..len /\ f[n-1] \in A
      BY <2>2, <1>1, <1>2
    <3>2. f[n] = Round(raw, n, f[n-1])
      BY <1>5, <3>1
    <3> QED
      BY <3>2, <2>2 DEF Round
  <2> QED
    BY <2>1, <2>2
<1>7. f = Body(f)
  BY <1>6
<1>8. F = Body(F)
  <2> HIDE DEF Body
  <2> QED
    BY <1>7
<1>9. Usable(raw) = F[len]
  BY DEF Usable
<1> HIDE DEF F
<1>10. F[0] = << >>
  BY <1>8, <1>1
<1>11. \A n \in 1..len : F[n] = Round(raw, n, F[n-1])
  BY <1>8, <1>2 DEF Round
<1>12. \A n \in 0..len : F[n] \in A
  <2> DEFINE T == {n \in 0..len : F[n] \in A}
  <2>1. 0 \in T
    BY <1>10, <1>3, <1>1
  <2>2. \A n \in 0..len : n \in T /\ n < len => n + 1 \in T
    <3> SUFFICES ASSUME NEW n \in 0..len, F[n] \in A, n < len
                 PROVE  n + 1 \in 0..len /\ F[n+1] \in A
      OBVIOUS
    <3>1. n + 1 \in 1..len /\ (n + 1) - 1 = n
      BY <1>1
    <3>2. F[n+1] = Round(raw, n + 1, F[n])
      BY <3>1, <1>11
    <3> QED
      BY <3>1, <3>2, <1>3
  <2> HIDE DEF T, len
  <2>3. 0..len \subseteq T
    BY <2>1, <2>2, <1>1, InductionUpTo
  <2> QED
    BY <2>3 DEF T
<1>13. F \in [0..len -> A]
  <2>1. F = [n \in 0..len |-> F[n]]
    BY <1>8
  <2> QED
    BY <2>1, <1>12
<1> QED
  BY <1>9, <1>10, <1>11, <1>13 DEF A

(* The usable keys among the first n, in order. *)
InOrder(raw, n, s) ==
  /\ s \in Seq(Nat)
  /\ \A i \in 1..Len(s) : s[i] \in 1..n /\ raw[s[i]]
  /\ \A i, j \in 1..Len(s) : i < j => s[i] < s[j]

(* Usable lists usable keys, each once. *)
LEMMA UsableExact ==
  ASSUME NEW raw \in Seq(BOOLEAN)
  PROVE  InOrder(raw, Len(raw), Usable(raw))
<1> DEFINE len == Len(raw)
<1>1. PICK f \in [0..len -> Seq(Nat)] :
        /\ Usable(raw) = f[len]
        /\ f[0] = << >>
        /\ \A n \in 1..len : f[n] = Round(raw, n, f[n-1])
  BY UsableLoop
<1> DEFINE T == {n \in 0..len : InOrder(raw, n, f[n])}
<1>2. len \in Nat
  OBVIOUS
<1>3. 0 \in T
  <2>1. f[0] \in Seq(Nat) /\ Len(f[0]) = 0
    BY <1>1, <1>2
  <2>2. InOrder(raw, 0, f[0])
    BY <2>1 DEF InOrder
  <2> QED
    BY <2>2, <1>2
<1>4. \A n \in 0..len : n \in T /\ n < len => n + 1 \in T
  <2> SUFFICES ASSUME NEW n \in 0..len, InOrder(raw, n, f[n]), n < len
               PROVE  n + 1 \in 0..len /\ InOrder(raw, n + 1, f[n+1])
    OBVIOUS
  <2>1. n + 1 \in 1..len /\ (n + 1) - 1 = n /\ n + 1 \in 0..len /\ n \in Nat
    BY <1>2
  <2>2. f[n+1] = Round(raw, n + 1, f[n])
    BY <1>1, <2>1
  <2>3. CASE ~raw[n+1]
    <3>1. f[n+1] = f[n]
      BY <2>2, <2>3 DEF Round
    <3> QED
      BY <2>1, <3>1 DEF InOrder
  <2>4. CASE raw[n+1]
    <3> DEFINE s == f[n]
               r == Append(s, n + 1)
    <3>1. f[n+1] = r
      BY <2>2, <2>4 DEF Round
    <3>2. s \in Seq(Nat) /\ Len(s) \in Nat
      BY DEF InOrder
    <3>3. /\ r \in Seq(Nat) /\ Len(r) = Len(s) + 1 /\ r[Len(r)] = n + 1
          /\ \A i \in 1..Len(s) : r[i] = s[i]
      BY <3>2, <2>1
    <3>4. \A i \in 1..Len(s) : s[i] \in 1..n /\ raw[s[i]]
      BY DEF InOrder
    <3>5. \A i, j \in 1..Len(s) : i < j => s[i] < s[j]
      BY DEF InOrder
    <3>6. \A i \in 1..Len(r) : i \in 1..Len(s) \/ i = Len(r)
      BY <3>2, <3>3
    <3> HIDE DEF r, s
    <3>7. ASSUME NEW i \in 1..Len(r)
          PROVE  r[i] \in 1..n+1 /\ raw[r[i]]
      <4>1. CASE i \in 1..Len(s)
        <5>1. r[i] = s[i] /\ s[i] \in 1..n /\ raw[s[i]]
          BY <3>3, <3>4, <4>1
        <5>2. 1..n \subseteq 1..n+1
          BY <2>1
        <5> QED
          BY <5>1, <5>2
      <4>2. CASE i = Len(r)
        <5>1. r[i] = n + 1 /\ n + 1 \in 1..n+1
          BY <2>1, <3>3, <4>2
        <5> QED
          BY <2>4, <5>1
      <4> QED
        BY <3>6, <4>1, <4>2
    <3>8. ASSUME NEW i \in 1..Len(r), NEW j \in 1..Len(r), i < j
          PROVE  r[i] < r[j]
      <4>1. i \in 1..Len(s)
        BY <3>2, <3>3, <3>6, <3>8
      <4>2. CASE j \in 1..Len(s)
        BY <3>3, <3>5, <3>8, <4>1, <4>2
      <4>3. CASE j = Len(r)
        <5>1. r[i] \in 1..n /\ r[j] = n + 1
          BY <3>3, <3>4, <4>1, <4>3
        <5> QED
          BY <2>1, <5>1
      <4> QED
        BY <3>6, <4>2, <4>3
    <3>9. InOrder(raw, n + 1, r)
      BY <3>3, <3>7, <3>8 DEF InOrder
    <3> QED
      BY <2>1, <3>1, <3>9
  <2> QED
    BY <2>3, <2>4
<1>5. len \in T
  <2> HIDE DEF T, len
  <2>1. 0..len \subseteq T
    BY <1>2, <1>3, <1>4, InductionUpTo
  <2> QED
    BY <2>1, <1>2
<1> QED
  BY <1>1, <1>5

(* What the identities are, and that a name of each kind finds what it     *)
(* should: a keygrip its own, a keyref the first that has it.              *)
LEMMA IdentitiesExact ==
  ASSUME NEW raw \in Seq(BOOLEAN)
  PROVE  LET ids == identities(raw)
             u == Usable(raw)
         IN  /\ DOMAIN ids = 1..Len(u) /\ Len(ids) = Len(u) /\ Len(u) \in Nat
             /\ \A i \in 1..Len(u) :
                  /\ u[i] \in 1..Len(raw) /\ raw[u[i]]
                  /\ ids[i].public_key = u[i] /\ ids[i].index = u[i] - 1
                  /\ ids[i].keygrip = Grip(u[i]) /\ ids[i].keyref = KeyrefOf(i)
             /\ \A i, j \in 1..Len(u) : u[i] = u[j] => i = j
<1> DEFINE ids == identities(raw)
           u == Usable(raw)
<1>1. /\ u \in Seq(Nat)
      /\ \A i \in 1..Len(u) : u[i] \in 1..Len(raw) /\ raw[u[i]]
      /\ \A i, j \in 1..Len(u) : i < j => u[i] < u[j]
  BY UsableExact DEF InOrder
<1>2. Len(u) \in Nat
  BY <1>1
<1>3. \A i, j \in 1..Len(u) : u[i] = u[j] => i = j
  <2> SUFFICES ASSUME NEW i \in 1..Len(u), NEW j \in 1..Len(u), u[i] = u[j]
               PROVE  i = j
    OBVIOUS
  <2> HIDE DEF u
  <2>1. u[i] \in Nat /\ u[j] \in Nat
    BY <1>1
  <2>2. ~(i < j) /\ ~(j < i)
    BY <1>1, <2>1
  <2> QED
    BY <1>2, <2>2
<1>4. DOMAIN ids = 1..Len(u) /\ Len(ids) = Len(u)
  BY <1>2 DEF identities
<1>5. \A i \in 1..Len(u) :
        /\ ids[i].public_key = u[i] /\ ids[i].index = u[i] - 1
        /\ ids[i].keygrip = Grip(u[i]) /\ ids[i].keyref = KeyrefOf(i)
  BY DEF identities
<1> HIDE DEF u, ids
<1> QED
  BY <1>1, <1>2, <1>3, <1>4, <1>5 DEF u, ids

(* Names tell keys apart, and keygrips from keyrefs. *)
LEMMA NamesDiffer ==
  /\ \A x, n : Grip(x) # Ref(n)
  /\ \A x, y : Grip(x) = Grip(y) => x = y
  /\ \A x, y : Ref(x) = Ref(y) => x = y
<1>1. ASSUME NEW x, NEW n PROVE Grip(x) # Ref(n)
  <2>1. Grip(x).kind = "keygrip" /\ Ref(n).kind = "keyref"
    BY DEF Grip, Ref
  <2> QED
    BY <2>1
<1>2. ASSUME NEW x, NEW y, Grip(x) = Grip(y) PROVE x = y
  <2>1. Grip(x).of = x /\ Grip(y).of = y
    BY DEF Grip
  <2> QED
    BY <1>2, <2>1
<1>3. ASSUME NEW x, NEW y, Ref(x) = Ref(y) PROVE x = y
  <2>1. Ref(x).of = x /\ Ref(y).of = y
    BY DEF Ref
  <2> QED
    BY <1>3, <2>1
<1> QED
  BY <1>1, <1>2, <1>3

(* The names of LEARN mean the same to every later command, whatever the   *)
(* KeyMaster's list: keygrips always, keyrefs with up to two identities.   *)
THEOREM NamesAgreeAlways ==
  ASSUME NEW raw \in Seq(BOOLEAN)
  PROVE  NamesAgree(raw)
<1> DEFINE ids == identities(raw)
           len == Len(Usable(raw))
<1>1. /\ DOMAIN ids = 1..len /\ Len(ids) = len /\ len \in Nat
      /\ \A i \in 1..len :
           /\ ids[i].public_key = ids[i].index + 1 /\ raw[ids[i].index + 1]
           /\ ids[i].keygrip = Grip(ids[i].index + 1)
           /\ ids[i].keyref = KeyrefOf(i)
      /\ \A i, j \in 1..len : ids[i].keygrip = ids[j].keygrip => i = j
  <2>1. \A i \in 1..len : /\ Usable(raw)[i] \in Nat
                          /\ ids[i].index + 1 = Usable(raw)[i]
    BY IdentitiesExact
  <2> QED
    BY <2>1, IdentitiesExact, NamesDiffer
<1>2. \A i, j \in 1..len : ids[i].keygrip # ids[j].keyref
  BY <1>1, NamesDiffer DEF KeyrefOf
<1> HIDE DEF ids, len
<1>3. ASSUME NEW i \in 1..len
      PROVE  Find(ids, ids[i].keygrip) = {ids[i]}
  <2>1. \A j \in 1..len : ids[i].keygrip \in {ids[j].keygrip, ids[j].keyref} <=> j = i
    BY <1>1, <1>2
  <2>2. \A k \in 1..i-1 : k \in 1..len /\ k # i
    BY <1>1
  <2> QED
    BY <1>1, <2>1, <2>2 DEF Find
<1>4. ASSUME NEW i \in 1..len
      PROVE  /\ i = 2 => Find(ids, ids[i].keyref) = {ids[2]}
             /\ i # 2 => Find(ids, ids[i].keyref) = {ids[1]}
  <2>1. \A j \in 1..len : ids[i].keyref \in {ids[j].keygrip, ids[j].keyref}
                            <=> (i = 2 <=> j = 2)
    BY <1>1, <1>2, NamesDiffer DEF KeyrefOf
  <2>2. CASE i = 2
    <3>1. \A k \in 1..1 : k \in 1..len /\ k # 2
      BY <2>2, <1>1
    <3>2. \A j \in 1..len : /\ ids[i].keyref \in {ids[j].keygrip, ids[j].keyref}
                            /\ \A k \in 1..j-1 :
                                 ids[i].keyref \notin {ids[k].keygrip, ids[k].keyref}
                            <=> j = 2
      BY <2>1, <2>2, <3>1, <1>1
    <3> QED
      BY <1>1, <2>2, <3>2 DEF Find
  <2>3. CASE i # 2
    <3>1. 1 \in 1..len
      BY <1>1
    <3>2. \A j \in 1..len : /\ ids[i].keyref \in {ids[j].keygrip, ids[j].keyref}
                            /\ \A k \in 1..j-1 :
                                 ids[i].keyref \notin {ids[k].keygrip, ids[k].keyref}
                            <=> j = 1
      <4> TAKE j \in 1..len
      <4>1. CASE j = 1
        BY <4>1, <2>1, <2>3, <3>1, <1>1
      <4>2. CASE j # 1
        <5>1. 1 \in 1..j-1
          BY <4>2, <1>1
        <5> QED
          BY <4>2, <5>1, <2>1, <2>3, <3>1
      <4> QED
        BY <4>1, <4>2
    <3> QED
      BY <1>1, <2>3, <3>1, <3>2 DEF Find
  <2> QED
    BY <2>2, <2>3
<1>5. ASSUME NEW i \in 1..len
      PROVE  /\ handle_pksign(ids, ids[i].keygrip) = {ids[i]}
             /\ handle_readkey(ids, ids[i].keygrip) = {ids[i]}
             /\ handle_pksign(ids, ids[i].keyref) = Find(ids, ids[i].keyref)
             /\ len <= 2 => Find(ids, ids[i].keyref) = {ids[i]}
  <2>1. Find(ids, ids[i].keygrip) = {ids[i]}
    BY <1>3
  <2>2. Find(ids, ids[i].keyref) # {}
    BY <1>4
  <2>3. len <= 2 /\ i # 2 => i = 1
    BY <1>1
  <2>4. len <= 2 => Find(ids, ids[i].keyref) = {ids[i]}
    BY <1>4, <2>3
  <2> QED
    BY <2>1, <2>2, <2>4 DEF handle_pksign, handle_readkey
<1>6. ASSUME NEW i \in 1..len
      PROVE  LET line == <<ids[i].keygrip, ids[i].keyref>> IN
             /\ handle_pksign(ids, line[1]) = handle_readkey(ids, line[1])
             /\ \E id \in handle_readkey(ids, line[1]) :
                  /\ handle_readkey(ids, line[1]) = {id}
                  /\ Grip(id.index + 1) = line[1]
                  /\ id.public_key = id.index + 1
                  /\ raw[id.index + 1]
                  /\ Len(ids) <= 2 => handle_pksign(ids, line[2]) = {id}
             /\ handle_pksign(ids, line[2]) = handle_readkey(ids, line[2])
  <2>1. handle_readkey(ids, ids[i].keyref) = Find(ids, ids[i].keyref)
    BY DEF handle_readkey
  <2> QED
    BY <1>1, <1>5, <2>1
<1>7. \A id \in AuthKey(ids) : <<id.keygrip, id.keyref>> \in handle_learn(ids)
  BY DEF AuthKey, Find, handle_learn
<1>8. ASSUME NEW line \in handle_learn(ids)
      PROVE  \E i \in 1..len : line = <<ids[i].keygrip, ids[i].keyref>>
  BY <1>1 DEF handle_learn
<1>9. ASSUME NEW line \in handle_learn(ids)
      PROVE  /\ handle_pksign(ids, line[1]) = handle_readkey(ids, line[1])
             /\ \E id \in handle_readkey(ids, line[1]) :
                  /\ handle_readkey(ids, line[1]) = {id}
                  /\ Grip(id.index + 1) = line[1]
                  /\ id.public_key = id.index + 1
                  /\ raw[id.index + 1]
                  /\ Len(ids) <= 2 => handle_pksign(ids, line[2]) = {id}
             /\ handle_pksign(ids, line[2]) = handle_readkey(ids, line[2])
  <2>1. PICK i \in 1..len : line = <<ids[i].keygrip, ids[i].keyref>>
    BY <1>8
  <2> QED
    BY <1>6, <2>1
<1> QED
  BY <1>7, <1>9 DEF NamesAgree, ids

(* A shim that serves LEARN gives names under which it later signs with    *)
(* the key meant.                                                          *)
THEOREM SignsRight == Spec => []SignsNamedKey
<1>1. SignsNamedKey
  <2>1. \A raw \in Lists : raw \in Seq(BOOLEAN)
    <3> SUFFICES ASSUME NEW raw \in Lists
                 PROVE  raw \in Seq(BOOLEAN)
      OBVIOUS
    <3>1. PICK n \in 0..4 : raw \in [1..n -> BOOLEAN]
      BY DEF Lists
    <3>2. n \in Nat
      OBVIOUS
    <3> QED
      BY <3>1, <3>2
  <2> QED
    BY <2>1, NamesAgreeAlways DEF SignsNamedKey, ListsAgree
<1> QED
  BY <1>1, PTL

=============================================================================
