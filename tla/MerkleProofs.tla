---------------------------- MODULE MerkleProofs ----------------------------
(***************************************************************************)
(* The root of a ranking file accepts the ids of the file and nothing      *)
(* else, for every file, every order of the hashes and every length.       *)
(*                                                                         *)
(* Nothing else: a hash of the tree is a leaf or the hash of two hashes of *)
(* the tree (TreeNodes).  The root is in the tree, so going back along the *)
(* loop of the contract every hash it computes is in the tree, down to the *)
(* leaf it starts from (ProofOfLeaf).                                      *)
(*                                                                         *)
(* The ids of the file: the proof of the script, at each layer, proves the *)
(* node that the layer has at the place it has reached (UpProves), and the *)
(* last layer is the root alone (LayersShape).  The leaves depend on how   *)
(* often an id is listed, not on where (SameIdsSameLeaves).                *)
(***************************************************************************)
EXTENDS Merkle, NatProofs, SequenceTheorems

---------------------------------------------------------------------------
(* The symbolic hashes. *)

\* A hash is of one thing only.
LEMMA HashesDiffer ==
  ASSUME NEW x, NEW a, NEW b
  PROVE  /\ \A y : Leaf(x) = Leaf(y) => x = y
         /\ Leaf(x) # Node(a, b)
         /\ \A c, d : Node(a, b) = Node(c, d) => a \in {c, d}
         /\ Node(a, b) = Node(b, a)
  <1>1. "leaf" # "node"
    OBVIOUS
  <1>2. \A y : Leaf(x) = Leaf(y) => x = y
    BY DEF Leaf
  <1>3. Leaf(x) # Node(a, b)
    BY <1>1 DEF Leaf, Node
  <1>4. \A c, d : Node(a, b) = Node(c, d) => {a, b} = {c, d}
    BY DEF Node
  <1>5. Node(a, b) = Node(b, a)
    <2>1. {a, b} = {b, a}
      OBVIOUS
    <2> QED
      BY <2>1 DEF Node
  <1> QED
    BY <1>2, <1>3, <1>4, <1>5

---------------------------------------------------------------------------
(* The recursive functions. *)

\* The loop of the contract has a result.
LEMMA HashExists ==
  ASSUME NEW n \in Nat, NEW proof, NEW leaf
  PROVE  \E h : h = [i \in 0..n |-> IF i = 0 THEN leaf ELSE Node(h[i - 1], proof[i])]
  <1> DEFINE S == {m \in Nat : \E h : h = [i \in 0..m |-> IF i = 0 THEN leaf
                                                          ELSE Node(h[i - 1], proof[i])]}
  <1>1. 0 \in S
    <2> DEFINE h == [i \in 0..0 |-> leaf]
    <2>1. h = [i \in 0..0 |-> IF i = 0 THEN leaf ELSE Node(h[i - 1], proof[i])]
      OBVIOUS
    <2> QED
      BY <2>1
  <1>2. ASSUME NEW m \in S PROVE m + 1 \in S
    <2>1. PICK h : h = [i \in 0..m |-> IF i = 0 THEN leaf ELSE Node(h[i - 1], proof[i])]
      OBVIOUS
    <2> DEFINE g == [i \in 0..m + 1 |-> IF i <= m THEN h[i] ELSE Node(h[m], proof[m + 1])]
    <2>2. ASSUME NEW i \in 0..m + 1
          PROVE  g[i] = IF i = 0 THEN leaf ELSE Node(g[i - 1], proof[i])
      <3>1. CASE i = 0
        BY <2>1, <3>1
      <3>2. CASE i \in 1..m
        <4>1. h[i] = Node(h[i - 1], proof[i]) /\ i - 1 \in 0..m
          BY <2>1, <3>2
        <4> QED
          BY <3>2, <4>1
      <3>3. CASE i = m + 1
        BY <3>3
      <3> QED
        BY <3>1, <3>2, <3>3
    <2>3. g = [i \in 0..m + 1 |-> IF i = 0 THEN leaf ELSE Node(g[i - 1], proof[i])]
      BY <2>2
    <2> HIDE DEF g
    <2> QED
      BY <2>3
  <1> HIDE DEF S
  <1>3. n \in S
    BY <1>1, <1>2, Induction, S \in SUBSET Nat DEF S
  <1> QED
    BY <1>3 DEF S

\* What the loop of the contract (verify) computes, step by step.
LEMMA ComputedSteps ==
  ASSUME NEW proof, Len(proof) \in Nat, NEW leaf
  PROVE  \E h : /\ h[0] = leaf
                /\ \A i \in 1..Len(proof) : h[i] = Node(h[i - 1], proof[i])
                /\ Computed(proof, leaf) = h[Len(proof)]
  <1> DEFINE hash[i \in 0..Len(proof)] == IF i = 0 THEN leaf ELSE Node(hash[i - 1], proof[i])
  <1>1. Computed(proof, leaf) = hash[Len(proof)]
    BY DEF Computed
  <1>2. \E h : h = [i \in 0..Len(proof) |-> IF i = 0 THEN leaf ELSE Node(h[i - 1], proof[i])]
    BY HashExists
  <1>3. hash = [i \in 0..Len(proof) |-> IF i = 0 THEN leaf ELSE Node(hash[i - 1], proof[i])]
    BY <1>2, Zenon
  <1> HIDE DEF hash
  <1>4. hash[0] = leaf /\ \A i \in 1..Len(proof) : hash[i] = Node(hash[i - 1], proof[i])
    BY <1>3
  <1> QED
    BY <1>1, <1>4

IsLayers(h, leaves, n) == h = [k \in 0..n |-> IF k = 0 THEN leaves ELSE Above(h[k - 1])]

\* The layers of a tree follow from each other.
LEMMA LayersExist ==
  ASSUME NEW n \in Nat, NEW leaves
  PROVE  \E h : IsLayers(h, leaves, n)
  <1> DEFINE S == {m \in Nat : \E h : IsLayers(h, leaves, m)}
  <1>1. 0 \in S
    <2> DEFINE h == [k \in 0..0 |-> leaves]
    <2>1. h = [k \in 0..0 |-> IF k = 0 THEN leaves ELSE Above(h[k - 1])]
      OBVIOUS
    <2> QED
      BY <2>1 DEF IsLayers
  <1>2. ASSUME NEW m \in S PROVE m + 1 \in S
    <2>1. PICK h : h = [k \in 0..m |-> IF k = 0 THEN leaves ELSE Above(h[k - 1])]
      BY DEF IsLayers
    <2> DEFINE g == [k \in 0..m + 1 |-> IF k <= m THEN h[k] ELSE Above(h[m])]
    <2>2. ASSUME NEW k \in 0..m + 1
          PROVE  g[k] = IF k = 0 THEN leaves ELSE Above(g[k - 1])
      <3>1. CASE k = 0
        BY <2>1, <3>1
      <3>2. CASE k \in 1..m
        <4>1. h[k] = Above(h[k - 1]) /\ k - 1 \in 0..m
          BY <2>1, <3>2
        <4> QED
          BY <3>2, <4>1
      <3>3. CASE k = m + 1
        BY <3>3
      <3> QED
        BY <3>1, <3>2, <3>3
    <2>3. g = [k \in 0..m + 1 |-> IF k = 0 THEN leaves ELSE Above(g[k - 1])]
      BY <2>2
    <2> HIDE DEF g
    <2> QED
      BY <2>3 DEF IsLayers
  <1>s. S \in SUBSET Nat
    OBVIOUS
  <1> HIDE DEF S
  <1>3. n \in S
    BY <1>s, <1>1, <1>2, Induction
  <1> QED
    BY <1>3 DEF S

\* Each layer of the model's tree is made from the one below.
LEMMA LayersSteps ==
  ASSUME NEW leaves, Len(leaves) \in Nat
  PROVE  /\ DOMAIN Layers(leaves) = 0..Len(leaves)
         /\ Layers(leaves)[0] = leaves
         /\ \A k \in 1..Len(leaves) : Layers(leaves)[k] = Above(Layers(leaves)[k - 1])
  <1>1. \E h : IsLayers(h, leaves, Len(leaves))
    BY LayersExist
  <1> DEFINE layer[k \in 0..Len(leaves)] == IF k = 0 THEN leaves ELSE Above(layer[k - 1])
  <1>2. Layers(leaves) = layer
    BY DEF Layers
  <1>3. layer = [k \in 0..Len(leaves) |-> IF k = 0 THEN leaves ELSE Above(layer[k - 1])]
    BY <1>1, Zenon DEF IsLayers
  <1> HIDE DEF layer
  <1> QED
    BY <1>2, <1>3

---------------------------------------------------------------------------
(* The shape of a tree. *)

IsArray(s) == Len(s) \in Nat \ {0} /\ DOMAIN s = 1..Len(s)

\* A function on 1..m is a sequence of length m.
LEMMA ArrayLength ==
  ASSUME NEW m \in Nat, NEW S, NEW f \in [1..m -> S]
  PROVE  f \in Seq(S) /\ Len(f) = m
  <1>1. f \in Seq(S)
    BY SeqDef
  <1>2. Len(f) \in Nat /\ DOMAIN f = 1..Len(f)
    BY <1>1, LenProperties
  <1>3. 1..m = 1..Len(f)
    BY <1>2
  <1>4. Len(f) = m
    <2>1. m >= 1 => m \in 1..Len(f)
      BY <1>3
    <2>2. Len(f) >= 1 => Len(f) \in 1..m
      BY <1>2, <1>3
    <2> QED
      BY <1>2, <2>1, <2>2
  <1> QED
    BY <1>1, <1>4

\* A layer has half the nodes of the layer below, and each is made from nodes
\* of the layer below.
LEMMA AboveShape ==
  ASSUME NEW layer, IsArray(layer)
  PROVE  /\ IsArray(Above(layer))
         /\ Len(Above(layer)) = (Len(layer) + 1) \div 2
         /\ \A i \in 1..Len(Above(layer)) :
              Above(layer)[i] = IF 2 * i <= Len(layer)
                                THEN Node(layer[2 * i - 1], layer[2 * i])
                                ELSE layer[Len(layer)]
  <1> DEFINE m == (Len(layer) + 1) \div 2
             at(i) == IF 2 * i <= Len(layer) THEN Node(layer[2 * i - 1], layer[2 * i])
                      ELSE layer[Len(layer)]
             S == {at(i) : i \in 1..m}
  <1>1. m \in Nat \ {0}
    BY DEF IsArray
  <1> HIDE DEF m
  <1>2. Above(layer) = [i \in 1..m |-> at(i)]
    BY DEF Above, Last, m
  <1> HIDE DEF at
  <1>3. Above(layer) \in [1..m -> S]
    BY <1>2
  <1>4. Len(Above(layer)) = m
    BY <1>1, <1>3, ArrayLength
  <1> QED
    BY <1>1, <1>2, <1>4 DEF IsArray, m, at

\* The last layer of a tree is its root alone.
LEMMA LayersShape ==
  ASSUME NEW leaves, IsArray(leaves)
  PROVE  /\ \A k \in 0..Len(leaves) : IsArray(Layers(leaves)[k])
         /\ Len(Layers(leaves)[Len(leaves)]) = 1
  <1> DEFINE n == Len(leaves)
             L == Layers(leaves)
             S == {k \in Nat : k <= n =>
                     IsArray(L[k]) /\ (Len(L[k]) = 1 \/ Len(L[k]) <= n - k)}
  <1>1. n \in Nat \ {0} /\ L[0] = leaves /\ \A k \in 1..n : L[k] = Above(L[k - 1])
    BY LayersSteps DEF IsArray
  <1>2. 0 \in S
    BY <1>1
  <1>3. ASSUME NEW k \in S PROVE k + 1 \in S
    <2> SUFFICES ASSUME k + 1 <= n
                 PROVE  IsArray(L[k + 1]) /\ (Len(L[k + 1]) = 1 \/ Len(L[k + 1]) <= n - (k + 1))
      OBVIOUS
    <2>1. k \in Nat /\ IsArray(L[k]) /\ (Len(L[k]) = 1 \/ Len(L[k]) <= n - k)
      BY <1>1
    <2>2. L[k + 1] = Above(L[k])
      BY <1>1, <2>1
    <2> HIDE DEF n, L
    <2>3. IsArray(L[k + 1]) /\ Len(L[k + 1]) = (Len(L[k]) + 1) \div 2
      BY <2>1, <2>2, AboveShape
    <2>4. Len(L[k]) \in Nat \ {0}
      BY <2>1 DEF IsArray
    <2>5. Len(L[k + 1]) = 1 \/ Len(L[k + 1]) <= n - (k + 1)
      <3>1. \A a \in Nat \ {0}, c \in Nat :
              a = 1 \/ a <= c + 1 => (a + 1) \div 2 = 1 \/ (a + 1) \div 2 <= c
        OBVIOUS
      <3>2. PICK c \in Nat : c = n - (k + 1)
        BY <1>1, <2>1
      <3>3. Len(L[k]) = 1 \/ Len(L[k]) <= c + 1
        BY <1>1, <2>1, <3>2
      <3>4. (Len(L[k]) + 1) \div 2 = 1 \/ (Len(L[k]) + 1) \div 2 <= c
        BY <2>4, <3>1, <3>3
      <3> QED
        BY <2>3, <3>2, <3>4
    <2> QED
      BY <2>3, <2>5
  <1> HIDE DEF S
  <1>4. S = Nat
    BY <1>2, <1>3, Induction, S \in SUBSET Nat DEF S
  <1>5. \A k \in 0..n : IsArray(L[k]) /\ (Len(L[k]) = 1 \/ Len(L[k]) <= n - k)
    BY <1>1, <1>4 DEF S
  <1> HIDE DEF n, L
  <1>6. IsArray(L[n]) /\ (Len(L[n]) = 1 \/ Len(L[n]) <= 0)
    BY <1>1, <1>5
  <1>7. Len(L[n]) = 1
    BY <1>6 DEF IsArray
  <1> QED
    BY <1>5, <1>7 DEF n, L

---------------------------------------------------------------------------
(* What a proof can prove. *)

\* The hashes of a tree.
Tree(leaves) == UNION {{Layers(leaves)[k][i] : i \in 1..Len(Layers(leaves)[k])} :
                          k \in 0..Len(leaves)}

\* A hash of the tree is a leaf of it, or the hash of two hashes of the tree.
LEMMA TreeNodes ==
  ASSUME NEW leaves, IsArray(leaves), NEW h \in Tree(leaves)
  PROVE  \/ \E i \in 1..Len(leaves) : h = leaves[i]
         \/ \E a, b \in Tree(leaves) : h = Node(a, b)
  <1> DEFINE n == Len(leaves)
             L == Layers(leaves)
             T == Tree(leaves)
             Fine(x) == \/ \E i \in 1..n : x = leaves[i]
                        \/ \E a, b \in T : x = Node(a, b)
             S == {k \in Nat : k <= n => \A i \in 1..Len(L[k]) : Fine(L[k][i])}
  <1>1. n \in Nat \ {0} /\ L[0] = leaves /\ \A k \in 1..n : L[k] = Above(L[k - 1])
    BY LayersSteps DEF IsArray
  <1>2. \A k \in 0..n : IsArray(L[k])
    BY LayersShape
  <1>3. \A k \in 0..n : \A i \in 1..Len(L[k]) : L[k][i] \in T
    BY DEF Tree
  <1>4. 0 \in S
    BY <1>1
  <1>5. ASSUME NEW k \in S PROVE k + 1 \in S
    <2> SUFFICES ASSUME k + 1 <= n, NEW i \in 1..Len(L[k + 1])
                 PROVE  Fine(L[k + 1][i])
      OBVIOUS
    <2>1. k \in Nat /\ k \in 0..n /\ \A j \in 1..Len(L[k]) : Fine(L[k][j])
      BY <1>1
    <2>2. L[k + 1] = Above(L[k])
      BY <1>1, <2>1
    <2> HIDE DEF n, L, T, Fine
    <2>3. /\ Len(L[k + 1]) = (Len(L[k]) + 1) \div 2
          /\ L[k + 1][i] = IF 2 * i <= Len(L[k]) THEN Node(L[k][2 * i - 1], L[k][2 * i])
                           ELSE L[k][Len(L[k])]
      BY <1>2, <2>1, <2>2, AboveShape
    <2>4. Len(L[k]) \in Nat \ {0}
      BY <1>2, <2>1 DEF IsArray
    <2>5. CASE 2 * i <= Len(L[k])
      <3>1. L[k][2 * i - 1] \in T /\ L[k][2 * i] \in T
        BY <1>3, <2>1, <2>4, <2>5
      <3> QED
        BY <2>3, <2>5, <3>1 DEF Fine
    <2>6. CASE ~ (2 * i <= Len(L[k]))
      BY <2>1, <2>3, <2>4, <2>6
    <2> QED
      BY <2>5, <2>6
  <1>s. S \in SUBSET Nat
    OBVIOUS
  <1> HIDE DEF S
  <1>6. S = Nat
    BY <1>s, <1>4, <1>5, Induction
  <1>7. PICK k \in 0..n : \E i \in 1..Len(L[k]) : h = L[k][i]
    BY DEF Tree
  <1> HIDE DEF n, L, T, Fine
  <1>8. \A i \in 1..Len(L[k]) : Fine(L[k][i])
    BY <1>1, <1>6 DEF S
  <1> QED
    BY <1>7, <1>8 DEF n, L, T, Fine

\* The root of a file is a hash of its tree.
LEMMA RootInTree ==
  ASSUME NEW leaves, IsArray(leaves)
  PROVE  Layers(leaves)[Len(leaves)][1] \in Tree(leaves)
  <1> DEFINE n == Len(leaves)
             L == Layers(leaves)
  <1>1. n \in Nat /\ Len(L[n]) = 1
    BY LayersShape DEF IsArray
  <1>2. Tree(leaves) = UNION {{L[k][i] : i \in 1..Len(L[k])} : k \in 0..n}
    BY DEF Tree
  <1> HIDE DEF n, L
  <1>3. n \in 0..n /\ 1 \in 1..Len(L[n])
    BY <1>1
  <1>4. L[n][1] \in {L[n][i] : i \in 1..Len(L[n])}
    BY <1>3
  <1>5. L[n][1] \in Tree(leaves)
    BY <1>2, <1>3, <1>4
  <1> QED
    BY <1>5 DEF n, L

\* Whatever the proof is made of: if it proves an id, the id has a leaf.
LEMMA ProofOfLeaf ==
  ASSUME NEW leaves, IsArray(leaves),
         \A i \in 1..Len(leaves) : \E y : leaves[i] = Leaf(y),
         NEW proof, Len(proof) \in Nat, NEW id,
         Computed(proof, Leaf(id)) \in Tree(leaves)
  PROVE  \E i \in 1..Len(leaves) : leaves[i] = Leaf(id)
  <1> DEFINE T == Tree(leaves)
             Goal == \E i \in 1..Len(leaves) : leaves[i] = Leaf(id)
  <1>1. PICK h : /\ h[0] = Leaf(id)
                 /\ \A i \in 1..Len(proof) : h[i] = Node(h[i - 1], proof[i])
                 /\ Computed(proof, Leaf(id)) = h[Len(proof)]
    BY ComputedSteps
  <1> DEFINE S == {i \in Nat : i <= Len(proof) /\ h[i] \in T => Goal}
  <1> HIDE DEF T
  <1>2. 0 \in S
    <2> SUFFICES ASSUME h[0] \in T PROVE Goal
      OBVIOUS
    <2>1. \A a, b : Leaf(id) # Node(a, b)
      BY HashesDiffer
    <2> QED
      BY <1>1, <2>1, TreeNodes DEF T
  <1>3. ASSUME NEW i \in S PROVE i + 1 \in S
    <2> SUFFICES ASSUME i + 1 <= Len(proof), h[i + 1] \in T PROVE Goal
      OBVIOUS
    <2>1. h[i + 1] = Node(h[i], proof[i + 1])
      BY <1>1
    <2>2. \A j \in 1..Len(leaves) : h[i + 1] # leaves[j]
      BY <2>1, HashesDiffer
    <2>3. PICK a \in T, b \in T : h[i + 1] = Node(a, b)
      BY <2>2, TreeNodes DEF T
    <2>4. h[i] \in {a, b}
      <3>1. Node(h[i], proof[i + 1]) = Node(a, b)
        BY <2>1, <2>3
      <3> QED
        BY <3>1, HashesDiffer
    <2> QED
      BY <2>4
  <1> HIDE DEF S
  <1>4. S = Nat
    BY <1>2, <1>3, Induction, S \in SUBSET Nat DEF S
  <1> QED
    BY <1>1, <1>4 DEF S, T

---------------------------------------------------------------------------
(* The leaves. *)

Files == Seq(TokenIds) \ {<<>>}

\* Where the ids are whose leaves are among the first k in the order of hashes.
Places(ids, k) == {i \in DOMAIN ids : \E j \in 1..k : ids[i] = HashOrder[j]}

\* Counting reaches every id of the file, and grows only where an id of the
\* file has its leaf.
LEMMA AmongGrows ==
  ASSUME NEW ids \in Files
  PROVE  /\ Len(HashOrder) \in Nat /\ DOMAIN HashOrder = 1..Len(HashOrder)
         /\ Len(ids) \in Nat \ {0} /\ DOMAIN ids = 1..Len(ids)
         /\ \A k \in Nat : Among(ids, k) \in 0..Len(ids)
         /\ Among(ids, 0) = 0 /\ Among(ids, Len(HashOrder)) = Len(ids)
         /\ \A k \in Nat \ {0} : \/ Among(ids, k - 1) = Among(ids, k)
                                 \/ \E i \in DOMAIN ids : ids[i] = HashOrder[k]
  <1> DEFINE N == Len(HashOrder)
             n == Len(ids)
  <1>1. N \in Nat /\ DOMAIN HashOrder = 1..N
    BY MerkleAssumption, LenProperties
  <1>2. n \in Nat \ {0} /\ DOMAIN ids = 1..n /\ \A i \in DOMAIN ids : ids[i] \in TokenIds
    BY LenProperties, EmptySeq DEF Files
  <1>3. IsFiniteSet(DOMAIN ids) /\ Cardinality(DOMAIN ids) = n
    BY <1>2, FS_Interval
  <1>4. \A k : Among(ids, k) = Cardinality(Places(ids, k))
    BY DEF Among, Places
  <1>5. \A k \in Nat : Among(ids, k) \in 0..n
    <2> TAKE k \in Nat
    <2>1. Places(ids, k) \subseteq DOMAIN ids
      BY DEF Places
    <2>2. /\ IsFiniteSet(Places(ids, k)) /\ Cardinality(Places(ids, k)) <= n
      BY <1>3, <2>1, FS_Subset
    <2> QED
      BY <1>2, <1>4, <2>2, FS_CardinalityType
  <1>6. Among(ids, 0) = 0
    <2>1. Places(ids, 0) = {}
      BY DEF Places
    <2> QED
      BY <1>4, <2>1, FS_EmptySet
  <1>7. Among(ids, N) = n
    <2>1. Places(ids, N) = DOMAIN ids
      <3>1. TokenIds = {HashOrder[j] : j \in 1..N}
        BY <1>1 DEF TokenIds, ToSet
      <3> QED
        BY <1>2, <3>1 DEF Places
    <2> QED
      BY <1>3, <1>4, <2>1
  <1>8. ASSUME NEW k \in Nat \ {0}, \A i \in DOMAIN ids : ids[i] # HashOrder[k]
        PROVE  Among(ids, k - 1) = Among(ids, k)
    <2>1. Places(ids, k - 1) = Places(ids, k)
      <3>1. 1..k = (1..k - 1) \cup {k}
        OBVIOUS
      <3> QED
        BY <1>8, <3>1 DEF Places
    <2> QED
      BY <1>4, <2>1
  <1> QED
    BY <1>1, <1>2, <1>5, <1>6, <1>7, <1>8

\* Every leaf of a file is the leaf of an id in it.
LEMMA LeavesOfFile ==
  ASSUME NEW ids \in Files
  PROVE  /\ IsArray(Leaves(ids)) /\ Len(Leaves(ids)) = Len(ids)
         /\ \A i \in 1..Len(ids) :
              \E k \in 1..Len(HashOrder) :
                 /\ Among(ids, k - 1) < i /\ i <= Among(ids, k)
                 /\ Leaves(ids)[i] = Leaf(HashOrder[k])
                 /\ HashOrder[k] \in ToSet(ids)
  <1> DEFINE N == Len(HashOrder)
             n == Len(ids)
             A(k) == Among(ids, k)
             at(i) == CHOOSE k \in DOMAIN HashOrder : A(k - 1) < i /\ i <= A(k)
  <1>1. /\ N \in Nat /\ DOMAIN HashOrder = 1..N
        /\ n \in Nat \ {0} /\ DOMAIN ids = 1..n
        /\ \A k \in Nat : A(k) \in 0..n
        /\ A(0) = 0 /\ A(N) = n
        /\ \A k \in Nat \ {0} : \/ A(k - 1) = A(k)
                                \/ \E i \in DOMAIN ids : ids[i] = HashOrder[k]
    BY AmongGrows
  <1>2. Leaves(ids) = [i \in 1..n |-> Leaf(HashOrder[at(i)])]
    BY <1>1 DEF Leaves
  <1> HIDE DEF N, n, A
  <1>3. ASSUME NEW i \in 1..n
        PROVE  \E k \in DOMAIN HashOrder : A(k - 1) < i /\ i <= A(k)
    <2> DEFINE T == {k \in Nat : i <= A(k)}
    <2>1. N \in T
      BY <1>1
    <2>2. T \in SUBSET Nat /\ T # {}
      BY <2>1
    <2>3. PICK m \in T : \A k \in T : m <= k
      BY <2>2, LeastNumber
    <2>4. m # 0 /\ m <= N
      <3>1. m \in Nat /\ i <= A(m) /\ m <= N
        BY <2>1, <2>3
      <3>2. m # 0
        <4> SUFFICES ASSUME m = 0 PROVE FALSE
          OBVIOUS
        <4> QED
          BY <1>1, <3>1
      <3> QED
        BY <3>1, <3>2
    <2>5. m - 1 \in Nat /\ m - 1 \notin T
      BY <2>3, <2>4
    <2>6. A(m - 1) < i /\ i <= A(m)
      BY <1>1, <2>3, <2>5
    <2>7. m \in DOMAIN HashOrder
      BY <1>1, <2>3, <2>4
    <2> QED
      BY <2>6, <2>7
  <1>4. \A i \in 1..n : at(i) \in DOMAIN HashOrder /\ A(at(i) - 1) < i /\ i <= A(at(i))
    BY <1>3
  <1> HIDE DEF at
  <1>5. ASSUME NEW i \in 1..n
        PROVE  HashOrder[at(i)] \in ToSet(ids)
    <2>1. at(i) \in 1..N /\ A(at(i) - 1) < i /\ i <= A(at(i))
      BY <1>1, <1>4
    <2>2. A(at(i) - 1) # A(at(i))
      BY <1>1, <2>1
    <2>3. \E j \in DOMAIN ids : ids[j] = HashOrder[at(i)]
      BY <1>1, <2>1, <2>2
    <2> QED
      BY <2>3 DEF ToSet
  <1>6. Len(Leaves(ids)) = n
    <2> DEFINE S == {Leaf(HashOrder[at(i)]) : i \in 1..n}
    <2>1. Leaves(ids) \in [1..n -> S]
      BY <1>2
    <2> HIDE DEF S
    <2> QED
      BY <1>1, <2>1, ArrayLength
  <1>7. IsArray(Leaves(ids))
    BY <1>1, <1>2, <1>6 DEF IsArray
  <1>8. \A i \in 1..n : Leaves(ids)[i] = Leaf(HashOrder[at(i)])
    BY <1>2
  <1> QED
    BY <1>1, <1>4, <1>5, <1>6, <1>7, <1>8 DEF N, n, A

\* The root of a file proves no id that is not in the file, by any proof.
LEMMA NothingElseVerifies ==
  ASSUME NEW ids \in Files, NEW proof, Len(proof) \in Nat, NEW id,
         Verify(proof, GenerateMerkleRoot(ids), Leaf(id))
  PROVE  id \in ToSet(ids)
  <1> DEFINE leaves == Leaves(ids)
  <1>1. /\ IsArray(leaves)
        /\ \A i \in 1..Len(leaves) : \E x \in ToSet(ids) : leaves[i] = Leaf(x)
    BY LeavesOfFile
  <1>2. Computed(proof, Leaf(id)) \in Tree(leaves)
    BY <1>1, RootInTree DEF Verify, GenerateMerkleRoot
  <1> HIDE DEF leaves
  <1>3. PICK i \in 1..Len(leaves) : leaves[i] = Leaf(id)
    BY <1>1, <1>2, ProofOfLeaf
  <1> QED
    BY <1>1, <1>3, HashesDiffer

---------------------------------------------------------------------------
(* The proofs that the script makes. *)

IsWalk(w, leaves, at, n) ==
    w = [k \in 0..n |-> IF k = 0 THEN [place |-> at, proof |-> <<>>]
                        ELSE Up(Layers(leaves)[k - 1], w[k - 1])]

\* The walk from a leaf to the root has a result.
LEMMA WalkExists ==
  ASSUME NEW n \in Nat, NEW leaves, NEW at
  PROVE  \E w : IsWalk(w, leaves, at, n)
  <1> DEFINE start == [place |-> at, proof |-> <<>>]
             S == {m \in Nat : \E w : IsWalk(w, leaves, at, m)}
  <1>1. 0 \in S
    <2> DEFINE w == [k \in 0..0 |-> start]
    <2>1. w = [k \in 0..0 |-> IF k = 0 THEN start ELSE Up(Layers(leaves)[k - 1], w[k - 1])]
      OBVIOUS
    <2> QED
      BY <2>1 DEF IsWalk
  <1>2. ASSUME NEW m \in S PROVE m + 1 \in S
    <2> HIDE DEF start
    <2>1. PICK w : w = [k \in 0..m |-> IF k = 0 THEN start
                                       ELSE Up(Layers(leaves)[k - 1], w[k - 1])]
      BY DEF IsWalk, start
    <2> DEFINE v == [k \in 0..m + 1 |-> IF k <= m THEN w[k] ELSE Up(Layers(leaves)[m], w[m])]
    <2>2. ASSUME NEW k \in 0..m + 1
          PROVE  v[k] = IF k = 0 THEN start ELSE Up(Layers(leaves)[k - 1], v[k - 1])
      <3>1. CASE k = 0
        BY <2>1, <3>1
      <3>2. CASE k \in 1..m
        <4>1. w[k] = Up(Layers(leaves)[k - 1], w[k - 1]) /\ k - 1 \in 0..m
          BY <2>1, <3>2
        <4> QED
          BY <3>2, <4>1
      <3>3. CASE k = m + 1
        BY <3>3
      <3> QED
        BY <3>1, <3>2, <3>3
    <2>3. v = [k \in 0..m + 1 |-> IF k = 0 THEN start ELSE Up(Layers(leaves)[k - 1], v[k - 1])]
      BY <2>2
    <2> HIDE DEF v
    <2> QED
      BY <2>3, SMTT(20) DEF IsWalk, start
  <1>s. S \in SUBSET Nat
    OBVIOUS
  <1> HIDE DEF S
  <1>3. n \in S
    BY <1>s, <1>1, <1>2, Induction
  <1> QED
    BY <1>3 DEF S

\* The proof of the script is gathered along the layers, from the place of the leaf.
LEMMA WalkSteps ==
  ASSUME NEW leaves, IsArray(leaves), NEW leaf \in ToSet(leaves)
  PROVE  \E w : \E at \in 1..Len(leaves) :
            /\ leaves[at] = leaf
            /\ w[0] = [place |-> at, proof |-> <<>>]
            /\ \A k \in 1..Len(leaves) : w[k] = Up(Layers(leaves)[k - 1], w[k - 1])
            /\ HexProof(leaves, leaf) = w[Len(leaves)].proof
  <1> DEFINE at == CHOOSE i \in DOMAIN leaves : leaves[i] = leaf
  <1>1. at \in 1..Len(leaves) /\ leaves[at] = leaf
    BY DEF ToSet, IsArray
  <1>2. Len(leaves) \in Nat
    BY DEF IsArray
  <1>3. \E w : IsWalk(w, leaves, at, Len(leaves))
    BY <1>2, WalkExists
  <1> DEFINE walk[k \in 0..Len(leaves)] == IF k = 0 THEN [place |-> at, proof |-> <<>>]
                                           ELSE Up(Layers(leaves)[k - 1], walk[k - 1])
  <1>4. HexProof(leaves, leaf) = walk[Len(leaves)].proof
    BY DEF HexProof
  <1> HIDE DEF at
  <1>5. walk = [k \in 0..Len(leaves) |-> IF k = 0 THEN [place |-> at, proof |-> <<>>]
                                         ELSE Up(Layers(leaves)[k - 1], walk[k - 1])]
    BY <1>3, Zenon DEF IsWalk
  <1> HIDE DEF walk
  <1>6. /\ walk[0] = [place |-> at, proof |-> <<>>]
        /\ \A k \in 1..Len(leaves) : walk[k] = Up(Layers(leaves)[k - 1], walk[k - 1])
    BY <1>2, <1>5
  <1> QED
    BY <1>1, <1>4, <1>6

\* The loop of the contract goes on where a shorter proof ends.
LEMMA ComputedAppend ==
  ASSUME NEW T, NEW p \in Seq(T), NEW x \in T, NEW leaf
  PROVE  Computed(Append(p, x), leaf) = Node(Computed(p, leaf), x)
  <1> DEFINE q == Append(p, x)
             n == Len(p)
  <1>1. /\ n \in Nat /\ Len(q) = n + 1
        /\ \A i \in 1..n : q[i] = p[i]
        /\ q[n + 1] = x
    BY AppendProperties, LenProperties
  <1> HIDE DEF q
  <1>2. PICK h : /\ h[0] = leaf
                 /\ \A i \in 1..n : h[i] = Node(h[i - 1], p[i])
                 /\ Computed(p, leaf) = h[n]
    BY <1>1, ComputedSteps
  <1>3. PICK g : /\ g[0] = leaf
                 /\ \A i \in 1..Len(q) : g[i] = Node(g[i - 1], q[i])
                 /\ Computed(q, leaf) = g[Len(q)]
    BY <1>1, ComputedSteps
  <1> HIDE DEF n
  <1> DEFINE S == {i \in Nat : i <= n => g[i] = h[i]}
  <1>4. 0 \in S
    BY <1>2, <1>3
  <1>5. ASSUME NEW i \in S PROVE i + 1 \in S
    <2> SUFFICES ASSUME i + 1 <= n PROVE g[i + 1] = h[i + 1]
      OBVIOUS
    <2>1. g[i] = h[i]
      BY <1>1
    <2>2. g[i + 1] = Node(g[i], q[i + 1]) /\ h[i + 1] = Node(h[i], p[i + 1])
      BY <1>1, <1>2, <1>3
    <2>3. q[i + 1] = p[i + 1]
      BY <1>1
    <2> QED
      BY <2>1, <2>2, <2>3
  <1>s. S \in SUBSET Nat
    OBVIOUS
  <1> HIDE DEF S
  <1>6. S = Nat
    BY <1>s, <1>4, <1>5, Induction
  <1>7. g[n] = h[n]
    BY <1>1, <1>6 DEF S
  <1>8. g[n + 1] = Node(g[n], x)
    BY <1>1, <1>3
  <1> QED
    BY <1>1, <1>2, <1>3, <1>7, <1>8 DEF q

\* Where the sibling of a place is, and which node they make.
LEMMA Siblings ==
  ASSUME NEW m \in Nat, NEW p \in 1..m
  PROVE  /\ (p + 1) \div 2 \in 1..((m + 1) \div 2)
         /\ \/ /\ Sibling(p) = p + 1 /\ p + 1 \in 1..m
               /\ 2 * ((p + 1) \div 2) = p + 1
            \/ /\ Sibling(p) = p - 1 /\ p - 1 \in 1..m
               /\ 2 * ((p + 1) \div 2) = p
            \/ /\ Sibling(p) = m + 1 /\ p = m
               /\ 2 * ((p + 1) \div 2) = m + 1
  <1>1. CASE p % 2 = 1
    BY <1>1 DEF Sibling
  <1>2. CASE p % 2 = 0
    BY <1>2 DEF Sibling
  <1> QED
    BY <1>1, <1>2

\* One layer up, the proof proves the node above.
LEMMA UpProves ==
  ASSUME NEW layer, IsArray(layer), NEW T, \A i \in 1..Len(layer) : layer[i] \in T,
         NEW below, NEW leaf,
         below.place \in 1..Len(layer), below.proof \in Seq(T),
         Computed(below.proof, leaf) = layer[below.place]
  PROVE  /\ Up(layer, below).place \in 1..Len(Above(layer))
         /\ Up(layer, below).proof \in Seq(T)
         /\ Computed(Up(layer, below).proof, leaf) = Above(layer)[Up(layer, below).place]
  <1> DEFINE m == Len(layer)
             p == below.place
             q == (p + 1) \div 2
  <1>1. m \in Nat /\ DOMAIN layer = 1..m
    BY DEF IsArray
  <1>2. /\ Up(layer, below).place = q
        /\ Up(layer, below).proof = IF Sibling(p) \in 1..m
                                    THEN Append(below.proof, layer[Sibling(p)]) ELSE below.proof
    BY <1>1 DEF Up
  <1>3. /\ Len(Above(layer)) = (m + 1) \div 2
        /\ \A i \in 1..Len(Above(layer)) :
              Above(layer)[i] = IF 2 * i <= m THEN Node(layer[2 * i - 1], layer[2 * i])
                                ELSE layer[m]
    BY AboveShape
  <1>4. /\ q \in 1..((m + 1) \div 2)
        /\ \/ Sibling(p) = p + 1 /\ p + 1 \in 1..m /\ 2 * q = p + 1
           \/ Sibling(p) = p - 1 /\ p - 1 \in 1..m /\ 2 * q = p
           \/ Sibling(p) = m + 1 /\ p = m /\ 2 * q = m + 1
    BY <1>1, Siblings
  <1> HIDE DEF m, q
  <1>5. CASE Sibling(p) \in 1..m
    <2> DEFINE x == layer[Sibling(p)]
    <2>1. x \in T
      BY <1>5 DEF m
    <2>2. Up(layer, below).proof = Append(below.proof, x)
      BY <1>2, <1>5
    <2>3. Append(below.proof, x) \in Seq(T)
      BY <2>1, AppendProperties
    <2>4. Computed(Append(below.proof, x), leaf) = Node(layer[p], x)
      BY <2>1, ComputedAppend
    <2>5. Above(layer)[q] = Node(layer[p], x)
      <3>1. CASE Sibling(p) = p + 1 /\ p + 1 \in 1..m /\ 2 * q = p + 1
        <4>1. 2 * q <= m /\ 2 * q - 1 = p
          BY <1>1, <1>4, <3>1
        <4>2. Above(layer)[q] = Node(layer[2 * q - 1], layer[2 * q])
          BY <1>3, <1>4, <4>1
        <4> QED
          BY <3>1, <4>1, <4>2
      <3>2. CASE Sibling(p) = p - 1 /\ p - 1 \in 1..m /\ 2 * q = p
        <4>1. Above(layer)[q] = Node(layer[p - 1], layer[p])
          BY <1>1, <1>3, <1>4, <3>2 DEF m
        <4> QED
          BY <3>2, <4>1, HashesDiffer
      <3> QED
        BY <1>1, <1>4, <1>5, <3>1, <3>2
    <2> QED
      BY <1>2, <1>3, <1>4, <2>2, <2>3, <2>4, <2>5
  <1>6. CASE Sibling(p) \notin 1..m
    <2>1. p = m /\ 2 * q = m + 1
      BY <1>4, <1>6
    <2>2. Above(layer)[q] = layer[p]
      BY <1>1, <1>3, <1>4, <2>1
    <2> QED
      BY <1>2, <1>3, <1>4, <1>6, <2>2
  <1> QED
    BY <1>5, <1>6

\* The script proves every leaf to the root of the same tree.
LEMMA HexProofProves ==
  ASSUME NEW leaves, IsArray(leaves), NEW leaf \in ToSet(leaves)
  PROVE  /\ HexProof(leaves, leaf) \in Seq(Tree(leaves))
         /\ Computed(HexProof(leaves, leaf), leaf) = Layers(leaves)[Len(leaves)][1]
  <1> DEFINE n == Len(leaves)
             L == Layers(leaves)
             T == Tree(leaves)
  <1>1. n \in Nat /\ L[0] = leaves /\ \A k \in 1..n : L[k] = Above(L[k - 1])
    BY LayersSteps DEF IsArray
  <1>2. (\A k \in 0..n : IsArray(L[k])) /\ Len(L[n]) = 1
    BY LayersShape
  <1>3. \A k \in 0..n : \A i \in 1..Len(L[k]) : L[k][i] \in T
    BY DEF Tree
  <1>4. PICK w : \E at \in 1..n :
            /\ leaves[at] = leaf
            /\ w[0] = [place |-> at, proof |-> <<>>]
            /\ \A k \in 1..n : w[k] = Up(L[k - 1], w[k - 1])
            /\ HexProof(leaves, leaf) = w[n].proof
    BY WalkSteps
  <1> DEFINE Fine(k) == /\ w[k].place \in 1..Len(L[k])
                        /\ w[k].proof \in Seq(T)
                        /\ Computed(w[k].proof, leaf) = L[k][w[k].place]
             S == {k \in Nat : k <= n => Fine(k)}
  <1>5. 0 \in S
    <2>1. PICK at \in 1..n : leaves[at] = leaf /\ w[0] = [place |-> at, proof |-> <<>>]
      BY <1>4
    <2>2. <<>> \in Seq(T) /\ Len(<<>>) = 0
      BY EmptySeq
    <2>3. Computed(<<>>, leaf) = leaf
      BY <2>2, ComputedSteps
    <2>4. w[0].place = at /\ w[0].proof = <<>>
      BY <2>1
    <2>5. at \in 1..Len(L[0]) /\ L[0][at] = leaf
      BY <1>1, <2>1
    <2>6. Fine(0)
      BY <2>2, <2>3, <2>4, <2>5
    <2> QED
      BY <2>6
  <1>6. ASSUME NEW k \in S PROVE k + 1 \in S
    <2> SUFFICES ASSUME k + 1 <= n PROVE Fine(k + 1)
      OBVIOUS
    <2>1. Fine(k) /\ k \in 0..n
      BY <1>1
    <2>2. L[k + 1] = Above(L[k]) /\ w[k + 1] = Up(L[k], w[k])
      BY <1>1, <1>4, <2>1
    <2>3. IsArray(L[k]) /\ \A i \in 1..Len(L[k]) : L[k][i] \in T
      BY <1>2, <1>3, <2>1
    <2> DEFINE layer == L[k]
               below == w[k]
    <2>4. /\ IsArray(layer) /\ \A i \in 1..Len(layer) : layer[i] \in T
          /\ below.place \in 1..Len(layer) /\ below.proof \in Seq(T)
          /\ Computed(below.proof, leaf) = layer[below.place]
      BY <2>1, <2>3
    <2> HIDE DEF n, L, T, layer, below
    <2>5. /\ Up(layer, below).place \in 1..Len(Above(layer))
          /\ Up(layer, below).proof \in Seq(T)
          /\ Computed(Up(layer, below).proof, leaf) = Above(layer)[Up(layer, below).place]
      BY <2>4, UpProves
    <2> QED
      BY <2>2, <2>5 DEF layer, below
  <1>s. S \in SUBSET Nat
    OBVIOUS
  <1> HIDE DEF S
  <1>7. S = Nat
    BY <1>s, <1>5, <1>6, Induction
  <1>8. Fine(n)
    BY <1>1, <1>7 DEF S
  <1> HIDE DEF n, L, T
  <1>9. w[n].place = 1
    BY <1>2, <1>8
  <1> QED
    BY <1>4, <1>8, <1>9 DEF n, L, T

---------------------------------------------------------------------------
(* Files that hold the same ids. *)

\* More hashes have at least as many ids.
LEMMA AmongMonotone ==
  ASSUME NEW ids \in Files, NEW k \in Nat, NEW l \in Nat, k <= l
  PROVE  Among(ids, k) <= Among(ids, l)
  <1>1. IsFiniteSet(DOMAIN ids)
    BY AmongGrows, FS_Interval
  <1>2. Places(ids, k) \subseteq Places(ids, l)
    BY DEF Places
  <1>3. Places(ids, l) \subseteq DOMAIN ids
    BY DEF Places
  <1>4. IsFiniteSet(Places(ids, l))
    BY <1>1, <1>3, FS_Subset
  <1>5. Cardinality(Places(ids, k)) <= Cardinality(Places(ids, l))
    BY <1>2, <1>4, FS_Subset
  <1> QED
    BY <1>5 DEF Among, Places

\* A leaf has one hash.
LEMMA OnePlace ==
  ASSUME NEW ids \in Files, NEW i \in Nat, NEW k \in Nat \ {0}, NEW l \in Nat \ {0},
         Among(ids, k - 1) < i, i <= Among(ids, k),
         Among(ids, l - 1) < i, i <= Among(ids, l)
  PROVE  k = l
  <1>1. \A m \in Nat : Among(ids, m) \in Nat
    <2> TAKE m \in Nat
    <2>1. Len(ids) \in Nat /\ Among(ids, m) \in 0..Len(ids)
      BY AmongGrows
    <2>2. \A n \in Nat : 0..n \subseteq Nat
      OBVIOUS
    <2> QED
      BY <2>1, <2>2
  <1>2. ASSUME k < l PROVE FALSE
    <2>1. Among(ids, k) <= Among(ids, l - 1)
      BY <1>2, AmongMonotone
    <2>2. Among(ids, k) \in Nat /\ Among(ids, l - 1) \in Nat
      BY <1>1
    <2> QED
      BY <2>1, <2>2
  <1>3. ASSUME l < k PROVE FALSE
    <2>1. Among(ids, l) <= Among(ids, k - 1)
      BY <1>3, AmongMonotone
    <2>2. Among(ids, l) \in Nat /\ Among(ids, k - 1) \in Nat
      BY <1>1
    <2> QED
      BY <2>1, <2>2
  <1> QED
    BY <1>2, <1>3

\* One hash more counts the copies of its id.
LEMMA AmongNext ==
  ASSUME NEW ids \in Files, NEW k \in 1..Len(HashOrder)
  PROVE  LET copies == Cardinality({i \in DOMAIN ids : ids[i] = HashOrder[k]})
         IN  copies \in Nat /\ Among(ids, k) = Among(ids, k - 1) + copies
  <1> DEFINE C == {i \in DOMAIN ids : ids[i] = HashOrder[k]}
             P(m) == Places(ids, m)
  <1>1. /\ Len(HashOrder) \in Nat /\ DOMAIN HashOrder = 1..Len(HashOrder)
        /\ Len(ids) \in Nat /\ DOMAIN ids = 1..Len(ids)
    BY AmongGrows
  <1>2. IsFiniteSet(DOMAIN ids)
    BY <1>1, FS_Interval
  <1>3. IsFiniteSet(C) /\ IsFiniteSet(P(k - 1))
    <2>1. C \subseteq DOMAIN ids /\ P(k - 1) \subseteq DOMAIN ids
      BY DEF Places
    <2> QED
      BY <1>2, <2>1, FS_Subset
  <1>4. P(k) = P(k - 1) \cup C
    <2>1. 1..k = (1..k - 1) \cup {k}
      BY <1>1
    <2> QED
      BY <2>1 DEF Places
  <1>5. P(k - 1) \cap C = {}
    <2> SUFFICES ASSUME NEW i \in DOMAIN ids, NEW j \in 1..k - 1,
                        ids[i] = HashOrder[j], ids[i] = HashOrder[k]
                 PROVE  FALSE
      BY DEF Places
    <2>1. j \in DOMAIN HashOrder /\ k \in DOMAIN HashOrder /\ j # k
      BY <1>1
    <2> QED
      BY <2>1, MerkleAssumption DEF IsInjective
  <1> HIDE DEF C, P
  <1>6. /\ Cardinality(P(k - 1) \cup C)
             = Cardinality(P(k - 1)) + Cardinality(C) - Cardinality(P(k - 1) \cap C)
        /\ Cardinality({}) = 0
    BY <1>3, FS_Union, FS_EmptySet
  <1>7. Cardinality(C) \in Nat /\ Cardinality(P(k - 1)) \in Nat
    BY <1>3, FS_CardinalityType
  <1>8. Cardinality(P(k)) = Cardinality(P(k - 1)) + Cardinality(C)
    <2>1. Cardinality(P(k - 1) \cap C) = 0
      BY <1>5, <1>6
    <2>2. Cardinality(P(k)) = Cardinality(P(k - 1) \cup C)
      BY <1>4
    <2> QED
      BY <1>6, <1>7, <2>1, <2>2
  <1> QED
    BY <1>7, <1>8 DEF Among, Places, P, C

\* The order of the file, and which file it is, do not matter for the tree.
LEMMA SameIdsSameLeaves ==
  ASSUME NEW r \in Files, NEW s \in Files, SameIds(r, s)
  PROVE  Leaves(r) = Leaves(s)
  <1> DEFINE N == Len(HashOrder)
             S == {k \in Nat : k <= N => Among(r, k) = Among(s, k)}
  <1>1. N \in Nat /\ DOMAIN HashOrder = 1..N
    BY AmongGrows
  <1>2. 0 \in S
    BY AmongGrows
  <1>3. ASSUME NEW k \in S PROVE k + 1 \in S
    <2> SUFFICES ASSUME k + 1 <= N PROVE Among(r, k + 1) = Among(s, k + 1)
      OBVIOUS
    <2>1. Among(r, k) = Among(s, k) /\ k + 1 \in 1..N /\ (k + 1) - 1 = k
      BY <1>1
    <2>2. HashOrder[k + 1] \in TokenIds
      BY <1>1, <2>1 DEF TokenIds, ToSet
    <2>3. Cardinality({i \in DOMAIN r : r[i] = HashOrder[k + 1]})
             = Cardinality({i \in DOMAIN s : s[i] = HashOrder[k + 1]})
      BY <2>2 DEF SameIds
    <2>4. /\ Among(r, k + 1) = Among(r, (k + 1) - 1)
                + Cardinality({i \in DOMAIN r : r[i] = HashOrder[k + 1]})
          /\ Among(s, k + 1) = Among(s, (k + 1) - 1)
                + Cardinality({i \in DOMAIN s : s[i] = HashOrder[k + 1]})
      BY <2>1, AmongNext
    <2> QED
      BY <2>1, <2>3, <2>4
  <1>t. S \in SUBSET Nat
    OBVIOUS
  <1> HIDE DEF S
  <1>4. S = Nat
    BY <1>t, <1>2, <1>3, Induction
  <1>5. \A k \in 0..N : Among(r, k) = Among(s, k)
    BY <1>1, <1>4 DEF S
  <1>6. Len(r) = Len(s) /\ Len(r) \in Nat
    <2>1. Among(r, N) = Len(r) /\ Among(s, N) = Len(s) /\ Len(r) \in Nat
      BY AmongGrows
    <2> QED
      BY <1>1, <1>5, <2>1
  <1>7. ASSUME NEW i \in 1..Len(r) PROVE Leaves(r)[i] = Leaves(s)[i]
    <2>1. PICK k \in 1..N : /\ Among(r, k - 1) < i /\ i <= Among(r, k)
                            /\ Leaves(r)[i] = Leaf(HashOrder[k])
      BY LeavesOfFile
    <2>2. PICK l \in 1..N : /\ Among(s, l - 1) < i /\ i <= Among(s, l)
                            /\ Leaves(s)[i] = Leaf(HashOrder[l])
      BY <1>6, LeavesOfFile
    <2>3. Among(s, k - 1) < i /\ i <= Among(s, k)
      BY <1>1, <1>5, <2>1
    <2>4. k = l
      <3>1. k \in Nat \ {0} /\ l \in Nat \ {0} /\ i \in Nat
        BY <1>1, <1>6
      <3> QED
        BY <2>2, <2>3, <3>1, OnePlace
    <2> QED
      BY <2>1, <2>2, <2>4
  <1>8. DOMAIN Leaves(r) = 1..Len(r) /\ DOMAIN Leaves(s) = 1..Len(s)
    BY AmongGrows DEF Leaves
  <1>9. Leaves(r) = [i \in DOMAIN Leaves(r) |-> Leaves(r)[i]]
     /\ Leaves(s) = [i \in DOMAIN Leaves(s) |-> Leaves(s)[i]]
    BY DEF Leaves
  <1> QED
    BY <1>6, <1>7, <1>8, <1>9

\* Every id of a file has a leaf.
LEMMA IdsHaveLeaves ==
  ASSUME NEW ids \in Files, NEW id \in ToSet(ids)
  PROVE  Leaf(id) \in ToSet(Leaves(ids))
  <1> DEFINE N == Len(HashOrder)
  <1>1. /\ N \in Nat /\ DOMAIN HashOrder = 1..N
        /\ Len(ids) \in Nat \ {0} /\ DOMAIN ids = 1..Len(ids)
        /\ \A k \in Nat : Among(ids, k) \in 0..Len(ids)
    BY AmongGrows
  <1>2. PICK k \in 1..N : HashOrder[k] = id
    <2>1. id \in TokenIds
      BY LenProperties DEF Files, ToSet
    <2> QED
      BY <1>1, <2>1 DEF TokenIds, ToSet
  <1> DEFINE C == {i \in DOMAIN ids : ids[i] = HashOrder[k]}
             i == Among(ids, k)
  <1>3. Among(ids, k - 1) < i /\ i \in 1..Len(ids)
    <2>1. C # {}
      BY <1>2 DEF ToSet
    <2>2. IsFiniteSet(C)
      <3>1. IsFiniteSet(DOMAIN ids) /\ C \subseteq DOMAIN ids
        BY <1>1, FS_Interval
      <3> QED
        BY <3>1, FS_Subset
    <2>3. Cardinality(C) # 0
      BY <2>1, <2>2, FS_EmptySet
    <2>4. Cardinality(C) \in Nat /\ i = Among(ids, k - 1) + Cardinality(C)
      BY AmongNext
    <2>5. Among(ids, k - 1) \in 0..Len(ids) /\ i \in 0..Len(ids)
      <3>1. k - 1 \in Nat /\ k \in Nat
        BY <1>1
      <3> QED
        BY <1>1, <3>1
    <2> QED
      BY <2>3, <2>4, <2>5
  <1> HIDE DEF i
  <1>4. PICK l \in 1..N : /\ Among(ids, l - 1) < i /\ i <= Among(ids, l)
                          /\ Leaves(ids)[i] = Leaf(HashOrder[l])
    BY <1>3, LeavesOfFile
  <1>5. k = l
    <2>1. k \in Nat \ {0} /\ l \in Nat \ {0} /\ i \in Nat
      <3>1. \A n \in Nat : 1..n \subseteq Nat \ {0}
        OBVIOUS
      <3>2. N \in Nat /\ Len(ids) \in Nat
        BY <1>1
      <3> HIDE DEF N
      <3> QED
        BY <1>3, <3>1, <3>2
    <2>2. i <= Among(ids, k)
      BY <2>1 DEF i
    <2> QED
      BY <1>3, <1>4, <2>1, <2>2, OnePlace
  <1>6. i \in DOMAIN Leaves(ids)
    BY <1>1, <1>3 DEF Leaves
  <1> QED
    BY <1>2, <1>4, <1>5, <1>6 DEF ToSet

---------------------------------------------------------------------------
(* Acceptance. *)

\* The proofs of a file are sequences, whichever id they are asked for.
LEMMA ProofsAreSequences ==
  ASSUME NEW ids \in Files, NEW id
  PROVE  Len(GenerateMerkleProof(id, ids)) \in Nat
  <1>1. IsArray(Leaves(ids))
    BY LeavesOfFile
  <1>2. CASE Leaf(id) \in ToSet(Leaves(ids))
    <2>1. HexProof(Leaves(ids), Leaf(id)) \in Seq(Tree(Leaves(ids)))
      BY <1>1, <1>2, HexProofProves
    <2> QED
      BY <2>1, LenProperties DEF GenerateMerkleProof
  <1>3. CASE Leaf(id) \notin ToSet(Leaves(ids))
    <2>1. HexProof(Leaves(ids), Leaf(id)) = <<>>
      BY <1>3 DEF HexProof
    <2> QED
      BY <2>1, EmptySeq DEF GenerateMerkleProof
  <1> QED
    BY <1>2, <1>3

\* Proofs made from one file are accepted by the root of another, if the files
\* hold the same ids.
LEMMA SameIdsAreAccepted ==
  ASSUME NEW r \in Files, NEW s \in Files, SameIds(r, s)
  PROVE  ValidateTokenIds(r, GenerateMerkleProofs(r, r), GenerateMerkleRoot(s))
  <1> SUFFICES ASSUME NEW i \in DOMAIN r
               PROVE  Verify(GenerateMerkleProof(r[i], r), GenerateMerkleRoot(s), Leaf(r[i]))
    BY DEF ValidateTokenIds, GenerateMerkleProofs
  <1>1. IsArray(Leaves(r))
    BY LeavesOfFile
  <1>2. Leaf(r[i]) \in ToSet(Leaves(r))
    BY IdsHaveLeaves DEF ToSet
  <1>3. Computed(HexProof(Leaves(r), Leaf(r[i])), Leaf(r[i]))
          = Layers(Leaves(r))[Len(Leaves(r))][1]
    BY <1>1, <1>2, HexProofProves
  <1>4. Leaves(r) = Leaves(s)
    BY SameIdsSameLeaves
  <1> QED
    BY <1>3, <1>4 DEF Verify, GenerateMerkleProof, GenerateMerkleRoot

---------------------------------------------------------------------------
(* The invariants. *)

\* The root of the pair is the root of what was published, and only ids that
\* were published have been wrapped.
MerkleInv ==
    /\ ranking \in Rankings
    /\ merkleRoot # NoRoot =>
         published \in Rankings /\ merkleRoot = GenerateMerkleRoot(published)
    /\ merkleRoot = NoRoot => wrapped = {}
    /\ OnlyPublishedIdsEnter

\* What the ranking file may hold.
LEMMA RankingsAreFiles == Rankings \subseteq Files
  BY MerkleAssumption DEF Files

\* The root of the pair stays the root of the file that was published.
THEOREM MerkleInvariant == Spec => []MerkleInv
  <1>1. Init => MerkleInv
    BY DEF Init, MerkleInv, OnlyPublishedIdsEnter
  <1>2. MerkleInv /\ [Next]_vars => MerkleInv'
    <2> SUFFICES ASSUME MerkleInv, [Next]_vars PROVE MerkleInv'
      OBVIOUS
    <2> USE DEF MerkleInv, OnlyPublishedIdsEnter
    <2>1. ASSUME NEW ids \in Rankings, EditRanking(ids) PROVE MerkleInv'
      BY <2>1 DEF EditRanking
    <2>2. CASE CreatePair
      BY <2>2 DEF CreatePair
    <2>3. ASSUME NEW ids \in BoundedSeq(TokenIds, MaxIds),
                 NEW forIds \in BoundedSeq(TokenIds, MaxIds), Wrap(ids, forIds)
          PROVE  MerkleInv'
      <3>1. published \in Files /\ ranking \in Files
        BY <2>3, RankingsAreFiles DEF Wrap
      <3>2. ToSet(ids) \subseteq ToSet(published)
        <4> SUFFICES ASSUME NEW i \in DOMAIN ids PROVE ids[i] \in ToSet(published)
          BY DEF ToSet
        <4> DEFINE proofs == GenerateMerkleProofs(forIds, ranking)
        <4>1. i \in DOMAIN proofs /\ Verify(proofs[i], merkleRoot, Leaf(ids[i]))
          BY <2>3 DEF Wrap, ValidateTokenIds
        <4>2. proofs[i] = GenerateMerkleProof(forIds[i], ranking)
          BY <4>1 DEF GenerateMerkleProofs
        <4>3. Len(proofs[i]) \in Nat
          BY <3>1, <4>2, ProofsAreSequences
        <4>4. merkleRoot = GenerateMerkleRoot(published)
          BY <2>3 DEF Wrap
        <4> HIDE DEF proofs
        <4> QED
          BY <3>1, <4>1, <4>3, <4>4, NothingElseVerifies
      <3> QED
        BY <2>3, <3>2 DEF Wrap
    <2>4. CASE UNCHANGED vars
      BY <2>4 DEF vars
    <2> QED
      BY <2>1, <2>2, <2>3, <2>4 DEF Next
  <1> QED
    BY <1>1, <1>2, PTL DEF Spec

\* No id enters the pair that was not in the file its root was made from
\* (_validateTokenIds), for every file, every order of the hashes and every
\* choice of proofs from the script.
THEOREM OnlyPublishedIdsEnterHolds == Spec => []OnlyPublishedIdsEnter
  <1>1. MerkleInv => OnlyPublishedIdsEnter
    BY DEF MerkleInv
  <1> QED
    BY <1>1, MerkleInvariant, PTL

\* No sequence of hashes of trees proves an id that was not in the file,
\* however long it is: MaxProof is any number (and by NothingElseVerifies, the
\* elements may be anything).
THEOREM NothingElseProvesHolds == Spec => []NothingElseProves
  <1>1. MerkleInv => NothingElseProves
    <2> SUFFICES ASSUME MerkleInv, merkleRoot # NoRoot,
                        NEW id \in TokenIds \ ToSet(published),
                        NEW proof \in MadeUpProofs,
                        ValidateTokenIds(<<id>>, <<proof>>, merkleRoot)
                 PROVE  FALSE
      BY DEF NothingElseProves
    <2>1. published \in Files /\ merkleRoot = GenerateMerkleRoot(published)
      BY RankingsAreFiles DEF MerkleInv
    <2>2. Len(proof) \in Nat
      <3>1. PICK m \in 0..MaxProof : proof \in [1..m -> Known]
        BY DEF MadeUpProofs, BoundedSeq, SeqOf
      <3>2. m \in Nat
        BY MerkleAssumption
      <3> QED
        BY <3>1, <3>2, ArrayLength
    <2>3. Verify(proof, merkleRoot, Leaf(id))
      <3>1. 1 \in DOMAIN <<id>> /\ <<id>>[1] = id /\ <<proof>>[1] = proof
        OBVIOUS
      <3> QED
        BY <3>1, Zenon DEF ValidateTokenIds
    <2> QED
      BY <2>1, <2>2, <2>3, NothingElseVerifies
  <1> QED
    BY <1>1, MerkleInvariant, PTL

\* Proofs that the script makes from any file with the ids of the root are
\* accepted (generate-merkle-root.js and -proof.js against _validateTokenIds).
THEOREM PublishedIdsAreAcceptedHolds == Spec => []PublishedIdsAreAccepted
  <1>1. MerkleInv => PublishedIdsAreAccepted
    <2> SUFFICES ASSUME MerkleInv, NEW r \in Rankings, merkleRoot # NoRoot,
                        SameIds(r, published)
                 PROVE  ValidateTokenIds(r, GenerateMerkleProofs(r, r), merkleRoot)
      BY DEF PublishedIdsAreAccepted
    <2>1. /\ r \in Files /\ published \in Files
          /\ merkleRoot = GenerateMerkleRoot(published)
      BY RankingsAreFiles DEF MerkleInv
    <2> QED
      BY <2>1, SameIdsAreAccepted
  <1> QED
    BY <1>1, MerkleInvariant, PTL
===========================================================================
