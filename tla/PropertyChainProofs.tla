------------------------ MODULE PropertyChainProofs ------------------------
(***************************************************************************)
(* Proofs about PropertyChain, for every set of nodes, every number of     *)
(* names, every set of values and every bound on the file.                 *)
(***************************************************************************)
EXTENDS PropertyChain, Induction

\* Most steps are set reasoning; those with arithmetic name SMT.
USE ZenonT(60)

Files == [Blocks -> Link \cup {NoLink}]

----------------------------------------------------------------------------
(* Walks through one file *)

(* A walk with next() is what its recursive definition says: the start, then   *)
(* the next field of the block before.                                         *)
LEMMA WalkDef ==
  ASSUME NEW f, NEW a
  PROVE  Walk(f, a) = [i \in 0..MaxLinks |->
                         IF i = 0 THEN a
                         ELSE IF Walk(f, a)[i - 1] = 0 THEN 0 ELSE f[Walk(f, a)[i - 1]].next]
<1> DEFINE Def(w, n) == w = [i \in 0..n |-> IF i = 0 THEN a
                                            ELSE IF w[i - 1] = 0 THEN 0 ELSE f[w[i - 1]].next]
<1> DEFINE T == {n \in Nat : \E w : Def(w, n)}
<1>1. 0 \in T
  <2>1. Def([i \in 0..0 |-> a], 0)
    BY SMTT(30)
  <2>2. QED BY <2>1
<1>2. ASSUME NEW n \in T PROVE n + 1 \in T
  <2>1. PICK w : Def(w, n)
    BY <1>2
  <2> DEFINE v == [i \in 0..(n + 1) |-> IF i <= n THEN w[i]
                                        ELSE IF w[n] = 0 THEN 0 ELSE f[w[n]].next]
  <2>2. Def(v, n + 1)
    <3>1. n \in Nat
      OBVIOUS
    <3>2. ASSUME NEW i \in 0..(n + 1)
          PROVE  v[i] = IF i = 0 THEN a ELSE IF v[i - 1] = 0 THEN 0 ELSE f[v[i - 1]].next
      <4>1. CASE i = n + 1
        BY SMTT(30), <3>1, <4>1
      <4>2. CASE i <= n
        <5>1. v[i] = w[i] /\ (i # 0 => v[i - 1] = w[i - 1])
          BY SMTT(30), <3>1, <4>2
        <5>2. w[i] = IF i = 0 THEN a ELSE IF w[i - 1] = 0 THEN 0 ELSE f[w[i - 1]].next
          BY SMTT(30), <2>1, <3>1, <4>2
        <5>3. QED BY <5>1, <5>2
      <4>3. QED BY SMTT(30), <3>1, <4>1, <4>2
    <3> HIDE DEF v
    <3>3. v = [i \in 0..(n + 1) |-> v[i]]
      BY DEF v
    <3>4. QED BY <3>2, <3>3
  <2>3. \E u : Def(u, n + 1)
    BY <2>2
  <2> HIDE DEF Def
  <2>4. QED BY SMTT(30), <2>3
<1>3. T = Nat
  <2> HIDE DEF T
  <2>1. T \in SUBSET Nat
    BY DEF T
  <2>2. QED BY <1>1, <1>2, <2>1, SetInduction
<1>4. MaxLinks \in T
  BY <1>3, ChainAssumption
<1>5. PICK w : Def(w, MaxLinks)
  BY <1>4
<1>6. QED BY <1>5 DEF Walk

(* One step of a walk.                                                         *)
LEMMA WalkStep ==
  ASSUME NEW f, NEW a
  PROVE  /\ Walk(f, a)[0] = a
         /\ \A i \in 0..(MaxLinks - 1) :
              Walk(f, a)[i + 1] = IF Walk(f, a)[i] = 0 THEN 0 ELSE f[Walk(f, a)[i]].next
<1> DEFINE w == Walk(f, a)
<1> HIDE DEF w
<1>1. w = [i \in 0..MaxLinks |-> IF i = 0 THEN a
                                 ELSE IF w[i - 1] = 0 THEN 0 ELSE f[w[i - 1]].next]
  BY SMTT(30), WalkDef DEF w
<1>2. w[0] = a
  BY SMTT(30), <1>1, ChainAssumption
<1>3. ASSUME NEW i \in 0..(MaxLinks - 1)
      PROVE  w[i + 1] = IF w[i] = 0 THEN 0 ELSE f[w[i]].next
  <2>1. i + 1 \in 0..MaxLinks /\ i + 1 # 0 /\ (i + 1) - 1 = i
    BY SMTT(30), ChainAssumption
  <2>2. QED BY <1>1, <2>1
<1>4. QED BY <1>2, <1>3 DEF w

(* A walk through a file whose links only lead to later blocks stays in the    *)
(* file, and at its i-th step has passed i blocks.                             *)
LEMMA WalkClimbs ==
  ASSUME NEW f \in Files, Ascending(f), NEW a \in 0..MaxLinks
  PROVE  \A i \in 0..MaxLinks :
           /\ Walk(f, a)[i] \in 0..MaxLinks
           /\ Walk(f, a)[i] # 0 => Walk(f, a)[i] >= i + 1
<1> DEFINE w == Walk(f, a)
<1> DEFINE P(i) == w[i] \in 0..MaxLinks /\ (w[i] # 0 => w[i] >= i + 1)
<1> DEFINE T == {i \in Nat : i <= MaxLinks => P(i)}
<1> HIDE DEF w
<1>0. w[0] = a /\ \A i \in 0..(MaxLinks - 1) : w[i + 1] = IF w[i] = 0 THEN 0 ELSE f[w[i]].next
  BY SMTT(30), WalkStep DEF w
<1>1. 0 \in T
  BY SMTT(30), <1>0
<1>2. ASSUME NEW n \in T PROVE n + 1 \in T
  <2>1. SUFFICES ASSUME n + 1 <= MaxLinks PROVE P(n + 1)
    BY SMTT(30)
  <2>2. P(n) /\ n \in 0..(MaxLinks - 1)
    BY SMTT(30), <1>2, <2>1, ChainAssumption
  <2>3. w[n + 1] = IF w[n] = 0 THEN 0 ELSE f[w[n]].next
    BY <1>0, <2>2
  <2>4. w[n] # 0 => f[w[n]].next \in 0..MaxLinks /\ (f[w[n]].next # 0 => w[n] < f[w[n]].next)
    <3>1. w[n] # 0 => w[n] \in Blocks
      BY SMTT(30), <2>2 DEF Blocks
    <3>2. \A k \in Blocks : f[k].next \in 0..MaxLinks
      BY SMTT(30), ChainAssumption DEF Files, Link, NoLink
    <3>3. QED BY <3>1, <3>2 DEF Ascending
  <2>5. QED BY SMTT(30), <2>2, <2>3, <2>4, ChainAssumption
<1>3. T = Nat
  <2> HIDE DEF T
  <2>1. T \in SUBSET Nat
    BY DEF T
  <2>2. QED BY <1>1, <1>2, <2>1, SetInduction
<1>4. ASSUME NEW i \in 0..MaxLinks PROVE P(i)
  <2>1. i \in T
    BY SMTT(30), <1>3
  <2>2. QED BY SMTT(30), <2>1
<1>5. QED BY <1>4 DEF w

(* Such a walk has ended by position MaxLinks, and the blocks it meets rise.    *)
LEMMA WalkRises ==
  ASSUME NEW f \in Files, Ascending(f), NEW a \in 0..MaxLinks
  PROVE  /\ Walk(f, a)[MaxLinks] = 0
         /\ \A i, j \in 0..MaxLinks :
              i < j /\ Walk(f, a)[j] # 0 => Walk(f, a)[i] # 0 /\ Walk(f, a)[i] < Walk(f, a)[j]
<1> DEFINE w == Walk(f, a)
<1> HIDE DEF w
<1>1. w[0] = a /\ \A i \in 0..(MaxLinks - 1) : w[i + 1] = IF w[i] = 0 THEN 0 ELSE f[w[i]].next
  BY SMTT(30), WalkStep DEF w
<1>2. \A i \in 0..MaxLinks : w[i] \in 0..MaxLinks /\ (w[i] # 0 => w[i] >= i + 1)
  BY WalkClimbs DEF w
<1>3. w[MaxLinks] = 0
  BY SMTT(30), <1>2, ChainAssumption
<1>4. ASSUME NEW i \in 0..MaxLinks
      PROVE  \A j \in 0..MaxLinks : i < j /\ w[j] # 0 => w[i] # 0 /\ w[i] < w[j]
  <2> DEFINE P(j) == i < j /\ w[j] # 0 => w[i] # 0 /\ w[i] < w[j]
  <2> DEFINE T == {j \in Nat : j <= MaxLinks => P(j)}
  <2>1. 0 \in T
    BY SMTT(30)
  <2>2. ASSUME NEW j \in T PROVE j + 1 \in T
    <3>1. SUFFICES ASSUME j + 1 <= MaxLinks, i < j + 1, w[j + 1] # 0
                   PROVE  w[i] # 0 /\ w[i] < w[j + 1]
      BY SMTT(30)
    <3>2. P(j) /\ j \in 0..(MaxLinks - 1) /\ j \in 0..MaxLinks
      BY SMTT(30), <2>2, <3>1, ChainAssumption
    <3>3. w[j] # 0 /\ w[j + 1] = f[w[j]].next
      BY <1>1, <3>1, <3>2
    <3>4. w[j] \in Blocks
      BY SMTT(30), <1>2, <3>2, <3>3, ChainAssumption DEF Blocks
    <3>5. w[j] < w[j + 1]
      BY <3>1, <3>3, <3>4 DEF Ascending
    <3>6. w[i] \in 0..MaxLinks /\ w[j] \in 0..MaxLinks /\ w[j + 1] \in 0..MaxLinks
      BY SMTT(30), <1>2, <3>2, ChainAssumption
    <3>7. QED BY SMTT(30), <3>1, <3>2, <3>3, <3>5, <3>6
  <2>3. T = Nat
    <3> HIDE DEF T
    <3>1. T \in SUBSET Nat
      BY DEF T
    <3>2. QED BY <2>1, <2>2, <3>1, SetInduction
  <2>4. ASSUME NEW j \in 0..MaxLinks PROVE P(j)
    <3>1. j \in T
      BY SMTT(30), <2>3
    <3>2. QED BY SMTT(30), <3>1
  <2>5. QED BY <2>4
<1>5. QED BY <1>3, <1>4 DEF w

(* The chain from a block holds that block and, with a link, the link it names. *)
LEMMA ChainClosed ==
  ASSUME NEW f \in Files, Ascending(f), NEW a \in 0..MaxLinks
  PROVE  /\ Chain(f, a) \subseteq Blocks
         /\ a # 0 => a \in Chain(f, a)
         /\ \A k \in Chain(f, a) : f[k].next # 0 => f[k].next \in Chain(f, a)
<1> DEFINE w == Walk(f, a)
<1> HIDE DEF w
<1>1. w[0] = a /\ \A i \in 0..(MaxLinks - 1) : w[i + 1] = IF w[i] = 0 THEN 0 ELSE f[w[i]].next
  BY SMTT(30), WalkStep DEF w
<1>2. \A i \in 0..MaxLinks : w[i] \in 0..MaxLinks
  BY WalkClimbs DEF w
<1>3. w[MaxLinks] = 0
  BY WalkRises DEF w
<1>4. Chain(f, a) = {w[i] : i \in {j \in 0..MaxLinks : w[j] # 0}}
  BY DEF Chain, Positions, w
<1>5. Chain(f, a) \subseteq Blocks
  BY SMTT(30), <1>2, <1>4, ChainAssumption DEF Blocks
<1>6. a # 0 => a \in Chain(f, a)
  <2>1. 0 \in 0..MaxLinks
    BY SMTT(30), ChainAssumption
  <2>2. QED BY <1>1, <1>4, <2>1
<1>7. ASSUME NEW k \in Chain(f, a), f[k].next # 0 PROVE f[k].next \in Chain(f, a)
  <2>1. PICK i \in 0..MaxLinks : w[i] = k /\ w[i] # 0
    BY <1>4
  <2>2. i \in 0..(MaxLinks - 1) /\ i + 1 \in 0..MaxLinks
    BY SMTT(30), <1>3, <2>1, ChainAssumption
  <2>3. w[i + 1] = f[k].next
    BY <1>1, <2>1, <2>2
  <2>4. QED BY <1>4, <1>7, <2>2, <2>3
<1>8. QED BY <1>5, <1>6, <1>7

(* It is the least such set: nothing else belongs to it.                        *)
LEMMA ChainLeast ==
  ASSUME NEW f \in Files, Ascending(f), NEW a \in 0..MaxLinks,
         NEW S, a # 0 => a \in S, \A k \in S : f[k].next # 0 => f[k].next \in S
  PROVE  Chain(f, a) \subseteq S
<1> DEFINE w == Walk(f, a)
<1> DEFINE P(i) == w[i] # 0 => w[i] \in S
<1> DEFINE T == {i \in Nat : i <= MaxLinks => P(i)}
<1> HIDE DEF w
<1>1. w[0] = a /\ \A i \in 0..(MaxLinks - 1) : w[i + 1] = IF w[i] = 0 THEN 0 ELSE f[w[i]].next
  BY SMTT(30), WalkStep DEF w
<1>2. 0 \in T
  BY <1>1
<1>3. ASSUME NEW n \in T PROVE n + 1 \in T
  <2>1. SUFFICES ASSUME n + 1 <= MaxLinks PROVE P(n + 1)
    BY SMTT(30)
  <2>2. P(n) /\ n \in 0..(MaxLinks - 1)
    BY SMTT(30), <1>3, <2>1, ChainAssumption
  <2>3. w[n + 1] = IF w[n] = 0 THEN 0 ELSE f[w[n]].next
    BY <1>1, <2>2
  <2>4. QED BY <2>2, <2>3
<1>4. T = Nat
  <2> HIDE DEF T
  <2>1. T \in SUBSET Nat
    BY DEF T
  <2>2. QED BY <1>2, <1>3, <2>1, SetInduction
<1>5. ASSUME NEW i \in 0..MaxLinks PROVE P(i)
  <2>1. i \in T
    BY SMTT(30), <1>4
  <2>2. QED BY SMTT(30), <2>1
<1>6. Chain(f, a) = {w[i] : i \in {j \in 0..MaxLinks : w[j] # 0}}
  BY DEF Chain, Positions, w
<1>7. QED BY <1>5, <1>6

(* There is no chain from block 0.                                              *)
LEMMA ChainEmpty ==
  ASSUME NEW f \in Files, Ascending(f)
  PROVE  Chain(f, 0) = {}
<1>1. 0 \in 0..MaxLinks
  BY SMTT(30), ChainAssumption
<1> DEFINE S == {}
<1>2. Chain(f, 0) \subseteq S
  <2>1. \A k \in S : f[k].next # 0 => f[k].next \in S
    OBVIOUS
  <2> HIDE DEF S
  <2>2. QED BY <1>1, <2>1, ChainLeast
<1>3. QED BY <1>2

(* A write that changes the next field of no link of a chain leaves the chain.   *)
LEMMA ChainFrame ==
  ASSUME NEW f \in Files, Ascending(f), NEW g \in Files, Ascending(g),
         NEW a \in 0..MaxLinks, \A k \in Chain(f, a) : g[k].next = f[k].next
  PROVE  Chain(g, a) = Chain(f, a)
<1> DEFINE S == Chain(f, a)
<1> DEFINE R == Chain(f, a) \cap Chain(g, a)
<1>1. /\ a # 0 => a \in Chain(f, a)
      /\ \A k \in Chain(f, a) : f[k].next # 0 => f[k].next \in Chain(f, a)
  BY ChainClosed
<1>2. /\ a # 0 => a \in Chain(g, a)
      /\ \A k \in Chain(g, a) : g[k].next # 0 => g[k].next \in Chain(g, a)
  BY ChainClosed
<1>3. Chain(g, a) \subseteq S
  <2>1. (a # 0 => a \in S) /\ \A k \in S : g[k].next # 0 => g[k].next \in S
    BY <1>1
  <2> HIDE DEF S
  <2>2. QED BY <2>1, ChainLeast
<1>4. Chain(f, a) \subseteq R
  <2>1. (a # 0 => a \in R) /\ \A k \in R : f[k].next # 0 => f[k].next \in R
    BY <1>1, <1>2
  <2> HIDE DEF R
  <2>2. QED BY <2>1, ChainLeast
<1>5. QED BY <1>3, <1>4

(* The second half of insert(): when the tail t of a chain is made to name link x,  *)
(* which names none, the chain grows by x and by nothing else.                      *)
LEMMA ChainAppend ==
  ASSUME NEW f \in Files, Ascending(f), NEW g \in Files, Ascending(g),
         NEW a \in 0..MaxLinks, NEW t \in Chain(f, a), NEW x \in Blocks,
         f[t].next = 0, g[t].next = x, g[x].next = 0,
         \A k \in Chain(f, a) \ {t} : g[k].next = f[k].next
  PROVE  Chain(g, a) = Chain(f, a) \cup {x}
<1> DEFINE S == Chain(f, a) \cup {x}
<1> DEFINE R == Chain(f, a) \cap Chain(g, a)
<1>1. /\ a # 0 => a \in Chain(f, a)
      /\ \A k \in Chain(f, a) : f[k].next # 0 => f[k].next \in Chain(f, a)
  BY ChainClosed
<1>2. /\ a # 0 => a \in Chain(g, a)
      /\ \A k \in Chain(g, a) : g[k].next # 0 => g[k].next \in Chain(g, a)
  BY ChainClosed
<1>3. Chain(g, a) \subseteq S
  <2>1. (a # 0 => a \in S) /\ \A k \in S : g[k].next # 0 => g[k].next \in S
    BY <1>1
  <2> HIDE DEF S
  <2>2. QED BY <2>1, ChainLeast
<1>4. Chain(f, a) \subseteq R
  <2>1. (a # 0 => a \in R) /\ \A k \in R : f[k].next # 0 => f[k].next \in R
    BY <1>1, <1>2
  <2> HIDE DEF R
  <2>2. QED BY <2>1, ChainLeast
<1>5. x \in Chain(g, a)
  <2>1. t \in Chain(g, a) /\ x # 0
    BY SMTT(30), <1>4 DEF Blocks
  <2>2. QED BY <1>2, <2>1
<1>6. QED BY <1>3, <1>4, <1>5

(* A walk that starts at a link of a chain stays in the chain.                      *)
LEMMA ChainSuffix ==
  ASSUME NEW f \in Files, Ascending(f), NEW a \in 0..MaxLinks, NEW r \in Chain(f, a)
  PROVE  Chain(f, r) \subseteq Chain(f, a)
<1>1. Chain(f, a) \subseteq Blocks
  BY ChainClosed
<1>2. r \in 0..MaxLinks
  BY SMTT(30), <1>1 DEF Blocks
<1>3. \A k \in Chain(f, a) : f[k].next # 0 => f[k].next \in Chain(f, a)
  BY ChainClosed
<1>4. QED BY <1>2, <1>3, ChainLeast

(* A link whose next field is 0 is a chain of its own: a meta property.             *)
LEMMA ChainOne ==
  ASSUME NEW f \in Files, Ascending(f), NEW a \in Blocks, f[a].next = 0
  PROVE  Chain(f, a) = {a}
<1>1. a \in 0..MaxLinks /\ a # 0
  BY SMTT(30) DEF Blocks
<1>2. a \in Chain(f, a)
  BY <1>1, ChainClosed
<1> DEFINE S == {a}
<1>3. Chain(f, a) \subseteq S
  <2>1. a \in S /\ \A k \in S : f[k].next # 0 => f[k].next \in S
    OBVIOUS
  <2> HIDE DEF S
  <2>2. QED BY <1>1, <2>1, ChainLeast
<1>4. QED BY <1>2, <1>3

(* insert()'s walk to the end: the last block it meets is a link of the chain that  *)
(* names no other.                                                                  *)
LEMMA WalkToTail ==
  ASSUME NEW f \in Files, Ascending(f), NEW r \in Blocks
  PROVE  LET t == Walk(f, r)[Max(Positions(f, r))]
         IN  t \in Chain(f, r) /\ f[t].next = 0
<1> DEFINE w == Walk(f, r)
<1> DEFINE p == Max(Positions(f, r))
<1>1. r \in 0..MaxLinks /\ r # 0
  BY SMTT(30) DEF Blocks
<1>2. Positions(f, r) = {i \in 0..MaxLinks : w[i] # 0} /\ Chain(f, r) = {w[i] : i \in Positions(f, r)}
  BY DEF Positions, Chain
<1>3. w[0] = r /\ \A i \in 0..(MaxLinks - 1) : w[i + 1] = IF w[i] = 0 THEN 0 ELSE f[w[i]].next
  BY SMTT(30), WalkStep
<1>4. w[MaxLinks] = 0
  BY <1>1, WalkRises
<1> HIDE DEF w
<1>5. p \in Positions(f, r) /\ \A i \in Positions(f, r) : i <= p
  <2>1. 0 \in Positions(f, r) /\ Positions(f, r) \in SUBSET (0..MaxLinks) /\ MaxLinks \in Nat
    BY SMTT(30), <1>1, <1>2, <1>3, ChainAssumption
  <2>2. \E n \in Positions(f, r) : \A m \in Positions(f, r) : m <= n
    BY <2>1, Greatest
  <2>3. \A n, m \in Positions(f, r) : m <= n <=> n >= m
    BY <2>1
  <2>4. \E n \in Positions(f, r) : \A m \in Positions(f, r) : n >= m
    BY <2>2, <2>3
  <2>5. p \in Positions(f, r) /\ \A m \in Positions(f, r) : p >= m
    BY <2>4 DEF Max
  <2>6. QED BY <2>3, <2>5
<1> HIDE DEF p
<1>6. p \in 0..(MaxLinks - 1) /\ p + 1 \in 0..MaxLinks /\ w[p] # 0
  BY SMTT(30), <1>2, <1>4, <1>5, ChainAssumption
<1>7. w[p + 1] = 0
  BY SMTT(30), <1>2, <1>5, <1>6
<1>8. f[w[p]].next = 0
  BY <1>3, <1>6, <1>7
<1>9. w[p] \in Chain(f, r)
  BY <1>2, <1>5
<1>10. QED BY <1>8, <1>9 DEF w, p

(* The first link of name n that a walk meets is the one of the lowest number.       *)
LEMMA FirstMet ==
  ASSUME NEW f \in Files, Ascending(f), NEW r \in 0..MaxLinks, NEW n
  PROVE  LET at == PositionsOf(f, r, n)
             k == Walk(f, r)[Min(at)]
         IN  IF at = {} THEN \A j \in Chain(f, r) : f[j].name # n
             ELSE /\ k \in Chain(f, r) /\ f[k].name = n
                  /\ \A j \in Chain(f, r) : f[j].name = n => k <= j
<1> DEFINE w == Walk(f, r)
<1> DEFINE at == PositionsOf(f, r, n)
<1> DEFINE p == Min(at)
<1>1. /\ Positions(f, r) = {i \in 0..MaxLinks : w[i] # 0}
      /\ Chain(f, r) = {w[i] : i \in Positions(f, r)}
      /\ at = {i \in Positions(f, r) : f[w[i]].name = n}
  BY DEF Positions, Chain, PositionsOf
<1>2. \A i \in 0..MaxLinks : w[i] \in 0..MaxLinks
  BY WalkClimbs
<1>3. \A i, j \in 0..MaxLinks : i < j /\ w[j] # 0 => w[i] # 0 /\ w[i] < w[j]
  BY WalkRises
<1> HIDE DEF w, at
<1>4. CASE at = {}
  <2>1. ASSUME NEW j \in Chain(f, r) PROVE f[j].name # n
    <3>1. PICK i \in Positions(f, r) : j = w[i]
      BY <1>1
    <3>2. QED BY <1>1, <1>4, <3>1
  <2>2. QED BY <1>4, <2>1 DEF at
<1>5. CASE at # {}
  <2>1. p \in at /\ \A i \in at : p <= i
    <3>1. at \in SUBSET Nat
      BY SMTT(30), <1>1
    <3>2. \E i \in at : \A j \in at : i <= j
      BY <1>5, <3>1, Least
    <3>3. QED BY <3>2 DEF Min
  <2> HIDE DEF p
  <2>2. w[p] \in Chain(f, r) /\ f[w[p]].name = n
    BY <1>1, <2>1
  <2>3. ASSUME NEW j \in Chain(f, r), f[j].name = n PROVE w[p] <= j
    <3>1. PICK i \in Positions(f, r) : j = w[i]
      BY <1>1
    <3>2. i \in at /\ i \in 0..MaxLinks /\ p \in 0..MaxLinks /\ w[i] # 0 /\ p <= i
      BY <1>1, <2>1, <2>3, <3>1
    <3>3. p = i \/ w[p] < w[i]
      BY SMTT(30), <1>3, <3>2
    <3>4. QED BY SMTT(30), <1>2, <3>1, <3>2, <3>3
  <2>4. QED BY <1>5, <2>2, <2>3 DEF w, at, p
<1>6. QED BY <1>4, <1>5

(* What getAllProperties() returns for a name that no link of the chain has.         *)
LEMMA ReadNone ==
  ASSUME NEW f \in Files, Ascending(f), NEW a \in 0..MaxLinks, NEW n,
         \A j \in Chain(f, a) : f[j].name # n
  PROVE  Read(f, a, n) = 0
<1>1. PositionsOf(f, a, n) = {}
  BY SMTT(30), FirstMet
<1>2. QED BY <1>1 DEF Read

(* What it returns for a name that a link has: the value of the lowest one.          *)
LEMMA ReadFirst ==
  ASSUME NEW f \in Files, Ascending(f), NEW a \in 0..MaxLinks, NEW n,
         NEW k \in Chain(f, a), f[k].name = n,
         \A j \in Chain(f, a) : f[j].name = n => k <= j
  PROVE  Read(f, a, n) = f[k].value
<1> DEFINE at == PositionsOf(f, a, n)
<1> DEFINE m == Walk(f, a)[Min(at)]
<1>1. at # {}
  BY FirstMet
<1>2. m \in Chain(f, a) /\ f[m].name = n /\ m <= k
  BY <1>1, FirstMet
<1>3. k <= m /\ k \in Nat /\ m \in Nat
  <2>1. Chain(f, a) \subseteq Blocks
    BY ChainClosed
  <2>2. k \in Blocks /\ m \in Blocks
    BY <1>2, <2>1
  <2>3. QED BY SMTT(30), <1>2, <2>2 DEF Blocks
<1>4. m = k
  BY SMTT(30), <1>2, <1>3
<1>5. QED BY <1>1, <1>4 DEF Read

(* The two cases are all there are.                                                  *)
LEMMA ReadCases ==
  ASSUME NEW f \in Files, Ascending(f), NEW a \in 0..MaxLinks, NEW n
  PROVE  \/ (\A j \in Chain(f, a) : f[j].name # n) /\ Read(f, a, n) = 0
         \/ \E k \in Chain(f, a) : /\ f[k].name = n /\ Read(f, a, n) = f[k].value
                                   /\ \A j \in Chain(f, a) : f[j].name = n => k <= j
<1>1. CASE PositionsOf(f, a, n) = {}
  BY <1>1, FirstMet, ReadNone
<1>2. CASE PositionsOf(f, a, n) # {}
  <2> DEFINE m == Walk(f, a)[Min(PositionsOf(f, a, n))]
  <2>1. /\ m \in Chain(f, a) /\ f[m].name = n
        /\ \A j \in Chain(f, a) : f[j].name = n => m <= j
    BY <1>2, FirstMet
  <2> HIDE DEF m
  <2>2. QED BY <2>1, ReadFirst
<1>3. QED BY <1>1, <1>2

(* A write that changes no field of a link of a chain leaves what is read from it.   *)
LEMMA ReadFrame ==
  ASSUME NEW f \in Files, Ascending(f), NEW g \in Files, Ascending(g),
         NEW a \in 0..MaxLinks, \A k \in Chain(f, a) : g[k] = f[k], NEW n
  PROVE  Read(g, a, n) = Read(f, a, n)
<1>1. Chain(g, a) = Chain(f, a)
  BY ChainFrame
<1>2. CASE (\A j \in Chain(f, a) : f[j].name # n) /\ Read(f, a, n) = 0
  BY <1>1, <1>2, ReadNone
<1>3. CASE \E k \in Chain(f, a) : /\ f[k].name = n /\ Read(f, a, n) = f[k].value
                                  /\ \A j \in Chain(f, a) : f[j].name = n => k <= j
  BY SMTT(30), <1>1, <1>3, ReadFirst
<1>4. QED BY <1>2, <1>3, ReadCases

(* What is read after an insertion: the new link counts only if the name had none.   *)
LEMMA ReadAppend ==
  ASSUME NEW f \in Files, Ascending(f), NEW g \in Files, Ascending(g),
         NEW a \in 0..MaxLinks, NEW x \in Blocks,
         Chain(g, a) = Chain(f, a) \cup {x}, \A k \in Chain(f, a) : k < x,
         \A k \in Chain(f, a) : g[k].name = f[k].name /\ g[k].value = f[k].value,
         NEW n \in Names
  PROVE  Read(g, a, n) = IF g[x].name = n /\ Read(f, a, n) = 0 THEN g[x].value
                         ELSE Read(f, a, n)
<1>0. Chain(f, a) \subseteq Blocks /\ x \in Nat /\ \A k \in Chain(f, a) : k \in Nat
  BY SMTT(30), ChainClosed DEF Blocks
<1>1. CASE (\A j \in Chain(f, a) : f[j].name # n) /\ Read(f, a, n) = 0
  <2>1. CASE g[x].name = n
    <3>1. x \in Chain(g, a) /\ \A j \in Chain(g, a) : g[j].name = n => x <= j
      BY SMTT(30), <1>0, <1>1
    <3>2. Read(g, a, n) = g[x].value
      BY SMTT(30), <2>1, <3>1, ReadFirst
    <3>3. QED BY <1>1, <2>1, <3>2
  <2>2. CASE g[x].name # n
    <3>1. \A j \in Chain(g, a) : g[j].name # n
      BY <1>1, <2>2
    <3>2. QED BY <1>1, <2>2, <3>1, ReadNone
  <2>3. QED BY <2>1, <2>2
<1>2. ASSUME NEW k \in Chain(f, a), f[k].name = n, Read(f, a, n) = f[k].value,
             \A j \in Chain(f, a) : f[j].name = n => k <= j
      PROVE  Read(g, a, n) = IF g[x].name = n /\ Read(f, a, n) = 0 THEN g[x].value
                             ELSE Read(f, a, n)
  <2>1. f[k].value # 0
    <3>1. f[k] \in Link \cup {NoLink}
      BY <1>0 DEF Files
    <3>2. QED BY SMTT(30), <1>2, <3>1, ChainAssumption DEF Link, NoLink, Names
  <2>2. k \in Chain(g, a) /\ g[k].name = n /\ \A j \in Chain(g, a) : g[j].name = n => k <= j
    BY SMTT(30), <1>0, <1>2
  <2>3. Read(g, a, n) = g[k].value
    BY SMTT(30), <2>2, ReadFirst
  <2>4. QED BY <1>2, <2>1, <2>3
<1>3. QED BY <1>1, <1>2, ReadCases

----------------------------------------------------------------------------
(* The inductive invariant *)

(* A freshly opened file has no chain.                                               *)
LEMMA InitInv == Init => ChainInv
<1> SUFFICES ASSUME Init PROVE ChainInv
  OBVIOUS
<1> USE ChainAssumption
<1>1. TypeOK
  BY SMTT(30) DEF Init, TypeOK, Blocks, NoObj, NoCall, NoPending, Ends
<1>2. Ascending(links) /\ links \in Files
  BY <1>1 DEF Init, Ascending, NoLink, TypeOK, Files
<1>3. \A v \in Owners : ChainBlocks(v) = {}
  BY <1>2, ChainEmpty DEF Init, ChainBlocks
<1>4. FileInv
  BY <1>2, <1>3 DEF Init, FileInv
<1>5. ObjectsInv /\ PendingInv
  BY DEF Init, ObjectsInv, PendingInv, NoPending, NoObj, Ends
<1>6. MetaInv
  BY DEF Init, MetaInv, NoLink, NoPending
<1>7. ReadInv
  <2>1. \A n \in Names : Read(links, 0, n) = 0
    BY SMTT(30), <1>2, ChainEmpty, ReadNone
  <2>2. QED BY <2>1 DEF Init, ReadInv, PropertiesStay, Readable, LastWriteWins, getProperty
<1>8. QED BY <1>1, <1>4, <1>5, <1>6, <1>7 DEF ChainInv

(* The file, as the lemmas above take it.                                            *)
LEMMA FileFacts ==
  ASSUME ChainInv
  PROVE  /\ links \in Files /\ Ascending(links) /\ MaxLinks \in Nat \ {0}
         /\ \A v \in Owners : head[v] \in 0..MaxLinks /\ ChainBlocks(v) = Chain(links, head[v])
         /\ \A v \in Owners : ChainBlocks(v) \subseteq Blocks
         /\ \A v \in Owners : \A k \in ChainBlocks(v) : k < nextPropertyIndex
<1>1. links \in Files /\ Ascending(links) /\ MaxLinks \in Nat \ {0}
  BY ChainAssumption DEF ChainInv, TypeOK, FileInv, Files
<1>2. \A v \in Owners : head[v] \in 0..MaxLinks /\ ChainBlocks(v) = Chain(links, head[v])
  BY DEF ChainInv, TypeOK, ChainBlocks
<1>3. \A v \in Owners : ChainBlocks(v) \subseteq Blocks
  BY <1>1, <1>2, ChainClosed
<1>4. \A v \in Owners : \A k \in ChainBlocks(v) : k < nextPropertyIndex
  BY <1>3 DEF ChainInv, FileInv
<1>5. QED BY <1>1, <1>2, <1>3, <1>4

(* Opening an edge loads the heads into two objects.                                 *)
LEMMA AddEdgeInv ==
  ASSUME ChainInv, NEW s \in Owners \cup {"none"}, NEW d \in Owners \cup {"none"},
         s \in Owners \/ d \in Owners, AddEdge(s, d)
  PROVE  ChainInv'
<1> USE ChainAssumption
<1>1. /\ UNCHANGED <<meta, links, head, nextPropertyIndex, pending>>
      /\ objs' = [src |-> Loaded(s), dst |-> Loaded(d)] /\ phase' = "src" /\ phase = "idle"
      /\ owed' = [v \in Owners |-> Readable(v)] /\ done' = NoCall
  BY DEF AddEdge, disk
<1>2. \A v \in Owners : ChainBlocks(v)' = ChainBlocks(v)
  BY <1>1 DEF ChainBlocks
<1>3. pending = NoPending
  BY <1>1 DEF ChainInv, TypeOK, PendingInv, Ends
<1>4. TypeOK'
  <2>1. \A v \in Owners \cup {"none"} : Loaded(v) \in Object \cup {NoObj}
    BY SMTT(30) DEF Loaded, Object, ChainInv, TypeOK
  <2>2. objs' \in [Ends -> Object \cup {NoObj}]
    BY SMTT(30), <1>1, <2>1 DEF Ends
  <2>3. owed' \in [Owners -> SUBSET Names]
    BY <1>1 DEF Readable
  <2>4. QED BY <1>1, <1>3, <2>2, <2>3 DEF ChainInv, TypeOK, Ends
<1>5. FileInv'
  BY <1>1, <1>2 DEF ChainInv, FileInv, Ascending
<1>6. ObjectsInv'
  <2>1. \A v \in Owners \cup {"none"} :
          Loaded(v) # NoObj => v \in Owners /\ Loaded(v) = [owner |-> v, ref |-> head[v], lastName |-> 0]
    BY DEF Loaded
  <2>2. \A v \in Owners : head[v] # 0 => head[v] \in ChainBlocks(v)
    BY FileFacts, ChainClosed
  <2>4. objs'["src"] = Loaded(s) /\ objs'["dst"] = Loaded(d)
    BY <1>1
  <2>5. ASSUME NEW x \in Ends, objs'[x] # NoObj
        PROVE  /\ objs'[x].owner \in Owners /\ objs'[x].ref = head[objs'[x].owner]
               /\ objs'[x].ref # 0 => objs'[x].ref \in Chain(links, head[objs'[x].owner])
    BY SMTT(30), <2>1, <2>2, <2>4, <2>5 DEF Ends, ChainBlocks
  <2>6. \A v \in Owners : head[v] = 0 => owed'[v] = {}
    <3>1. links \in Files /\ Ascending(links) /\ 0 \in 0..MaxLinks
      BY SMTT(30), FileFacts
    <3>2. \A n \in Names : Read(links, 0, n) = 0
      BY <3>1, ChainEmpty, ReadNone
    <3>3. QED BY <1>1, <3>2 DEF Readable, getProperty
  <2>7. QED BY <1>1, <2>5, <2>6 DEF ObjectsInv, ChainBlocks, Ends
<1>7. PendingInv' /\ MetaInv'
  BY <1>1, <1>3 DEF ChainInv, PendingInv, MetaInv, NoPending
<1>8. ReadInv'
  BY <1>1 DEF ChainInv, ReadInv, PropertiesStay, Readable, LastWriteWins, getProperty
<1>9. QED BY <1>4, <1>5, <1>6, <1>7, <1>8 DEF ChainInv

(* The end of an end's properties deletes its object.                                *)
LEMMA EndDoneInv ==
  ASSUME ChainInv, EndDone
  PROVE  ChainInv'
<1>1. /\ UNCHANGED <<meta, links, head, nextPropertyIndex, pending, owed, done>>
      /\ objs' = [objs EXCEPT ![phase] = NoObj] /\ phase \in Ends
      /\ phase' = IF phase = "src" THEN "dst" ELSE "idle"
      /\ pending = NoPending
  BY DEF EndDone, disk, history
<1>2. TypeOK'
  <2>1. objs' \in [Ends -> Object \cup {NoObj}]
    BY <1>1 DEF ChainInv, TypeOK
  <2>2. QED BY <1>1, <2>1 DEF ChainInv, TypeOK, Ends
<1>3. FileInv'
  BY <1>1 DEF ChainInv, FileInv, Ascending, ChainBlocks
<1>4. ObjectsInv'
  <2>1. \A x \in Ends : objs'[x] # NoObj => x # phase /\ objs'[x] = objs[x]
    BY <1>1 DEF ChainInv, TypeOK
  <2>2. objs'["src"] = NoObj
    <3>1. CASE phase = "src"
      BY <1>1, <3>1 DEF ChainInv, TypeOK, Ends
    <3>2. CASE phase = "dst"
      BY <1>1, <3>2 DEF ChainInv, TypeOK, Ends, ObjectsInv
    <3>3. QED BY <1>1, <3>1, <3>2 DEF Ends
  <2>3. objs'["dst"] # NoObj => phase' \in Ends
    BY <1>1, <2>1 DEF Ends
  <2>4. QED BY SMTT(30), <1>1, <2>1, <2>2, <2>3 DEF ChainInv, ObjectsInv, ChainBlocks
<1>5. PendingInv' /\ MetaInv'
  BY <1>1 DEF ChainInv, PendingInv, MetaInv, NoPending
<1>6. ReadInv'
  BY <1>1 DEF ChainInv, ReadInv, PropertiesStay, Readable, LastWriteWins, getProperty
<1>7. QED BY <1>2, <1>3, <1>4, <1>5, <1>6 DEF ChainInv

(* The object whose properties are being added.                                      *)
LEMMA CurrentFacts ==
  ASSUME ChainInv, phase \in Ends, Current # NoObj
  PROVE  /\ Current = objs[phase] /\ Current \in Object
         /\ Current.owner \in Owners /\ Current.ref \in 0..MaxLinks
         /\ Current.ref # 0 => Current.ref \in Chain(links, head[Current.owner])
<1>1. Current = objs[phase] /\ Current \in Object
  BY DEF Current, ChainInv, TypeOK
<1>2. Current.owner \in Owners /\ Current.ref \in 0..MaxLinks
  BY <1>1 DEF Object
<1>3. Current.ref # 0 => Current.ref \in Chain(links, head[Current.owner])
  BY <1>1 DEF ChainInv, ObjectsInv, ChainBlocks
<1>4. QED BY <1>1, <1>2, <1>3

(* Both insertions first write a link into a block that no chain has: no chain and   *)
(* nothing that is read changes.                                                     *)
LEMMA FreshWrite ==
  ASSUME ChainInv, nextPropertyIndex <= MaxLinks, NEW n \in Names, NEW val \in Values,
         NEW g, g = Written(nextPropertyIndex, [name |-> n, value |-> val, next |-> 0])
  PROVE  /\ g \in Files /\ Ascending(g) /\ nextPropertyIndex \in Blocks
         /\ g[nextPropertyIndex] = [name |-> n, value |-> val, next |-> 0]
         /\ g[nextPropertyIndex] \in Link
         /\ \A k \in Blocks : k # nextPropertyIndex => g[k] = links[k]
         /\ \A v \in Owners : Chain(g, head[v]) = Chain(links, head[v])
         /\ \A v \in Owners : \A m : Read(g, head[v], m) = Read(links, head[v], m)
<1> DEFINE l == [name |-> n, value |-> val, next |-> 0]
<1> DEFINE x == nextPropertyIndex
<1>1. x \in Blocks /\ l \in Link
  BY SMTT(30), ChainAssumption DEF ChainInv, TypeOK, Blocks, Link
<1>2. g = [links EXCEPT ![x] = l]
  BY DEF Written
<1>3. links \in [Blocks -> Link \cup {NoLink}]
  BY DEF ChainInv, TypeOK
<1> HIDE DEF l, x
<1>4. g \in Files /\ g[x] = l /\ \A k \in Blocks : k # x => g[k] = links[k]
  BY <1>1, <1>2, <1>3 DEF Files
<1>5. Ascending(g)
  <2>1. l.next = 0
    BY DEF l
  <2>2. QED BY <1>4, <2>1 DEF ChainInv, FileInv, Ascending
<1>6. ASSUME NEW v \in Owners
      PROVE  /\ Chain(g, head[v]) = Chain(links, head[v])
             /\ \A m : Read(g, head[v], m) = Read(links, head[v], m)
  <2>1. /\ links \in Files /\ Ascending(links) /\ head[v] \in 0..MaxLinks
        /\ Chain(links, head[v]) \subseteq Blocks
        /\ \A k \in Chain(links, head[v]) : k < x
    BY FileFacts DEF x
  <2>2. \A k \in Chain(links, head[v]) : g[k] = links[k]
    BY SMTT(30), <1>1, <1>4, <2>1 DEF Blocks
  <2>3. QED BY <1>4, <1>5, <2>1, <2>2, ChainFrame, ReadFrame
<1>7. QED BY <1>1, <1>4, <1>5, <1>6 DEF l, x

(* PropertyLink::create before the node names the link.                              *)
LEMMA CreateInv ==
  ASSUME ChainInv, NEW n \in Names, NEW val \in Values, Create(n, val)
  PROVE  ChainInv'
<1> DEFINE x == nextPropertyIndex
<1>1. /\ UNCHANGED <<meta, head, objs, phase, owed, done>>
      /\ links' = Written(x, [name |-> n, value |-> val, next |-> 0])
      /\ nextPropertyIndex' = x + 1 /\ x <= MaxLinks
      /\ pending' = [kind |-> "create", tail |-> 0, addr |-> x]
      /\ pending = NoPending /\ phase \in Ends /\ Current # NoObj /\ Current.ref = 0
      /\ meta => n = 1
  BY DEF Create, history, Adding
<1>2. /\ links' \in Files /\ Ascending(links') /\ x \in Blocks
      /\ links'[x] = [name |-> n, value |-> val, next |-> 0] /\ links'[x] \in Link
      /\ \A k \in Blocks : k # x => links'[k] = links[k]
      /\ \A v \in Owners : Chain(links', head[v]) = Chain(links, head[v])
      /\ \A v \in Owners : \A m : Read(links', head[v], m) = Read(links, head[v], m)
  BY SMTT(30), <1>1, FreshWrite
<1>3. TypeOK'
  BY SMTT(30), <1>1, <1>2, ChainAssumption DEF ChainInv, TypeOK, Blocks, Files
<1>4. FileInv'
  <2>1. \A k \in Blocks : links'[k] # NoLink => k < nextPropertyIndex'
    BY SMTT(30), <1>1, <1>2, ChainAssumption DEF ChainInv, FileInv, TypeOK, Blocks, NoPending
  <2>2. \A v \in Owners : \A k \in Chain(links, head[v]) : k \in Blocks /\ k < x
    BY FileFacts
  <2>3. \A v \in Owners : \A k \in Chain(links, head[v]) : links'[k] # NoLink /\ k # x
    BY SMTT(30), <1>2, <2>2 DEF ChainInv, FileInv, ChainBlocks, Blocks
  <2>4. QED BY SMTT(30), <1>1, <1>2, <2>1, <2>3 DEF ChainInv, FileInv, ChainBlocks
<1>5. ObjectsInv'
  <2>1. ASSUME NEW y \in Ends, objs[y] # NoObj
        PROVE  Chain(links', head[objs[y].owner]) = Chain(links, head[objs[y].owner])
    BY <1>2, <2>1 DEF ChainInv, TypeOK, Object
  <2>2. QED BY <1>1, <2>1 DEF ChainInv, ObjectsInv, ChainBlocks
<1>6. PendingInv'
  BY SMTT(30), <1>1, <1>2 DEF PendingInv, Current
<1>7. MetaInv'
  BY SMTT(30), <1>1, <1>2 DEF ChainInv, MetaInv
<1>8. ReadInv'
  BY SMTT(30), <1>1, <1>2 DEF ChainInv, ReadInv, PropertiesStay, Readable,
                                 LastWriteWins, getProperty, TypeOK, Call
<1>9. QED BY <1>3, <1>4, <1>5, <1>6, <1>7, <1>8 DEF ChainInv

(* What is owed after name n became reachable: at most n more, of one node.          *)
LEMMA OwingFacts ==
  ASSUME ChainInv, NEW v \in Owners, NEW n \in Names
  PROVE  /\ Owing(v, n) \in [Owners -> SUBSET Names]
         /\ \A w \in Owners : w # v => Owing(v, n)[w] = owed[w]
         /\ Owing(v, n)[v] \subseteq owed[v] \cup {n}
         /\ StartsOver(v) => Owing(v, n) = owed
<1>1. owed \in [Owners -> SUBSET Names]
  BY DEF ChainInv, TypeOK
<1>2. CASE StartsOver(v)
  BY <1>1, <1>2 DEF Owing
<1>3. CASE ~StartsOver(v)
  <2>1. Owing(v, n) = [owed EXCEPT ![v] = owed[v] \cup {n}]
    BY <1>3 DEF Owing
  <2>2. QED BY <1>1, <1>3, <2>1
<1>4. QED BY <1>2, <1>3

(* The other object of the edge is the second one; if it knows no chain, its node     *)
(* starts over.                                                                       *)
LEMMA OtherObject ==
  ASSUME ChainInv, phase \in Ends, NEW y \in Ends, y # phase, objs[y] # NoObj
  PROVE  /\ phase = "src" /\ y = "dst" /\ objs[y] \in Object /\ objs[y].owner \in Owners
         /\ objs[y].ref = 0 => StartsOver(objs[y].owner)
<1>1. phase = "src" /\ y = "dst"
  BY SMTT(30) DEF ChainInv, ObjectsInv, Ends
<1>2. objs[y] \in Object /\ objs[y].owner \in Owners
  BY DEF ChainInv, TypeOK, Object
<1>3. QED BY <1>1, <1>2 DEF StartsOver

(* The node block on disk names the created link: a chain of one link, over nothing  *)
(* or, for the second object of a self loop, over the chain of the first.            *)
LEMMA SetHeadInv ==
  ASSUME ChainInv, SetHead
  PROVE  ChainInv'
<1> DEFINE x == pending.addr
<1> DEFINE l == links[x]
<1> DEFINE v == Current.owner
<1>1. /\ UNCHANGED <<meta, links, nextPropertyIndex, phase>>
      /\ head' = [head EXCEPT ![v] = x]
      /\ objs' = [objs EXCEPT ![phase] = [owner |-> v, ref |-> x, lastName |-> l.name]]
      /\ owed' = Owing(v, l.name)
      /\ done' = (IF meta THEN [owner |-> v, name |-> l.name, value |-> l.value] ELSE NoCall)
      /\ pending' = NoPending /\ pending.kind = "create"
  BY DEF SetHead, Moved, Returned, Current
<1>2. /\ phase \in Ends /\ Current # NoObj /\ Current.ref = 0
      /\ x \in Blocks /\ l \in Link /\ l.next = 0 /\ nextPropertyIndex = x + 1
  BY <1>1 DEF ChainInv, PendingInv
<1>3. Current = objs[phase] /\ Current \in Object /\ v \in Owners
  BY <1>2, CurrentFacts
<1>4. links \in Files /\ Ascending(links) /\ MaxLinks \in Nat \ {0}
  BY FileFacts
<1>5. l.name \in Names /\ l.value \in Values /\ l # NoLink
  BY SMTT(30), <1>2, ChainAssumption DEF Link, Names, NoLink
<1> HIDE DEF v, l, x
<1>6. /\ head'[v] = x /\ \A w \in Owners : w # v => head'[w] = head[w]
      /\ head' \in [Owners -> 0..MaxLinks]
  BY SMTT(30), <1>1, <1>2, <1>3 DEF ChainInv, TypeOK, Blocks
<1>7. Chain(links, x) = {x}
  BY <1>2, <1>4, ChainOne DEF l
<1>8. /\ \A y \in Ends \ {phase} : objs'[y] = objs[y]
      /\ objs'[phase] = [owner |-> v, ref |-> x, lastName |-> l.name]
      /\ objs' \in [Ends -> Object \cup {NoObj}]
      /\ objs'[phase].owner = v /\ objs'[phase].ref = x
  <2>1. [owner |-> v, ref |-> x, lastName |-> l.name] \in Object
    BY SMTT(30), <1>2, <1>3, <1>5 DEF Object, Blocks, Names
  <2>2. QED BY <1>1, <1>2, <1>3, <2>1 DEF ChainInv, TypeOK
<1>9. TypeOK'
  <2>1. owed' \in [Owners -> SUBSET Names]
    BY <1>1, <1>3, <1>5, OwingFacts
  <2>2. done' \in Call \cup {NoCall}
    BY <1>1, <1>3, <1>5 DEF Call
  <2>3. pending' \in [kind : {"none", "create", "append"}, tail : 0..MaxLinks, addr : 0..MaxLinks]
    BY SMTT(30), <1>1, <1>4 DEF NoPending
  <2>4. QED BY <1>1, <1>6, <1>8, <2>1, <2>2, <2>3 DEF ChainInv, TypeOK
<1>10. FileInv'
  <2>1. \A k \in Blocks : links[k] # NoLink => k < nextPropertyIndex
    BY <1>1 DEF ChainInv, FileInv
  <2>2. ASSUME NEW w \in Owners, NEW k \in Chain(links, head'[w])
        PROVE  links[k] # NoLink /\ k # 0
    <3>1. CASE w = v
      BY SMTT(30), <1>2, <1>5, <1>6, <1>7, <2>2, <3>1 DEF l, Blocks
    <3>2. CASE w # v
      <4>1. k \in ChainBlocks(w) /\ k \in Blocks
        BY <1>6, <2>2, <3>2, FileFacts
      <4>2. QED BY SMTT(30), <4>1 DEF ChainInv, FileInv, Blocks
    <3>3. QED BY <3>1, <3>2
  <2>3. ASSUME NEW w \in Owners, NEW u \in Owners, w # u
        PROVE  Chain(links, head'[w]) \cap Chain(links, head'[u]) = {}
    <3>1. \A t \in Owners : x \notin Chain(links, head[t])
      BY DEF ChainInv, FileInv, ChainBlocks, x
    <3>2. Chain(links, head[w]) \cap Chain(links, head[u]) = {}
      BY <2>3 DEF ChainInv, FileInv, ChainBlocks
    <3>3. QED BY <1>6, <1>7, <2>3, <3>1, <3>2
  <2>4. pending'.addr = 0
    BY <1>1 DEF NoPending
  <2>5. QED BY <1>1, <1>4, <2>1, <2>2, <2>3, <2>4 DEF FileInv, ChainBlocks
<1>11. ObjectsInv'
  <2>1. ASSUME NEW y \in Ends, y # phase, objs[y] # NoObj, objs[y].owner = v
        PROVE  objs[y].ref = 0 /\ owed'[v] = {}
    <3>1. phase = "src" /\ y = "dst" /\ (objs[y].ref = 0 => StartsOver(v))
      BY <1>2, <2>1, OtherObject
    <3>2. head[v] = 0
      BY <1>2, <1>3, <3>1 DEF ChainInv, ObjectsInv, v
    <3>3. Chain(links, head[v]) = {}
      BY <1>4, <3>2, ChainEmpty
    <3>4. objs[y].ref = 0 /\ owed[v] = {}
      BY <2>1, <3>3 DEF ChainInv, ObjectsInv, ChainBlocks
    <3>5. QED BY <1>1, <1>3, <1>5, <3>1, <3>4, OwingFacts
  <2>2. ASSUME NEW y \in Ends, objs'[y] # NoObj
        PROVE  /\ objs'[y].ref # 0 => objs'[y].ref \in Chain(links, head'[objs'[y].owner])
               /\ objs'[y].ref = 0 => owed'[objs'[y].owner] = {}
    <3>1. CASE y = phase
      <4>1. x # 0
        BY SMTT(30), <1>2 DEF Blocks
      <4>2. QED BY <1>6, <1>7, <1>8, <3>1, <4>1
    <3>2. CASE y # phase /\ objs[y].owner = v
      BY <1>8, <2>1, <2>2, <3>2
    <3>3. CASE y # phase /\ objs[y].owner # v
      <4>1. objs'[y] = objs[y] /\ objs[y].owner \in Owners
        BY <1>8, <2>2, <3>3 DEF ChainInv, TypeOK, Object
      <4>2. head'[objs[y].owner] = head[objs[y].owner]
        BY <1>6, <3>3, <4>1
      <4>3. owed'[objs[y].owner] = owed[objs[y].owner]
        BY <1>1, <1>3, <1>5, <3>3, <4>1, OwingFacts
      <4>4. QED BY <2>2, <4>1, <4>2, <4>3 DEF ChainInv, ObjectsInv, ChainBlocks
    <3>4. QED BY <3>1, <3>2, <3>3
  <2>3. objs'["src"] # NoObj => phase = "src" /\ objs'["src"].ref # 0
    <3>1. x # 0
      BY SMTT(30), <1>2 DEF Blocks
    <3>2. phase # "src" => objs'["src"] = objs["src"]
      BY <1>8 DEF Ends
    <3>3. QED BY <1>8, <3>1, <3>2 DEF ChainInv, ObjectsInv
  <2>4. QED BY <1>1, <1>2, <2>2, <2>3 DEF ObjectsInv, ChainBlocks
<1>12. PendingInv' /\ MetaInv'
  BY <1>1 DEF ChainInv, PendingInv, MetaInv, NoPending
<1>13. \A m \in Names : Read(links, x, m) = IF m = l.name THEN l.value ELSE 0
  <2>1. x \in 0..MaxLinks
    BY SMTT(30), <1>2 DEF Blocks
  <2>2. ASSUME NEW m \in Names, m = l.name PROVE Read(links, x, m) = l.value
    <3>1. x \in Chain(links, x) /\ links[x].name = m
      BY <1>7, <2>2 DEF l
    <3>2. \A j \in Chain(links, x) : links[j].name = m => x <= j
      BY SMTT(30), <1>7, <2>1
    <3>3. QED BY SMTT(30), <1>4, <2>1, <3>1, <3>2, ReadFirst DEF l
  <2>3. ASSUME NEW m \in Names, m # l.name PROVE Read(links, x, m) = 0
    BY <1>4, <1>7, <2>1, <2>3, ReadNone DEF l
  <2>4. QED BY <2>2, <2>3
<1>14. ReadInv'
  <2>1. ASSUME ~meta, NEW w \in Owners, NEW m \in Names, m \in owed'[w]
        PROVE  Read(links, head'[w], m) # 0
    <3>1. CASE w # v
      <4>1. owed'[w] = owed[w]
        BY <1>1, <1>3, <1>5, <3>1, OwingFacts
      <4>2. QED BY <1>6, <2>1, <3>1, <4>1 DEF ChainInv, ReadInv, PropertiesStay, Readable, getProperty
    <3>2. CASE w = v
      <4>1. owed[v] = {}
        BY <1>2, <1>3 DEF ChainInv, ObjectsInv, v
      <4>2. m = l.name
        <5>1. Owing(v, l.name)[v] \subseteq owed[v] \cup {l.name}
          BY <1>3, <1>5, OwingFacts
        <5>2. QED BY <1>1, <2>1, <3>2, <4>1, <5>1
      <4>3. l.value # 0
        BY SMTT(30), <1>5, ChainAssumption
      <4>4. QED BY <1>6, <1>13, <3>2, <4>2, <4>3
    <3>3. QED BY <3>1, <3>2
  <2>2. done' # NoCall => meta /\ Read(links, head'[done'.owner], done'.name) = done'.value
    BY <1>1, <1>5, <1>6, <1>13
  <2>3. PropertiesStay'
    BY <1>1, <1>9, <2>1 DEF PropertiesStay, Readable, getProperty, TypeOK
  <2>4. QED BY <1>1, <2>2, <2>3 DEF ReadInv, LastWriteWins, getProperty
<1>15. QED BY <1>9, <1>10, <1>11, <1>12, <1>14 DEF ChainInv

(* What a step that moves the current object within its chain leaves true of the     *)
(* objects.                                                                          *)
LEMMA MovedInv ==
  ASSUME ChainInv, phase \in Ends, Current # NoObj, Current.ref # 0,
         NEW n \in Names, NEW r \in Chain(links, head[Current.owner]),
         objs' = Moved(r, n), UNCHANGED <<head, phase>>,
         owed' = owed \/ owed' = Owing(Current.owner, n),
         \A v \in Owners : Chain(links, head[v]) \subseteq Chain(links', head[v])
  PROVE  /\ objs' \in [Ends -> Object \cup {NoObj}]
         /\ ObjectsInv'
<1> DEFINE v == Current.owner
<1>1. Current = objs[phase] /\ Current \in Object /\ v \in Owners
  BY CurrentFacts
<1>2. objs' = [objs EXCEPT ![phase] = [owner |-> v, ref |-> r, lastName |-> n]]
  BY DEF Moved, Current
<1>3. r \in Blocks
  BY <1>1, FileFacts DEF ChainBlocks
<1> HIDE DEF v
<1>4. [owner |-> v, ref |-> r, lastName |-> n] \in Object
  BY SMTT(30), <1>1, <1>3 DEF Object, Blocks, Names
<1>5. /\ \A y \in Ends \ {phase} : objs'[y] = objs[y]
      /\ objs'[phase] = [owner |-> v, ref |-> r, lastName |-> n]
      /\ objs' \in [Ends -> Object \cup {NoObj}]
  BY <1>2, <1>4 DEF ChainInv, TypeOK
<1>6. ASSUME NEW y \in Ends, objs'[y] # NoObj
      PROVE  /\ objs'[y].ref # 0 => objs'[y].ref \in Chain(links', head[objs'[y].owner])
             /\ objs'[y].ref = 0 => owed'[objs'[y].owner] = {}
  <2>1. CASE y = phase
    BY SMTT(30), <1>1, <1>3, <1>5, <2>1 DEF v, Blocks
  <2>2. CASE y # phase
    <3>1. objs'[y] = objs[y] /\ objs[y] # NoObj
      BY <1>5, <1>6, <2>2
    <3>2. objs[y].owner \in Owners /\ (objs[y].ref = 0 => StartsOver(objs[y].owner))
      BY <2>2, <3>1, OtherObject
    <3>3. objs[y].ref = 0 => owed'[objs[y].owner] = owed[objs[y].owner]
      <4>1. CASE objs[y].owner = v
        BY <1>1, <3>2, <4>1, OwingFacts DEF v
      <4>2. CASE objs[y].owner # v
        <5>1. \A w \in Owners : w # v => Owing(v, n)[w] = owed[w]
          BY <1>1, OwingFacts
        <5>2. owed' = owed \/ owed' = Owing(v, n)
          BY DEF v
        <5>3. QED BY <3>2, <4>2, <5>1, <5>2
      <4>3. QED BY <4>1, <4>2
    <3>4. QED BY <3>1, <3>2, <3>3 DEF ChainInv, ObjectsInv, ChainBlocks
  <2>3. QED BY <2>1, <2>2
<1>7. objs'["src"] # NoObj => phase = "src" /\ objs'["src"].ref # 0
  <2>1. r # 0
    BY SMTT(30), <1>3 DEF Blocks
  <2>2. phase # "src" => objs'["src"] = objs["src"]
    BY <1>5 DEF Ends
  <2>3. phase = "src" => objs'["src"].ref = r
    <3>1. objs'[phase].ref = r
      BY SMTT(30), <1>5
    <3>2. QED BY <3>1
  <2>4. objs["src"] # NoObj => phase = "src"
    BY DEF ChainInv, ObjectsInv
  <2>5. QED BY <2>1, <2>2, <2>3, <2>4
<1>8. ObjectsInv'
  BY <1>6, <1>7 DEF ObjectsInv, ChainBlocks
<1>9. QED BY <1>5, <1>8

(* insert() meets the name: the file keeps its chains, and a meta property gets its   *)
(* new value in the one link that it has.                                             *)
LEMMA InsertExistingInv ==
  ASSUME ChainInv, NEW n \in Names, NEW val \in Values, InsertExisting(n, val)
  PROVE  ChainInv'
<1> DEFINE r == Current.ref
<1> DEFINE v == Current.owner
<1> DEFINE k == Walk(links, r)[Min(PositionsOf(links, r, n))]
<1>1. /\ UNCHANGED <<meta, head, nextPropertyIndex, phase, pending, owed>>
      /\ phase \in Ends /\ pending = NoPending /\ Current # NoObj /\ r # 0
      /\ PositionsOf(links, r, n) # {}
      /\ links' = (IF meta THEN [links EXCEPT ![k] = [links[k] EXCEPT !.value = val]] ELSE links)
      /\ objs' = Moved(k, n)
      /\ done' = (IF meta THEN [owner |-> v, name |-> n, value |-> val] ELSE NoCall)
  BY DEF InsertExisting, Adding, Updated, Written, Returned
<1>2. v \in Owners /\ r \in 0..MaxLinks /\ r \in Chain(links, head[v])
  BY <1>1, CurrentFacts
<1>3. links \in Files /\ Ascending(links) /\ MaxLinks \in Nat \ {0} /\ head[v] \in 0..MaxLinks
  BY <1>2, FileFacts
<1>4. k \in Chain(links, r) /\ links[k].name = n
  BY SMTT(30), <1>1, <1>2, <1>3, FirstMet
<1>5. k \in Chain(links, head[v])
  BY <1>2, <1>3, <1>4, ChainSuffix
<1>6. k \in Blocks
  BY <1>2, <1>5, FileFacts DEF ChainBlocks
<1> HIDE DEF k, r
<1>7. links[k] \in Link
  BY SMTT(30), <1>4, <1>6 DEF ChainInv, TypeOK, NoLink, Names
<1>8. /\ links' \in Files
      /\ \A j \in Blocks : links'[j].next = links[j].next /\ links'[j].name = links[j].name
      /\ \A j \in Blocks : links'[j] # NoLink <=> links[j] # NoLink
      /\ meta => links'[k].value = val
  <2>1. CASE ~meta
    BY <1>1, <1>3, <2>1
  <2>2. CASE meta
    <3> DEFINE l == [links[k] EXCEPT !.value = val]
    <3>1. l \in Link /\ l.next = links[k].next /\ l.name = links[k].name /\ l.value = val
      BY <1>7 DEF Link
    <3>2. l # NoLink /\ links[k] # NoLink
      BY SMTT(30), <1>7, <3>1 DEF Link, NoLink, Names
    <3>3. links' = [links EXCEPT ![k] = l]
      BY <1>1, <2>2
    <3> HIDE DEF l
    <3>4. links'[k] = l /\ \A j \in Blocks : j # k => links'[j] = links[j]
      BY <1>3, <1>6, <3>3 DEF Files
    <3>5. links' \in Files
      BY <1>3, <3>1, <3>3 DEF Files
    <3>6. QED BY <3>1, <3>2, <3>4, <3>5
  <2>3. QED BY <2>1, <2>2
<1>9. Ascending(links')
  BY <1>3, <1>8 DEF Ascending
<1>10. \A w \in Owners : Chain(links', head[w]) = Chain(links, head[w])
  <2>1. ASSUME NEW w \in Owners PROVE Chain(links', head[w]) = Chain(links, head[w])
    <3>1. head[w] \in 0..MaxLinks /\ Chain(links, head[w]) \subseteq Blocks
      BY FileFacts DEF ChainBlocks
    <3>2. QED BY <1>3, <1>8, <1>9, <3>1, ChainFrame
  <2>2. QED BY <2>1
<1>11. objs' \in [Ends -> Object \cup {NoObj}] /\ ObjectsInv'
  BY <1>1, <1>5, <1>10, MovedInv DEF r
<1>12. TypeOK'
  <2>1. done' \in Call \cup {NoCall}
    BY <1>1, <1>2 DEF Call
  <2>2. QED BY <1>1, <1>8, <1>11, <2>1 DEF ChainInv, TypeOK, Files
<1>13. FileInv'
  <2>1. \A w \in Owners : \A j \in Chain(links, head[w]) : j \in Blocks
    BY FileFacts DEF ChainBlocks
  <2>2. QED BY <1>1, <1>8, <1>9, <1>10, <2>1 DEF ChainInv, FileInv, ChainBlocks
<1>14. PendingInv' /\ MetaInv'
  BY <1>1, <1>8 DEF ChainInv, PendingInv, MetaInv, NoPending
<1>15. ReadInv'
  <2>1. CASE ~meta
    BY <1>1, <2>1 DEF ChainInv, ReadInv, PropertiesStay, Readable, LastWriteWins, getProperty
  <2>2. CASE meta
    <3>1. head[v] # 0
      BY <1>2, <1>3, ChainEmpty
    <3>2. head[v] \in Blocks /\ links[head[v]].next = 0
      BY SMTT(30), <1>3, <2>2, <3>1 DEF ChainInv, MetaInv, Blocks
    <3>3. Chain(links, head[v]) = {head[v]}
      BY <1>3, <3>2, ChainOne
    <3>4. k = head[v] /\ Chain(links', head[v]) = {k}
      BY <1>2, <1>5, <1>10, <3>3
    <3>5. links'[k].name = n /\ links'[k].value = val
      BY <1>4, <1>6, <1>8, <2>2
    <3>6. k \in Chain(links', head[v]) /\ \A j \in Chain(links', head[v]) : links'[j].name = n => k <= j
      BY SMTT(30), <1>6, <3>4 DEF Blocks
    <3>7. Read(links', head[v], n) = val
      BY <1>3, <1>8, <1>9, <3>5, <3>6, ReadFirst
    <3>8. QED BY <1>1, <2>2, <3>7 DEF ReadInv, PropertiesStay, LastWriteWins, getProperty
  <2>3. QED BY <2>1, <2>2
<1>16. QED BY <1>11, <1>12, <1>13, <1>14, <1>15 DEF ChainInv

(* insert() writes its link; a meta property never comes here, because its one link   *)
(* has its one name.                                                                  *)
LEMMA InsertWriteInv ==
  ASSUME ChainInv, NEW n \in Names, NEW val \in Values, InsertWrite(n, val)
  PROVE  ChainInv'
<1> DEFINE x == nextPropertyIndex
<1> DEFINE r == Current.ref
<1> DEFINE v == Current.owner
<1> DEFINE t == Walk(links, r)[Max(Positions(links, r))]
<1>1. /\ UNCHANGED <<meta, head, nextPropertyIndex, objs, phase, owed, done>>
      /\ links' = Written(x, [name |-> n, value |-> val, next |-> 0]) /\ x <= MaxLinks
      /\ pending' = [kind |-> "append", tail |-> t, addr |-> x]
      /\ pending = NoPending /\ phase \in Ends /\ Current # NoObj /\ r # 0
      /\ PositionsOf(links, r, n) = {}
      /\ meta => n = 1
  BY DEF InsertWrite, history, Adding
<1>2. /\ links' \in Files /\ Ascending(links') /\ x \in Blocks
      /\ links'[x] = [name |-> n, value |-> val, next |-> 0] /\ links'[x] \in Link
      /\ \A k \in Blocks : k # x => links'[k] = links[k]
      /\ \A w \in Owners : Chain(links', head[w]) = Chain(links, head[w])
      /\ \A w \in Owners : \A m : Read(links', head[w], m) = Read(links, head[w], m)
  BY SMTT(30), <1>1, FreshWrite
<1>3. v \in Owners /\ r \in 0..MaxLinks /\ r \in Chain(links, head[v])
  BY <1>1, CurrentFacts
<1>4. links \in Files /\ Ascending(links) /\ MaxLinks \in Nat \ {0} /\ head[v] \in 0..MaxLinks
  BY <1>3, FileFacts
<1>5. r \in Blocks
  BY SMTT(30), <1>1, <1>3 DEF Blocks
<1>6. t \in Chain(links, r) /\ links[t].next = 0
  BY <1>4, <1>5, WalkToTail
<1>7. t \in Chain(links, head[v]) /\ t \in Blocks
  <2>1. t \in Chain(links, head[v])
    BY <1>3, <1>4, <1>6, ChainSuffix
  <2>2. QED BY <1>3, <2>1, FileFacts DEF ChainBlocks
<1>8. ~meta
  <2>1. SUFFICES ASSUME meta PROVE FALSE
    OBVIOUS
  <2>2. r \in Chain(links, r)
    BY <1>1, <1>3, <1>4, ChainClosed
  <2>3. links[r].name # 1
    BY SMTT(30), <1>1, <1>3, <1>4, <2>1, <2>2, FirstMet
  <2>4. links[r] # NoLink
    BY <1>3 DEF ChainInv, FileInv, ChainBlocks
  <2>5. links[r].name \in Names
    BY <1>5, <2>4 DEF ChainInv, TypeOK, Link
  <2>6. QED BY SMTT(30), <1>5, <2>1, <2>3, <2>5 DEF ChainInv, MetaInv, Names
<1> HIDE DEF t, r
<1>9. TypeOK'
  BY SMTT(30), <1>1, <1>2, <1>7, ChainAssumption DEF ChainInv, TypeOK, Blocks, Files
<1>10. \A w \in Owners : \A k \in Chain(links, head[w]) : k \in Blocks /\ k < x
  BY FileFacts
<1>11. FileInv'
  <2>1. \A k \in Blocks : links'[k] # NoLink => k < x \/ k = x
    BY <1>1, <1>2, ChainAssumption DEF ChainInv, FileInv, TypeOK, Blocks, NoPending
  <2>2. \A w \in Owners : \A k \in Chain(links, head[w]) : links'[k] # NoLink /\ k # x
    BY SMTT(30), <1>2, <1>10 DEF ChainInv, FileInv, ChainBlocks, Blocks
  <2>3. QED BY <1>1, <1>2, <2>1, <2>2 DEF ChainInv, FileInv, ChainBlocks
<1>12. ObjectsInv'
  <2>1. ASSUME NEW y \in Ends, objs[y] # NoObj
        PROVE  Chain(links', head[objs[y].owner]) = Chain(links, head[objs[y].owner])
    BY <1>2, <2>1 DEF ChainInv, TypeOK, Object
  <2>2. QED BY <1>1, <2>1 DEF ChainInv, ObjectsInv, ChainBlocks
<1>13. PendingInv'
  <2>1. t # x /\ links'[t].next = 0
    BY SMTT(30), <1>2, <1>3, <1>6, <1>7, <1>10 DEF Blocks
  <2>2. t \in Chain(links', head[v])
    BY <1>2, <1>3, <1>7
  <2>3. QED BY SMTT(30), <1>1, <1>2, <2>1, <2>2 DEF PendingInv, Current, ChainBlocks, r
<1>14. MetaInv'
  BY <1>1, <1>8 DEF MetaInv
<1>15. ReadInv'
  BY SMTT(30), <1>1, <1>2 DEF ChainInv, ReadInv, PropertiesStay, Readable,
                                 LastWriteWins, getProperty, TypeOK, Call
<1>16. QED BY <1>9, <1>11, <1>12, <1>13, <1>14, <1>15 DEF ChainInv

(* The former tail names the link that was written: one chain grows by one link at    *)
(* its end, so that what was readable stays as it is.                                 *)
LEMMA InsertLinkInv ==
  ASSUME ChainInv, InsertLink
  PROVE  ChainInv'
<1> DEFINE x == pending.addr
<1> DEFINE t == pending.tail
<1> DEFINE l == links[x]
<1> DEFINE v == Current.owner
<1>1. /\ UNCHANGED <<meta, head, phase>>
      /\ links' = [links EXCEPT ![t] = [links[t] EXCEPT !.next = x]]
      /\ objs' = Moved(t, l.name)
      /\ owed' = Owing(v, l.name)
      /\ done' = (IF meta THEN [owner |-> v, name |-> l.name, value |-> l.value] ELSE NoCall)
      /\ nextPropertyIndex' = nextPropertyIndex + 1
      /\ pending' = NoPending /\ pending.kind = "append"
  BY DEF InsertLink, Written, Returned
<1>2. /\ phase \in Ends /\ Current # NoObj /\ Current.ref # 0
      /\ x \in Blocks /\ l \in Link /\ l.next = 0 /\ nextPropertyIndex = x
      /\ t \in Chain(links, head[v]) /\ links[t].next = 0 /\ ~meta
  BY <1>1 DEF ChainInv, PendingInv, MetaInv, ChainBlocks
<1>3. v \in Owners
  BY <1>2, CurrentFacts
<1>4. links \in Files /\ Ascending(links) /\ MaxLinks \in Nat \ {0}
  BY FileFacts
<1>5. \A w \in Owners : /\ head[w] \in 0..MaxLinks
                        /\ \A k \in Chain(links, head[w]) : k \in Blocks /\ k < x
  BY <1>2, FileFacts
<1>6. l.name \in Names /\ l.value \in Values /\ l # NoLink
  BY SMTT(30), <1>2, ChainAssumption DEF Link, Names, NoLink
<1> HIDE DEF v, l, x, t
<1>7. t \in Blocks /\ t < x
  BY <1>2, <1>3, <1>5
<1>8. links[t] \in Link
  <2>1. links[t] # NoLink
    BY <1>2, <1>3 DEF ChainInv, FileInv, ChainBlocks
  <2>2. QED BY <1>7, <2>1 DEF ChainInv, TypeOK
<1>9. /\ links' \in Files /\ links'[t] # NoLink
      /\ links'[t].next = x /\ links'[t].name = links[t].name /\ links'[t].value = links[t].value
      /\ \A k \in Blocks : k # t => links'[k] = links[k]
  <2> DEFINE m == [links[t] EXCEPT !.next = x]
  <2>1. m \in Link /\ m.next = x /\ m.name = links[t].name /\ m.value = links[t].value
    BY SMTT(30), <1>2, <1>8 DEF Link, Blocks
  <2>2. m # NoLink
    BY SMTT(30), <2>1 DEF Link, Names, NoLink
  <2>3. links' = [links EXCEPT ![t] = m]
    BY <1>1
  <2> HIDE DEF m
  <2>4. links'[t] = m /\ links' \in Files /\ \A k \in Blocks : k # t => links'[k] = links[k]
    BY <1>4, <1>7, <2>1, <2>3 DEF Files
  <2>5. QED BY <2>1, <2>2, <2>4
<1>10. links'[x] = l /\ links'[x].next = 0
  BY SMTT(30), <1>2, <1>7, <1>9 DEF l, Blocks
<1>11. Ascending(links')
  BY <1>4, <1>7, <1>9 DEF Ascending
<1>12. Chain(links', head[v]) = Chain(links, head[v]) \cup {x}
  <2>1. \A k \in Chain(links, head[v]) \ {t} : links'[k].next = links[k].next
    BY <1>3, <1>5, <1>9
  <2>2. QED BY SMTT(30), <1>2, <1>3, <1>4, <1>5, <1>9, <1>10, <1>11, <2>1, ChainAppend
<1>13. ASSUME NEW w \in Owners, w # v
       PROVE  /\ \A k \in Chain(links, head[w]) : links'[k] = links[k]
              /\ Chain(links', head[w]) = Chain(links, head[w])
  <2>1. t \notin Chain(links, head[w])
    BY <1>2, <1>3, <1>13 DEF ChainInv, FileInv, ChainBlocks
  <2>2. \A k \in Chain(links, head[w]) : links'[k] = links[k]
    BY <1>5, <1>9, <2>1
  <2>3. QED BY <1>4, <1>5, <1>9, <1>11, <2>2, ChainFrame
<1>14. \A w \in Owners : Chain(links, head[w]) \subseteq Chain(links', head[w])
  BY <1>12, <1>13
<1>15. objs' \in [Ends -> Object \cup {NoObj}] /\ ObjectsInv'
  BY <1>1, <1>2, <1>6, <1>14, MovedInv DEF v
<1>16. TypeOK'
  <2>1. owed' \in [Owners -> SUBSET Names]
    BY <1>1, <1>3, <1>6, OwingFacts
  <2>2. pending' \in [kind : {"none", "create", "append"}, tail : 0..MaxLinks, addr : 0..MaxLinks]
    BY SMTT(30), <1>1, <1>4 DEF NoPending
  <2>3. nextPropertyIndex' \in 1..(MaxLinks + 1)
    BY SMTT(30), <1>1, <1>2, <1>4 DEF Blocks
  <2>4. QED BY <1>1, <1>2, <1>9, <1>15, <2>1, <2>2, <2>3 DEF ChainInv, TypeOK, Files
<1>17. FileInv'
  <2>1. \A k \in Blocks : links'[k] # NoLink => k < nextPropertyIndex'
    <3>1. \A k \in Blocks : links[k] # NoLink => k < x \/ k = x
      BY <1>2 DEF ChainInv, FileInv, x
    <3>2. QED BY SMTT(30), <1>1, <1>2, <1>7, <1>9, <3>1 DEF Blocks
  <2>2. ASSUME NEW w \in Owners, NEW k \in Chain(links', head[w])
        PROVE  links'[k] # NoLink /\ k # 0
    <3>1. CASE k = x
      BY SMTT(30), <1>2, <1>6, <1>10, <3>1 DEF Blocks
    <3>2. CASE k # x
      <4>1. k \in Chain(links, head[w])
        BY <1>12, <1>13, <2>2, <3>2
      <4>2. links[k] # NoLink /\ k \in Blocks
        BY <1>5, <4>1 DEF ChainInv, FileInv, ChainBlocks
      <4>3. QED BY SMTT(30), <1>9, <4>2 DEF Blocks
    <3>3. QED BY <3>1, <3>2
  <2>3. ASSUME NEW w \in Owners, NEW u \in Owners, w # u
        PROVE  Chain(links', head[w]) \cap Chain(links', head[u]) = {}
    <3>1. \A y \in Owners : x \notin Chain(links, head[y])
      BY DEF ChainInv, FileInv, ChainBlocks, x
    <3>2. Chain(links, head[w]) \cap Chain(links, head[u]) = {}
      BY <2>3 DEF ChainInv, FileInv, ChainBlocks
    <3>3. QED BY <1>12, <1>13, <2>3, <3>1, <3>2
  <2>4. pending'.addr = 0
    BY <1>1 DEF NoPending
  <2>5. QED BY <1>1, <1>11, <2>1, <2>2, <2>3, <2>4 DEF FileInv, ChainBlocks
<1>18. PendingInv' /\ MetaInv'
  BY <1>1, <1>2 DEF PendingInv, MetaInv, NoPending
<1>19. ReadInv'
  <2>1. ASSUME NEW w \in Owners, NEW m \in Names, m \in owed'[w]
        PROVE  Read(links', head[w], m) # 0
    <3>0. ASSUME m \in owed[w] PROVE Read(links, head[w], m) # 0
      BY <1>2, <3>0 DEF ChainInv, ReadInv, PropertiesStay, Readable, getProperty
    <3>1. CASE w # v
      <4>1. owed'[w] = owed[w]
        BY <1>1, <1>3, <1>6, <3>1, OwingFacts
      <4>2. Read(links', head[w], m) = Read(links, head[w], m)
        BY <1>4, <1>5, <1>9, <1>11, <1>13, <3>1, ReadFrame
      <4>3. QED BY <2>1, <3>0, <4>1, <4>2
    <3>2. CASE w = v
      <4>1. Read(links', head[v], m) = IF l.name = m /\ Read(links, head[v], m) = 0
                                       THEN l.value ELSE Read(links, head[v], m)
        <5>1. \A k \in Chain(links, head[v]) :
                links'[k].name = links[k].name /\ links'[k].value = links[k].value
          BY <1>3, <1>5, <1>9
        <5>2. \A k \in Chain(links, head[v]) : k < x
          BY <1>3, <1>5
        <5>3. Read(links', head[v], m) = IF links'[x].name = m /\ Read(links, head[v], m) = 0
                                         THEN links'[x].value ELSE Read(links, head[v], m)
          BY SMTT(30), <1>2, <1>3, <1>4, <1>5, <1>9, <1>11, <1>12, <5>1, <5>2, ReadAppend
        <5>4. QED BY <1>10, <5>3
      <4>2. m \in owed[v] \/ m = l.name
        <5>1. Owing(v, l.name)[v] \subseteq owed[v] \cup {l.name}
          BY <1>3, <1>6, OwingFacts
        <5>2. QED BY <1>1, <2>1, <3>2, <5>1
      <4>3. l.value # 0
        BY SMTT(30), <1>6, ChainAssumption
      <4>4. QED BY <3>0, <3>2, <4>1, <4>2, <4>3
    <3>3. QED BY <3>1, <3>2
  <2>2. PropertiesStay'
    BY <1>1, <1>16, <2>1 DEF PropertiesStay, Readable, getProperty, TypeOK
  <2>3. QED BY <1>1, <1>2, <2>2 DEF ReadInv, LastWriteWins, getProperty
<1>20. QED BY <1>15, <1>16, <1>17, <1>18, <1>19 DEF ChainInv

(* The file's size after a crash: the next link goes above every written block.       *)
LEMMA CrashInv ==
  ASSUME ChainInv, Crash
  PROVE  ChainInv'
<1> DEFINE used == {k \in Blocks : links[k] # NoLink}
<1>1. /\ UNCHANGED <<meta, links, head, owed, done>>
      /\ nextPropertyIndex' = ReopenedIndex /\ objs' = [x \in Ends |-> NoObj]
      /\ phase' = "idle" /\ pending' = NoPending
  BY DEF Crash, disk, history
<1>2. MaxLinks \in Nat \ {0}
  BY ChainAssumption
<1>3. ReopenedIndex \in 1..(MaxLinks + 1) /\ \A k \in used : k < ReopenedIndex
  <2>1. CASE used = {}
    BY SMTT(30), <1>2, <2>1 DEF ReopenedIndex, FileBlocks
  <2>2. CASE used # {}
    <3>1. used \in SUBSET (0..MaxLinks) /\ MaxLinks \in Nat
      BY SMTT(30), <1>2 DEF Blocks
    <3> HIDE DEF used
    <3>2. \E n \in used : \A m \in used : m <= n
      BY <2>2, <3>1, Greatest
    <3>3. \A n, m \in used : m <= n <=> n >= m
      BY <3>1
    <3>4. \E n \in used : \A m \in used : n >= m
      BY <3>2, <3>3
    <3> DEFINE p == Max(used)
    <3>5. p \in used /\ \A m \in used : p >= m
      BY <3>4 DEF Max
    <3> HIDE DEF p
    <3>6. p \in 0..MaxLinks /\ \A m \in used : m \in 0..MaxLinks
      BY <3>1, <3>5
    <3>7. ReopenedIndex = p + 1
      BY SMTT(30), <2>2, <3>6 DEF ReopenedIndex, FileBlocks, used, p
    <3>8. QED BY SMTT(30), <1>2, <3>5, <3>6, <3>7
  <2>3. QED BY <2>1, <2>2
<1>4. TypeOK'
  BY SMTT(30), <1>1, <1>2, <1>3 DEF ChainInv, TypeOK, NoPending, Ends
<1>5. FileInv'
  <2>1. \A v \in Owners : \A k \in Chain(links, head[v]) : k # 0
    BY SMTT(30), FileFacts DEF ChainBlocks, Blocks
  <2>2. \A k \in Blocks : links[k] # NoLink => k < nextPropertyIndex'
    BY <1>1, <1>3
  <2>3. pending'.addr = 0
    BY <1>1 DEF NoPending
  <2>4. QED BY <1>1, <2>1, <2>2, <2>3 DEF ChainInv, FileInv, ChainBlocks, Ascending
<1>6. ObjectsInv' /\ PendingInv' /\ MetaInv'
  BY <1>1 DEF ChainInv, ObjectsInv, PendingInv, MetaInv, NoPending, Ends
<1>7. ReadInv'
  BY <1>1 DEF ChainInv, ReadInv, PropertiesStay, Readable, LastWriteWins, getProperty
<1>8. QED BY <1>4, <1>5, <1>6, <1>7 DEF ChainInv

(* Every step keeps the invariant.                                                    *)
LEMMA NextInv ==
  ASSUME ChainInv, [Next]_vars
  PROVE  ChainInv'
<1>1. CASE UNCHANGED vars
  <2>1. /\ UNCHANGED <<meta, links, head, nextPropertyIndex, objs>>
        /\ UNCHANGED <<phase, pending, owed, done>>
    BY <1>1 DEF vars
  <2>2. TypeOK' /\ FileInv'
    BY <2>1 DEF ChainInv, TypeOK, FileInv, Ascending, ChainBlocks
  <2>3. ObjectsInv' /\ PendingInv' /\ MetaInv'
    BY <2>1 DEF ChainInv, ObjectsInv, PendingInv, MetaInv, ChainBlocks, Current
  <2>4. ReadInv'
    BY <2>1 DEF ChainInv, ReadInv, PropertiesStay, Readable, LastWriteWins, getProperty
  <2>5. QED BY <2>2, <2>3, <2>4 DEF ChainInv
<1>2. CASE \E s \in Owners, d \in Owners \cup {"none"} : AddEdge(s, d) \/ AddEdge(d, s)
  BY <1>2, AddEdgeInv
<1>3. ASSUME NEW n \in Names, NEW val \in Values, AddProperty(n, val)
      PROVE  ChainInv'
  BY <1>3, CreateInv, InsertExistingInv, InsertWriteInv DEF AddProperty
<1>4. CASE SetHead \/ InsertLink \/ EndDone \/ Crash
  BY <1>4, SetHeadInv, InsertLinkInv, EndDoneInv, CrashInv
<1>5. QED BY <1>1, <1>2, <1>3, <1>4 DEF Next

(* Hence it holds in every state.                                                     *)
THEOREM ChainInvariant == Spec => []ChainInv
<1>1. Init => ChainInv
  BY InitInv
<1>2. ChainInv /\ [Next]_vars => ChainInv'
  BY NextInv
<1>3. QED BY <1>1, <1>2, PTL DEF Spec

----------------------------------------------------------------------------
(* The theorems *)

(* Whatever edges and properties are added, in any order and with a crash at any      *)
(* point, no chain on disk has a cycle, an unwritten link or a link of another node's *)
(* chain, and the next link goes into a block of no chain.                            *)
THEOREM ChainsAreSound == Spec => []ChainsSound
<1>1. ChainInv => ChainsSound
  <2>1. SUFFICES ASSUME ChainInv PROVE ChainsSound
    OBVIOUS
  <2>2. \A v \in Owners : Walk(links, head[v])[MaxLinks] = 0
    BY <2>1, FileFacts, WalkRises
  <2>3. nextPropertyIndex # 0 /\ \A v \in Owners : nextPropertyIndex \notin ChainBlocks(v)
    BY SMTT(30), <2>1, FileFacts DEF ChainInv, TypeOK
  <2>4. QED BY <2>1, <2>2, <2>3 DEF ChainsSound, ChainInv, FileInv
<1>2. QED BY <1>1, ChainInvariant, PTL

(* A property stays readable through every later edge and crash, although insertions  *)
(* start in the middle of the chain: an appended link never cuts one off, and an       *)
(* object that starts a new chain belongs to a node that is owed nothing.              *)
THEOREM PropertiesAreKept == Spec => []PropertiesStay
<1>1. ChainInv => PropertiesStay
  BY DEF ChainInv, ReadInv
<1>2. QED BY <1>1, ChainInvariant, PTL

(* A meta property always has the value of the last addMetaProperty that returned.    *)
THEOREM LastWritesWin == Spec => []LastWriteWins
<1>1. ChainInv => LastWriteWins
  BY DEF ChainInv, ReadInv
<1>2. QED BY <1>1, ChainInvariant, PTL
=============================================================================
