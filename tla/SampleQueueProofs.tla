------------------------- MODULE SampleQueueProofs --------------------------
(***************************************************************************)
(* Theorems about SampleQueue, for every limit and any number of buffers:  *)
(* the linked list is a list, its nodes have one owner, no thread follows  *)
(* a pointer to a freed one, and the whole implements the lossy FIFO.      *)
(*                                                                         *)
(* What a chain of pointers holds is a recursive function.  That there is  *)
(* such a function, and what it returns, is shown by the least or greatest *)
(* node that would refute it.                                              *)
(***************************************************************************)
EXTENDS SampleQueue, WellFoundedInduction, SequenceTheorems, FiniteSetTheorems, TLAPS

USE QueueAssumption

Links == 0..MaxBufs

LEMMA Least ==
  ASSUME NEW T \in SUBSET Nat, T # {}
  PROVE  \E x \in T : \A y \in T : x <= y
<1> DEFINE R == {ss \in Nat \X Nat : ss[1] < ss[2]}
<1>1. IsWellFoundedOn(R, Nat)
  BY NatLessThanWellFounded DEF OpToRel
<1>2. PICK x \in T : \A y \in T : ~ (<<y, x>> \in R)
  BY <1>1, WFMin
<1>3. x \in Nat /\ \A y \in T : y \in Nat /\ ~ (y < x)
  BY <1>2
<1> QED
  BY <1>3

LEMMA Greatest ==
  ASSUME NEW T \in SUBSET Links, T # {}
  PROVE  \E x \in T : \A y \in T : y <= x
<1> DEFINE U == {n \in Nat : \E x \in T : n = MaxBufs - x}
<1>1. U # {}
  <2>1. PICK x \in T : x \in Links
    OBVIOUS
  <2>2. MaxBufs - x \in U
    BY <2>1 DEF Links
  <2> QED
    BY <2>2
<1>2. PICK n \in U : \A k \in U : n <= k
  BY <1>1, Least
<1>3. PICK x \in T : n = MaxBufs - x
  BY <1>2
<1>4. \A y \in T : MaxBufs - y \in U
  BY DEF Links
<1> QED
  BY <1>2, <1>3, <1>4 DEF Links

-----------------------------------------------------------------------------
(* Chains.                                                                 *)

\* The pointers of a list without a cycle.
Forward(link) ==
  /\ link \in [Nodes -> Links]
  /\ \A n \in Nodes : link[n] = 0 \/ n < link[n]

\* s is the chain from n on.
Path(link, n, s) ==
  /\ s \in Seq(Nodes)
  /\ n = 0 => s = <<>>
  /\ n # 0 => /\ Len(s) > 0 /\ s[1] = n /\ link[s[Len(s)]] = 0
              /\ \A i \in 1..(Len(s) - 1) : link[s[i]] = s[i + 1]

\* g follows link from the last k nodes.
Follows(link, g, k) ==
  /\ g[0] = <<>>
  /\ \A m \in (MaxBufs - k + 1)..MaxBufs : g[m] = <<m>> \o g[link[m]]

LEMMA FollowExists ==
  ASSUME NEW link, Forward(link), NEW k \in Links
  PROVE  \E g : Follows(link, g, k)
<1> DEFINE T == {j \in Links : ~ \E g : Follows(link, g, j)}
<1> SUFFICES ASSUME T # {} PROVE FALSE
  OBVIOUS
<1>1. T \in SUBSET Nat
  BY DEF Links
<1>2. PICK j \in T : \A y \in T : j <= y
  BY <1>1, Least
<1>3. j \in Links /\ ~ \E g : Follows(link, g, j)
  OBVIOUS
<1>4. CASE j = 0
  <2> DEFINE g == [m \in {0} |-> <<>>]
  <2>1. Follows(link, g, 0)
    BY DEF Follows
  <2> QED
    BY <1>3, <1>4, <2>1
<1>5. CASE j # 0
  <2>1. j - 1 \in Links /\ j - 1 \notin T
    BY <1>2, <1>5 DEF Links
  <2>2. PICK g : Follows(link, g, j - 1)
    BY <2>1
  <2> DEFINE top == MaxBufs - j + 1
             h == [m \in Links |-> IF m = top THEN <<m>> \o g[link[m]] ELSE g[m]]
  <2>3. top \in Nodes /\ top \in Links
    BY <1>3, <1>5 DEF Nodes, Links
  <2>4. h[0] = <<>>
    BY <2>2, <2>3 DEF Follows, Links, Nodes
  <2>5. ASSUME NEW m \in top..MaxBufs PROVE h[m] = <<m>> \o h[link[m]]
    <3>1. m \in Nodes /\ link[m] \in Links /\ link[m] # top
      BY <2>3 DEF Forward, Nodes, Links
    <3>2. h[link[m]] = g[link[m]]
      BY <3>1
    <3>3. m # top => g[m] = <<m>> \o g[link[m]]
      <4>1. m # top => m \in (MaxBufs - (j - 1) + 1)..MaxBufs
        BY <1>3 DEF Links
      <4> QED
        BY <2>2, <4>1 DEF Follows
    <3> QED
      BY <3>1, <3>2, <3>3 DEF Nodes, Links
  <2>6. Follows(link, h, j)
    BY <2>4, <2>5 DEF Follows
  <2> QED
    BY <1>3, <2>6
<1> QED
  BY <1>4, <1>5

\* The recursion of ChainOf.
LEMMA ChainRecursion ==
  ASSUME NEW link, Forward(link)
  PROVE  /\ ChainOf(link, 0) = <<>>
         /\ \A n \in Nodes : ChainOf(link, n) = <<n>> \o ChainOf(link, link[n])
<1> DEFINE Is(f) == f = [m \in 0..MaxBufs |-> IF m = 0 THEN <<>> ELSE <<m>> \o f[link[m]]]
<1>1. PICK g : Follows(link, g, MaxBufs)
  BY FollowExists DEF Links
<1> DEFINE h == [m \in 0..MaxBufs |-> g[m]]
<1>2. ASSUME NEW m \in 0..MaxBufs PROVE h[m] = IF m = 0 THEN <<>> ELSE <<m>> \o h[link[m]]
  <2>1. CASE m = 0
    BY <1>1, <2>1 DEF Follows
  <2>2. CASE m # 0
    <3>1. m \in Nodes /\ link[m] \in 0..MaxBufs
      BY <2>2 DEF Forward, Nodes, Links
    <3>2. g[m] = <<m>> \o g[link[m]]
      <4>1. m \in (MaxBufs - MaxBufs + 1)..MaxBufs
        BY <3>1 DEF Nodes
      <4> QED
        BY <1>1, <4>1 DEF Follows
    <3> QED
      BY <2>2, <3>1, <3>2
  <2> QED
    BY <2>1, <2>2
<1>3. Is(h)
  BY <1>2
<1> DEFINE from == CHOOSE f : Is(f)
<1>4. Is(from)
  BY <1>3
<1>5. \A n \in 0..MaxBufs : ChainOf(link, n) = from[n]
  BY DEF ChainOf
<1> HIDE DEF from
<1>6. ASSUME NEW n \in Nodes PROVE from[n] = <<n>> \o from[link[n]]
  <2>1. n \in 0..MaxBufs /\ n # 0
    BY DEF Nodes
  <2>2. \A m \in 0..MaxBufs : from[m] = IF m = 0 THEN <<>> ELSE <<m>> \o from[link[m]]
    BY <1>4, Zenon
  <2> QED
    BY <2>1, <2>2, Zenon
<1>7. from[0] = <<>>
  BY <1>4
<1>8. \A n \in Nodes : n \in 0..MaxBufs /\ link[n] \in 0..MaxBufs
  BY DEF Forward, Nodes, Links
<1>9. ChainOf(link, 0) = <<>>
  BY <1>5, <1>7, QueueAssumption DEF QueueAssumption
<1>10. ASSUME NEW n \in Nodes PROVE ChainOf(link, n) = <<n>> \o ChainOf(link, link[n])
  <2>1. ChainOf(link, n) = from[n] /\ ChainOf(link, link[n]) = from[link[n]]
    BY <1>5, <1>8
  <2> QED
    BY <1>6, <2>1, Zenon
<1> QED
  BY <1>9, <1>10

LEMMA PathCons ==
  ASSUME NEW link, Forward(link), NEW n \in Nodes, NEW s, Path(link, link[n], s)
  PROVE  Path(link, n, <<n>> \o s)
<1> DEFINE t == <<n>> \o s
<1>1. s \in Seq(Nodes) /\ <<n>> \in Seq(Nodes) /\ n # 0 /\ link[n] \in Links
  BY DEF Path, Nodes, Links, Forward
<1>2. /\ t \in Seq(Nodes) /\ Len(t) = Len(s) + 1 /\ Len(s) \in Nat
      /\ t[1] = n /\ \A i \in 1..Len(s) : t[i + 1] = s[i]
  BY <1>1
<1>3. CASE link[n] = 0
  <2>1. s = <<>> /\ Len(s) = 0
    BY <1>3 DEF Path
  <2> QED
    BY <1>1, <1>2, <1>3, <2>1 DEF Path
<1>4. CASE link[n] # 0
  <2>1. /\ Len(s) > 0 /\ s[1] = link[n] /\ link[s[Len(s)]] = 0
        /\ \A i \in 1..(Len(s) - 1) : link[s[i]] = s[i + 1]
    BY <1>4 DEF Path
  <2> HIDE DEF t
  <2>2. link[t[Len(t)]] = 0
    BY <1>2, <2>1
  <2>3. ASSUME NEW i \in 1..(Len(t) - 1) PROVE link[t[i]] = t[i + 1]
    <3>1. CASE i = 1
      BY <1>2, <2>1, <3>1
    <3>2. CASE i # 1
      <4>1. i - 1 \in 1..(Len(s) - 1) /\ i - 1 \in 1..Len(s) /\ i \in 1..Len(s)
        BY <1>2, <3>2
      <4>2. t[(i - 1) + 1] = s[i - 1] /\ t[i + 1] = s[i] /\ link[s[i - 1]] = s[(i - 1) + 1]
        BY <1>2, <2>1, <4>1
      <4> QED
        BY <4>2
    <3> QED
      BY <3>1, <3>2
  <2>4. Path(link, n, t)
    BY <1>1, <1>2, <2>2, <2>3 DEF Path
  <2> QED
    BY <2>4 DEF t
<1> QED
  BY <1>3, <1>4

LEMMA PathTail ==
  ASSUME NEW link, Forward(link), NEW n \in Nodes, NEW s, Path(link, n, s)
  PROVE  Path(link, link[n], Tail(s)) /\ s = <<n>> \o Tail(s)
<1> DEFINE t == Tail(s)
<1>1. /\ s \in Seq(Nodes) /\ n # 0 /\ Len(s) > 0 /\ s[1] = n /\ link[s[Len(s)]] = 0
      /\ \A i \in 1..(Len(s) - 1) : link[s[i]] = s[i + 1]
  BY DEF Path, Nodes
<1>2. /\ t \in Seq(Nodes) /\ Len(t) = Len(s) - 1 /\ Len(s) \in Nat
      /\ \A i \in 1..(Len(s) - 1) : t[i] = s[i + 1]
  BY <1>1
<1>3. s = <<n>> \o t
  <2>1. <<n>> \o t \in Seq(Nodes) /\ Len(<<n>> \o t) = Len(s)
    BY <1>1, <1>2
  <2>2. \A i \in 1..Len(s) : s[i] = (<<n>> \o t)[i]
    BY <1>1, <1>2
  <2> QED
    BY <1>1, <2>1, <2>2, SeqEqual
<1> HIDE DEF t
<1>4. CASE Len(s) = 1
  <2>1. link[n] = 0 /\ t = <<>>
    BY <1>1, <1>2, <1>4
  <2> QED
    BY <1>2, <1>3, <2>1 DEF Path, t
<1>5. CASE Len(s) # 1
  <2>1. link[n] = s[2] /\ t[1] = s[2] /\ s[2] \in Nodes
    BY <1>1, <1>2, <1>5
  <2>2. link[t[Len(t)]] = 0
    BY <1>1, <1>2, <1>5
  <2>3. \A i \in 1..(Len(t) - 1) : link[t[i]] = t[i + 1]
    BY <1>1, <1>2
  <2>4. Len(t) > 0 /\ link[n] # 0
    BY <1>2, <1>5, <1>1, <2>1 DEF Nodes
  <2> QED
    BY <1>2, <1>3, <2>1, <2>2, <2>3, <2>4 DEF Path, t
<1> QED
  BY <1>4, <1>5, <1>1, <1>2

\* The chain is a path, and the only one.
LEMMA ChainIsPath ==
  ASSUME NEW link, Forward(link), NEW n \in Links
  PROVE  Path(link, n, ChainOf(link, n))
<1> DEFINE T == {m \in Links : ~ Path(link, m, ChainOf(link, m))}
<1> SUFFICES ASSUME T # {} PROVE FALSE
  OBVIOUS
<1>1. PICK m \in T : \A y \in T : y <= m
  BY Greatest
<1>2. 0 \notin T
  <2>1. Path(link, 0, <<>>)
    BY DEF Path
  <2> QED
    BY <2>1, ChainRecursion
<1>3. FALSE
  <2>1. m \in Nodes /\ m \in Links
    BY <1>2 DEF Nodes, Links
  <2>2. link[m] \in Links /\ link[m] \notin T
    <3>1. link[m] = 0 \/ (m < link[m] /\ link[m] \in Links)
      BY <2>1 DEF Forward
    <3> QED
      BY <1>1, <1>2, <2>1, <3>1 DEF Links
  <2>3. Path(link, link[m], ChainOf(link, link[m]))
    BY <2>2
  <2>4. Path(link, m, <<m>> \o ChainOf(link, link[m]))
    BY <2>1, <2>3, PathCons
  <2> QED
    BY <2>1, <2>4, ChainRecursion
<1> QED
  BY <1>3

LEMMA PathIsChain ==
  ASSUME NEW link, Forward(link), NEW n \in Links, NEW s, Path(link, n, s)
  PROVE  ChainOf(link, n) = s
<1> DEFINE T == {m \in Links : \E t : Path(link, m, t) /\ ChainOf(link, m) # t}
<1> SUFFICES ASSUME T # {} PROVE FALSE
  OBVIOUS
<1>1. PICK m \in T : \A y \in T : y <= m
  BY Greatest
<1>2. PICK t : Path(link, m, t) /\ ChainOf(link, m) # t
  OBVIOUS
<1>3. 0 \notin T
  BY ChainRecursion DEF Path
<1>4. FALSE
  <2>1. m \in Nodes /\ m \in Links
    BY <1>3 DEF Nodes, Links
  <2>2. link[m] \in Links /\ link[m] \notin T
    <3>1. link[m] = 0 \/ (m < link[m] /\ link[m] \in Links)
      BY <2>1 DEF Forward
    <3> QED
      BY <1>1, <1>3, <2>1, <3>1 DEF Links
  <2>3. Path(link, link[m], Tail(t)) /\ t = <<m>> \o Tail(t)
    BY <1>2, <2>1, PathTail
  <2>4. ChainOf(link, link[m]) = Tail(t)
    BY <2>2, <2>3
  <2> QED
    BY <1>2, <2>1, <2>3, <2>4, ChainRecursion
<1> QED
  BY <1>4

Members(s) == {s[i] : i \in 1..Len(s)}

LEMMA ChainShape ==
  ASSUME NEW link, Forward(link), NEW n \in Links
  PROVE  LET s == ChainOf(link, n)
         IN  /\ s \in Seq(Nodes) /\ Len(s) \in Nat /\ Members(s) \subseteq Nodes
             /\ s = <<>> <=> n = 0
             /\ n # 0 => /\ Len(s) > 0 /\ s[1] = n /\ n \in Members(s)
                         /\ s[Len(s)] \in Members(s) /\ link[s[Len(s)]] = 0
             /\ \A i \in 1..(Len(s) - 1) : link[s[i]] = s[i + 1] /\ link[s[i]] # 0
<1> DEFINE s == ChainOf(link, n)
<1>1. Path(link, n, s)
  BY ChainIsPath
<1> HIDE DEF s
<1>2. s \in Seq(Nodes) /\ Len(s) \in Nat /\ Members(s) \subseteq Nodes
  BY <1>1 DEF Path, Members
<1>3. n = 0 => s = <<>> /\ Len(s) = 0
  BY <1>1 DEF Path
<1>4. n # 0 => /\ Len(s) > 0 /\ s[1] = n /\ link[s[Len(s)]] = 0
               /\ \A i \in 1..(Len(s) - 1) : link[s[i]] = s[i + 1]
  BY <1>1 DEF Path
<1>5. n # 0 => n \in Members(s) /\ s[Len(s)] \in Members(s) /\ s # <<>>
  BY <1>2, <1>4 DEF Members
<1>6. ASSUME NEW i \in 1..(Len(s) - 1) PROVE link[s[i]] = s[i + 1] /\ link[s[i]] # 0
  <2>1. i + 1 \in 1..Len(s) /\ n # 0
    BY <1>2, <1>3
  <2>2. s[i + 1] \in Nodes
    BY <1>2, <2>1
  <2> QED
    BY <1>4, <2>1, <2>2 DEF Nodes
<1> QED
  BY <1>2, <1>3, <1>4, <1>5, <1>6 DEF s

\* Pointers elsewhere do not matter to a chain.
LEMMA ChainFrame ==
  ASSUME NEW link, Forward(link), NEW new, Forward(new), NEW n \in Links,
         \A m \in Members(ChainOf(link, n)) : new[m] = link[m]
  PROVE  ChainOf(new, n) = ChainOf(link, n)
<1> DEFINE s == ChainOf(link, n)
<1>1. Path(link, n, s)
  BY ChainIsPath
<1>2. \A i \in 1..Len(s) : new[s[i]] = link[s[i]]
  BY DEF Members
<1> HIDE DEF s
<1>3. Path(new, n, s)
  BY <1>1, <1>2 DEF Path
<1> QED
  BY <1>3, PathIsChain DEF s

\* A node linked to the tail of a chain.
LEMMA ChainAppend ==
  ASSUME NEW link, Forward(link), NEW n \in Nodes, NEW r \in Nodes, NEW c \in Nodes,
         c \in Members(ChainOf(link, n)), link[c] = 0, link[r] = 0,
         r \notin Members(ChainOf(link, n)), c < r
  PROVE  /\ Forward([link EXCEPT ![c] = r])
         /\ ChainOf([link EXCEPT ![c] = r], n) = Append(ChainOf(link, n), r)
<1> DEFINE s == ChainOf(link, n)
           new == [link EXCEPT ![c] = r]
           t == Append(s, r)
<1>1. Forward(new)
  BY DEF Forward, Nodes, Links
<1>2. n \in Links /\ n # 0
  BY DEF Nodes, Links
<1>3. /\ s \in Seq(Nodes) /\ Len(s) \in Nat /\ Len(s) > 0 /\ s[1] = n
      /\ \A i \in 1..(Len(s) - 1) : link[s[i]] = s[i + 1] /\ link[s[i]] # 0
  BY <1>2, ChainShape
<1>4. PICK k \in 1..Len(s) : c = s[k]
  BY DEF Members
<1>5. \A i \in 1..Len(s) : s[i] # r /\ s[i] \in Nodes
  BY <1>3 DEF Members
<1> HIDE DEF s
<1>6. k = Len(s)
  BY <1>3, <1>4
<1>7. /\ t \in Seq(Nodes) /\ Len(t) = Len(s) + 1 /\ t[Len(s) + 1] = r
      /\ \A i \in 1..Len(s) : t[i] = s[i]
  BY <1>3
<1>8. new \in [Nodes -> Links] /\ new[c] = r /\ \A m \in Nodes : m # c => new[m] = link[m]
  BY <1>1 DEF Forward
<1> HIDE DEF t, new
<1>9. ASSUME NEW i \in 1..(Len(t) - 1) PROVE new[t[i]] = t[i + 1]
  <2>1. CASE i = Len(s)
    BY <1>4, <1>6, <1>7, <1>8, <2>1
  <2>2. CASE i # Len(s)
    <3>1. i \in 1..(Len(s) - 1) /\ i \in 1..Len(s) /\ i + 1 \in 1..Len(s)
      BY <1>3, <1>7, <2>2
    <3>2. s[i] # c
      BY <1>3, <3>1
    <3>3. t[i] = s[i] /\ t[i + 1] = s[i + 1] /\ new[s[i]] = s[i + 1]
      BY <1>3, <1>5, <1>7, <1>8, <3>1, <3>2
    <3> QED
      BY <3>3
  <2> QED
    BY <2>1, <2>2
<1>10. new[t[Len(t)]] = 0
  <2>1. t[Len(t)] = r /\ r # c
    BY <1>3, <1>4, <1>5, <1>7
  <2> QED
    BY <1>8, <2>1
<1>11. t[1] = n /\ Len(t) > 0
  BY <1>3, <1>7
<1>12. Path(new, n, t)
  BY <1>2, <1>7, <1>9, <1>10, <1>11 DEF Path
<1> QED
  BY <1>1, <1>2, <1>12, PathIsChain DEF s, t, new

\* Every node of a chain comes from its first on.
LEMMA ChainAfter ==
  ASSUME NEW link, Forward(link), NEW n \in Links
  PROVE  \A m \in Members(ChainOf(link, n)) : n <= m
<1> DEFINE T == {k \in Links : \E m \in Members(ChainOf(link, k)) : ~ (k <= m)}
<1> SUFFICES ASSUME T # {} PROVE FALSE
  OBVIOUS
<1>1. PICK k \in T : \A y \in T : y <= k
  BY Greatest
<1>2. PICK m \in Members(ChainOf(link, k)) : ~ (k <= m)
  OBVIOUS
<1>3. 0 \notin T
  BY ChainRecursion DEF Members
<1>4. k \in Nodes /\ k \in Links
  BY <1>3 DEF Nodes, Links
<1>5. link[k] \in Links /\ (link[k] = 0 \/ k < link[k])
  BY <1>4 DEF Forward
<1>6. link[k] \notin T
  BY <1>1, <1>3, <1>4, <1>5 DEF Links
<1> DEFINE s == ChainOf(link, link[k])
<1>7. ChainOf(link, k) = <<k>> \o s /\ s \in Seq(Nodes) /\ Len(s) \in Nat
  BY <1>4, <1>5, ChainRecursion, ChainShape
<1>8. \A j \in Members(s) : link[k] <= j
  BY <1>5, <1>6
<1>9. link[k] = 0 => Members(s) = {}
  <2>1. link[k] = 0 => s = <<>>
    BY ChainRecursion
  <2> QED
    BY <2>1 DEF Members
<1>10. Members(s) \subseteq Nodes
  BY <1>5, ChainShape
<1> HIDE DEF s
<1>11. m = k \/ m \in Members(s)
  BY <1>2, <1>4, <1>7 DEF Members
<1>12. ASSUME m \in Members(s) PROVE k <= m
  <2>1. link[k] # 0 /\ link[k] <= m /\ m \in Nodes
    BY <1>8, <1>9, <1>10, <1>12
  <2> QED
    BY <1>4, <1>5, <2>1 DEF Nodes, Links
<1>13. k <= k
  BY <1>4 DEF Nodes
<1> QED
  BY <1>2, <1>11, <1>12, <1>13

\* The chain without its first node.
LEMMA ChainTail ==
  ASSUME NEW link, Forward(link), NEW n \in Nodes
  PROVE  LET s == ChainOf(link, n)
             t == ChainOf(link, link[n])
         IN  /\ link[n] \in Links /\ t = Tail(s) /\ s = <<n>> \o t
             /\ Members(s) = {n} \cup Members(t) /\ n \notin Members(t)
<1> DEFINE s == ChainOf(link, n)
           t == ChainOf(link, link[n])
<1>1. n \in Links /\ link[n] \in Links /\ (link[n] = 0 \/ n < link[n])
  BY DEF Nodes, Links, Forward
<1>2. s = <<n>> \o t /\ t \in Seq(Nodes) /\ Len(t) \in Nat
  BY <1>1, ChainRecursion, ChainShape
<1>3. t = Tail(s)
  <2>1. Path(link, link[n], Tail(s))
    BY <1>1, ChainIsPath, PathTail
  <2> QED
    BY <1>1, <2>1, PathIsChain
<1>4. \A m \in Members(t) : link[n] <= m /\ m \in Nodes
  BY <1>1, ChainAfter, ChainShape
<1>5. link[n] = 0 => Members(t) = {}
  <2>1. link[n] = 0 => t = <<>>
    BY ChainRecursion
  <2> QED
    BY <2>1 DEF Members
<1>6. n \notin Members(t)
  <2> SUFFICES ASSUME n \in Members(t) PROVE FALSE
    OBVIOUS
  <2>1. link[n] # 0 /\ link[n] <= n
    BY <1>4, <1>5
  <2> HIDE DEF t
  <2> QED
    BY <1>1, <2>1 DEF Nodes, Links
<1>7. Members(s) = {n} \cup Members(t)
  <2> HIDE DEF s, t
  <2>1. /\ Len(s) = Len(t) + 1 /\ s[1] = n
        /\ \A i \in 1..Len(t) : s[i + 1] = t[i]
    BY <1>2
  <2>2. ASSUME NEW i \in 1..Len(s) PROVE s[i] = n \/ \E j \in 1..Len(t) : s[i] = t[j]
    <3>1. i # 1 => i - 1 \in 1..Len(t) /\ s[i] = t[i - 1]
      <4>1. i # 1 => i - 1 \in 1..Len(t) /\ (i - 1) + 1 = i
        BY <1>2, <2>1
      <4> QED
        BY <2>1, <4>1
    <3> QED
      BY <2>1, <3>1
  <2>3. \A j \in 1..Len(t) : j + 1 \in 1..Len(s)
    BY <1>2, <2>1
  <2>4. 1 \in 1..Len(s)
    BY <1>2, <2>1
  <2>5. Members(s) \subseteq {n} \cup Members(t)
    BY <2>2 DEF Members
  <2>6. {n} \cup Members(t) \subseteq Members(s)
    BY <2>1, <2>3, <2>4 DEF Members
  <2> QED
    BY <2>5, <2>6
<1> QED
  BY <1>1, <1>2, <1>3, <1>6, <1>7

\* Whatever bounds the first node and all pointers bounds the chain.
LEMMA ChainBound ==
  ASSUME NEW link, Forward(link), NEW n \in Links, NEW b \in Int,
         n <= b, \A m \in Nodes : link[m] <= b
  PROVE  \A m \in Members(ChainOf(link, n)) : m <= b
<1> DEFINE s == ChainOf(link, n)
<1>1. /\ s \in Seq(Nodes) /\ Len(s) \in Nat /\ (s # <<>> => s[1] = n)
      /\ \A i \in 1..(Len(s) - 1) : link[s[i]] = s[i + 1]
  BY ChainShape
<1> HIDE DEF s
<1> SUFFICES ASSUME NEW k \in 1..Len(s) PROVE s[k] <= b
  BY DEF Members, s
<1>2. CASE k = 1
  BY <1>1, <1>2
<1>3. CASE k # 1
  <2>1. k - 1 \in 1..(Len(s) - 1) /\ k - 1 \in 1..Len(s)
    BY <1>1, <1>3
  <2>2. link[s[k - 1]] = s[(k - 1) + 1] /\ s[k - 1] \in Nodes
    BY <1>1, <2>1
  <2> QED
    BY <2>2
<1> QED
  BY <1>2, <1>3

-----------------------------------------------------------------------------
(* The inductive invariant.                                                *)

TypesOK ==
  /\ alloc \in SUBSET Nodes /\ next \in [Nodes -> Links]
  /\ ll_buffers \in Links /\ curelem \in Links /\ rpt \in Links /\ cur \in Links
  /\ head \in Links /\ keep \in Links /\ arrived \in Links /\ num_queued \in Int
  /\ ll_mutex \in {"none", "cb", "fft"}
  /\ do_exit \in BOOLEAN /\ streaming \in BOOLEAN /\ unowned \in BOOLEAN
  /\ cb \in {"idle", "lock", "look", "first", "walk", "drop", "free", "store",
             "link", "unlock", "crashed"}
  /\ fft \in {"lock", "read", "clear", "unlock", "test", "use", "exited"}

\* The last node that was linked: the callback's own is not yet.
IsPending == cb \notin {"idle", "unlock"}
Linked == IF IsPending THEN arrived - 1 ELSE arrived

Pointers ==
  /\ \A n \in Nodes : next[n] = 0 \/ (next[n] = n + 1 /\ next[n] <= Linked)
  /\ ll_buffers <= Linked /\ curelem <= Linked
  /\ IsPending => rpt = arrived /\ rpt # 0

\* The mutex excludes the two threads until the FFT's goes on without it.
Threads ==
  /\ ~streaming => cb = "idle"
  /\ fft = "exited" => do_exit
  /\ fft \in {"lock", "read"} => curelem = 0
  /\ fft = "read" => do_exit \/ ll_mutex = "fft"
  /\ fft = "use" => curelem # 0
  /\ unowned => do_exit /\ fft \in {"clear", "unlock", "test", "exited"}
  /\ cb = "crashed" => unowned
  /\ ~unowned => /\ ll_mutex = "cb" <=> cb \notin {"idle", "lock"}
                 /\ ll_mutex = "fft" => fft \in {"read", "clear", "unlock"}
                 /\ fft \in {"clear", "unlock"} => ll_mutex = "fft"
                 /\ fft = "clear" => curelem = ll_buffers

\* The FFT thread took the list without the mutex: the callback may go on
\* with pointers to a list that is no longer there.
Cleared == ll_buffers = 0 /\ unowned /\ fft \in {"unlock", "test", "exited"}

IsFull(s) == llbuf_num # 0 /\ Len(s) = llbuf_num + 3

\* A list ends in the last node that was linked, and so does what the callback
\* walks along.
Walking ==
  /\ ll_buffers # 0 => Linked \in OnChain(ll_buffers)
  /\ cb = "first" => ll_buffers = 0
  /\ cb \in {"walk", "drop", "free", "store"} =>
       Linked \in OnChain(head) /\ (ll_buffers = head \/ Cleared)
  /\ cb \in {"drop", "free", "store"} => IsFull(Chain(head)) /\ cur = Linked
  /\ cb \in {"free", "store"} => keep = next[head]
  /\ cb = "link" => /\ cur = Linked /\ cur # 0
                    /\ (ll_buffers # 0 /\ ~IsFull(Chain(ll_buffers))) \/ Cleared

Owners ==
  /\ Listed \subseteq alloc /\ Pending \subseteq alloc /\ \A n \in alloc : n <= arrived
  /\ cb \in {"walk", "drop", "free"} => OnChain(head) \subseteq alloc
  /\ cb = "link" => cur \in alloc
  /\ ~unowned => Taken \subseteq alloc /\ Listed \cap Taken = {}
  /\ ~do_exit => alloc \subseteq Listed \cup Taken \cup Pending

QueueInv == TypesOK /\ Pointers /\ Threads /\ Walking /\ Owners

LEMMA NextForward ==
  ASSUME TypesOK, Pointers
  PROVE  Forward(next)
BY DEF TypesOK, Pointers, Forward, Nodes, Links

LEMMA ChainsOK ==
  ASSUME TypesOK, Pointers, NEW n \in Links
  PROVE  /\ Chain(n) = ChainOf(next, n) /\ OnChain(n) = Members(Chain(n))
         /\ Chain(n) \in Seq(Nodes) /\ Len(Chain(n)) \in Nat /\ OnChain(n) \subseteq Nodes
         /\ Chain(n) = <<>> <=> n = 0
         /\ n = 0 => OnChain(n) = {}
         /\ n # 0 => n \in OnChain(n) /\ Len(Chain(n)) > 0
<1>1. Forward(next)
  BY NextForward
<1>2. OnChain(n) = Members(Chain(n)) /\ Chain(n) = ChainOf(next, n)
  BY DEF OnChain, Members, Chain
<1>3. n = 0 => OnChain(n) = {}
  BY <1>1, <1>2, ChainRecursion DEF OnChain
<1> QED
  BY <1>1, <1>2, <1>3, ChainShape

LEMMA TakeTail ==
  ASSUME TypesOK, Pointers, NEW n \in Nodes
  PROVE  /\ next[n] \in Links /\ Chain(next[n]) = Tail(Chain(n))
         /\ OnChain(n) = {n} \cup OnChain(next[n]) /\ n \notin OnChain(next[n])
<1>1. Forward(next)
  BY NextForward
<1>2. \A m : OnChain(m) = Members(ChainOf(next, m)) /\ Chain(m) = ChainOf(next, m)
  BY DEF OnChain, Members, Chain
<1> QED
  BY <1>1, <1>2, ChainTail

\* Numbers in a row, counted back from the last.
LEMMA CountBack ==
  ASSUME NEW s \in Seq(Nat), \A i \in 1..(Len(s) - 1) : s[i + 1] = s[i] + 1
  PROVE  \A i \in 1..Len(s) : s[i] = s[Len(s)] - Len(s) + i
<1> DEFINE n == Len(s)
           T == {k \in Nat : k < n /\ s[n - k] # s[n] - k}
<1>1. n \in Nat /\ \A i \in 1..n : s[i] \in Nat
  OBVIOUS
<1> HIDE DEF n
<1>2. T = {}
  <2> SUFFICES ASSUME T # {} PROVE FALSE
    OBVIOUS
  <2>1. PICK k \in T : \A y \in T : k <= y
    BY Least
  <2>2. k \in Nat /\ k < n /\ s[n - k] # s[n] - k
    OBVIOUS
  <2>3. k # 0
    BY <1>1, <2>2
  <2>4. k - 1 \in Nat /\ k - 1 < n /\ ~(k <= k - 1)
    BY <1>1, <2>2, <2>3
  <2>5. s[n - (k - 1)] = s[n] - (k - 1)
    <3>1. k - 1 \notin T
      BY <2>1, <2>4
    <3> QED
      BY <2>4, <3>1
  <2>6. n - k \in 1..(n - 1) /\ n - (k - 1) = (n - k) + 1 /\ n - k \in 1..n
    BY <1>1, <2>2, <2>3
  <2>7. s[(n - k) + 1] = s[n - k] + 1
    BY <2>6 DEF n
  <2>8. s[n - k] \in Nat /\ s[n] \in Nat
    BY <1>1, <2>2, <2>6
  <2> DEFINE x == s[n - k]
             y == s[n]
  <2>9. x \in Nat /\ y \in Nat /\ x + 1 = y - (k - 1) /\ x # y - k
    BY <2>2, <2>5, <2>6, <2>7, <2>8
  <2> HIDE DEF x, y
  <2> QED
    BY <2>2, <2>9
<1>3. ASSUME NEW i \in 1..n PROVE s[i] = s[n] - n + i
  <2>1. n - i \in Nat /\ n - i < n /\ n - (n - i) = i
    BY <1>1
  <2>2. s[i] = s[n] - (n - i)
    BY <1>2, <2>1
  <2> QED
    BY <1>1, <2>2
<1> QED
  BY <1>3 DEF n

\* What a chain holds was linked.
LEMMA ChainsLinked ==
  ASSUME TypesOK, Pointers, NEW n \in Links, n <= Linked
  PROVE  \A m \in OnChain(n) : m \in Nodes /\ m <= Linked
<1>1. Forward(next) /\ OnChain(n) = Members(ChainOf(next, n)) /\ OnChain(n) \subseteq Nodes
  BY NextForward, ChainsOK
<1>2. Linked \in Int /\ arrived \in Int
  BY DEF TypesOK, Linked, Links
<1>3. \A m \in Nodes : next[m] <= Linked
  <2>1. 0 <= Linked
    BY DEF Pointers, TypesOK, Linked, Links
  <2> QED
    BY <1>2, <2>1 DEF Pointers
<1> QED
  BY <1>1, <1>2, <1>3, ChainBound

\* The node that was linked last ends its chain, which holds it and the nodes
\* that arrived before it.
LEMMA EndsChain ==
  ASSUME TypesOK, Pointers, NEW n \in Links, Linked \in OnChain(n)
  PROVE  /\ n \in Nodes /\ Linked \in Nodes /\ next[Linked] = 0
         /\ Chain(n)[Len(Chain(n))] = Linked
         /\ \A i \in 1..Len(Chain(n)) : Chain(n)[i] = Linked - Len(Chain(n)) + i
<1> DEFINE s == ChainOf(next, n)
<1>1. Forward(next) /\ Chain(n) = s /\ OnChain(n) = Members(s) /\ n # 0
  BY NextForward, ChainsOK
<1>2. /\ s \in Seq(Nodes) /\ Len(s) \in Nat /\ Members(s) \subseteq Nodes
      /\ \A i \in 1..(Len(s) - 1) : next[s[i]] = s[i + 1] /\ next[s[i]] # 0
  BY <1>1, ChainShape
<1>3. n \in Nodes /\ Linked \in Nodes
  BY <1>1, <1>2 DEF Links, Nodes
<1> HIDE DEF s
<1>4. next[Linked] = 0
  BY <1>3 DEF Pointers, Nodes
<1>5. PICK k \in 1..Len(s) : s[k] = Linked
  BY <1>1 DEF Members
<1>6. k = Len(s)
  BY <1>2, <1>4, <1>5
<1>7. \A i \in 1..(Len(s) - 1) : s[i + 1] = s[i] + 1
  <2> SUFFICES ASSUME NEW i \in 1..(Len(s) - 1) PROVE s[i + 1] = s[i] + 1
    OBVIOUS
  <2>1. i \in 1..Len(s) /\ s[i] \in Nodes
    BY <1>2
  <2> QED
    BY <1>2, <2>1 DEF Pointers
<1>8. s \in Seq(Nat)
  BY <1>2 DEF Nodes
<1>9. \A i \in 1..Len(s) : s[i] = s[Len(s)] - Len(s) + i
  BY <1>7, <1>8, CountBack
<1> QED
  BY <1>1, <1>3, <1>4, <1>5, <1>6, <1>9

\* The node the callback has malloced comes after all that were linked.
LEMMA OwnNode ==
  ASSUME TypesOK, Pointers, IsPending
  PROVE  /\ rpt \in Nodes /\ rpt = arrived /\ Linked = rpt - 1 /\ next[rpt] = 0
         /\ \A n \in Links : n <= Linked => rpt \notin OnChain(n)
<1>1. rpt \in Nodes /\ rpt = arrived /\ Linked = rpt - 1
  BY DEF TypesOK, Pointers, Linked, Links, Nodes
<1>2. next[rpt] = 0
  BY <1>1 DEF Pointers, Nodes
<1>3. \A n \in Links : n <= Linked => rpt \notin OnChain(n)
  <2> SUFFICES ASSUME NEW n \in Links, n <= Linked, rpt \in OnChain(n) PROVE FALSE
    OBVIOUS
  <2>1. rpt <= Linked
    BY ChainsLinked
  <2> QED
    BY <1>1, <2>1 DEF Nodes
<1> QED
  BY <1>1, <1>2, <1>3

\* A full list has a head and something after it.
LEMMA FullHasTail ==
  ASSUME TypesOK, Pointers, NEW n \in Links, Linked \in OnChain(n), IsFull(Chain(n))
  PROVE  /\ n \in Nodes /\ next[n] \in Nodes /\ next[n] # n /\ Linked \in OnChain(next[n])
         /\ OnChain(next[n]) \subseteq OnChain(n) /\ n \notin OnChain(next[n])
         /\ ~IsFull(Chain(next[n])) /\ Len(Chain(next[n])) = llbuf_num + 2
<1>1. n \in Nodes /\ Linked \in Nodes /\ Chain(n)[Len(Chain(n))] = Linked
      /\ \A i \in 1..Len(Chain(n)) : Chain(n)[i] = Linked - Len(Chain(n)) + i
  BY EndsChain
<1>2. /\ next[n] \in Links /\ Chain(next[n]) = Tail(Chain(n))
      /\ OnChain(n) = {n} \cup OnChain(next[n]) /\ n \notin OnChain(next[n])
  BY <1>1, TakeTail
<1>3. Chain(n) \in Seq(Nodes) /\ Len(Chain(n)) = llbuf_num + 3
  BY ChainsOK DEF IsFull
<1>4. Len(Chain(next[n])) = llbuf_num + 2
  BY <1>2, <1>3
<1>5. next[n] # 0
  <2>1. next[n] = 0 => Chain(next[n]) = <<>>
    BY <1>2, ChainsOK
  <2> QED
    BY <1>4, <2>1
<1>6. next[n] \in Nodes /\ n < next[n] /\ next[n] <= Linked
  BY <1>1, <1>2, <1>5 DEF Pointers, Nodes, Links
<1>7. Linked # n
  BY <1>1, <1>6 DEF Nodes
<1>8. next[n] # n
  BY <1>6 DEF Nodes
<1> QED
  BY <1>1, <1>2, <1>4, <1>6, <1>7, <1>8 DEF IsFull

LEMMA AppendMembers ==
  ASSUME NEW s \in Seq(Nodes), NEW r \in Nodes
  PROVE  Members(Append(s, r)) = Members(s) \cup {r}
<1>1. /\ Len(Append(s, r)) = Len(s) + 1 /\ Append(s, r)[Len(s) + 1] = r /\ Len(s) \in Nat
      /\ \A i \in 1..Len(s) : Append(s, r)[i] = s[i]
  OBVIOUS
<1>2. ASSUME NEW i \in 1..(Len(s) + 1) PROVE i = Len(s) + 1 \/ i \in 1..Len(s)
  BY <1>1
<1>3. Len(s) + 1 \in 1..(Len(s) + 1) /\ 1..Len(s) \subseteq 1..(Len(s) + 1)
  BY <1>1
<1> DEFINE t == Append(s, r)
<1> HIDE DEF t
<1>4. Members(t) \subseteq Members(s) \cup {r}
  BY <1>1, <1>2 DEF Members, t
<1>5. Members(s) \cup {r} \subseteq Members(t)
  BY <1>1, <1>3 DEF Members, t
<1> QED
  BY <1>4, <1>5 DEF t

\* What the callback's link makes of any chain: of the one that ends in the
\* last linked node, one longer by the callback's own, and nothing of others.
LEMMA LinkChain ==
  ASSUME TypesOK, Pointers, CbLink, cur = Linked, cur # 0, NEW n \in Links, n <= Linked
  PROVE  /\ Linked \in OnChain(n) =>
              /\ ChainOf(next', n) = Append(Chain(n), rpt)
              /\ Members(ChainOf(next', n)) = OnChain(n) \cup {rpt}
         /\ Linked \notin OnChain(n) =>
              /\ ChainOf(next', n) = Chain(n)
              /\ Members(ChainOf(next', n)) = OnChain(n)
<1> DEFINE new == [next EXCEPT ![cur] = rpt]
<1>1. next' = new /\ IsPending
  BY DEF CbLink, IsPending
<1>2. /\ rpt \in Nodes /\ Linked = rpt - 1 /\ next[rpt] = 0 /\ rpt \notin OnChain(n)
  BY <1>1, OwnNode
<1>3. cur \in Nodes /\ cur < rpt
  BY <1>2 DEF TypesOK, Nodes, Links
<1>4. next[cur] = 0
  BY <1>3 DEF Pointers, Nodes
<1>5. Forward(next) /\ Chain(n) = ChainOf(next, n) /\ OnChain(n) = Members(ChainOf(next, n))
  BY NextForward, ChainsOK
<1>6. Forward(new)
  BY <1>2, <1>3, <1>5 DEF Forward, Nodes, Links
<1>7. CASE Linked \in OnChain(n)
  <2>1. n \in Nodes /\ Chain(n) \in Seq(Nodes)
    BY <1>7, EndsChain, ChainsOK
  <2>2. cur \in Members(ChainOf(next, n)) /\ rpt \notin Members(ChainOf(next, n))
    BY <1>2, <1>5, <1>7
  <2>3. ChainOf(new, n) = Append(ChainOf(next, n), rpt)
    <3>1. /\ Forward(next) /\ n \in Nodes /\ rpt \in Nodes /\ cur \in Nodes
          /\ next[cur] = 0 /\ next[rpt] = 0 /\ cur < rpt
      BY <1>2, <1>3, <1>4, <1>5, <2>1
    <3> QED
      BY ONLY <3>1, <2>2, ChainAppend, ZenonT(40)
  <2>4. ChainOf(next', n) = Append(Chain(n), rpt)
    BY <1>1, <1>5, <2>3
  <2> QED
    BY <1>2, <1>5, <1>7, <2>1, <2>4, AppendMembers
<1>8. CASE Linked \notin OnChain(n)
  <2>1. \A m \in OnChain(n) : m \in Nodes /\ m # cur
    BY <1>8, ChainsOK
  <2>2. \A m \in Members(ChainOf(next, n)) : new[m] = next[m]
    BY <1>5, <2>1 DEF Forward
  <2>3. ChainOf(new, n) = ChainOf(next, n)
    <3> HIDE DEF new
    <3> QED
      BY <1>5, <1>6, <2>2, ChainFrame
  <2> QED
    BY <1>1, <1>5, <1>8, <2>3
<1> QED
  BY <1>7, <1>8

\* What the callback's next read of ll_buffers returns, and where it leads.
LEMMA AtWalk ==
  ASSUME QueueInv, cb \in {"walk", "drop", "free", "store"}
  PROVE  /\ head \in Nodes /\ head \in Links /\ head <= Linked /\ Linked \in OnChain(head)
         /\ Linked \in Nodes /\ rpt \notin OnChain(head)
         /\ Chain(head)[Len(Chain(head))] = Linked /\ Len(Chain(head)) \in Nat
         /\ \A h \in Reads : h = head \/ (h = 0 /\ Cleared)
         /\ ~unowned => ll_buffers = head
<1>1. TypesOK /\ Pointers /\ Walking
  BY DEF QueueInv
<1>2. /\ head \in Links /\ Linked \in OnChain(head) /\ (ll_buffers = head \/ Cleared)
  BY <1>1 DEF TypesOK, Walking
<1>3. /\ head \in Nodes /\ Linked \in Nodes /\ Len(Chain(head)) \in Nat
      /\ Chain(head)[Len(Chain(head))] = Linked
  BY <1>1, <1>2, EndsChain, ChainsOK
<1>4. head <= Linked
  <2>1. Forward(next) /\ OnChain(head) = Members(ChainOf(next, head))
    BY <1>1, <1>2, NextForward, ChainsOK
  <2> QED
    BY <1>2, <2>1, ChainAfter
<1>5. rpt \notin OnChain(head)
  BY <1>1, <1>2, <1>4, OwnNode DEF IsPending
<1> QED
  BY <1>2, <1>3, <1>4, <1>5 DEF Reads, Cleared

\* What is left of a full list.
LEMMA AtDrop ==
  ASSUME QueueInv, cb \in {"drop", "free", "store"}
  PROVE  /\ next[head] \in Nodes /\ next[head] \in Links /\ next[head] <= Linked
         /\ Linked \in OnChain(next[head]) /\ OnChain(next[head]) \subseteq OnChain(head)
         /\ head \notin OnChain(next[head]) /\ ~IsFull(Chain(next[head]))
         /\ Len(Chain(next[head])) = llbuf_num + 2 /\ cur = Linked
         /\ Chain(next[head]) = Tail(Chain(head))
<1>1. TypesOK /\ Pointers /\ IsFull(Chain(head)) /\ cur = Linked
  BY DEF QueueInv, Walking
<1>2. head \in Nodes /\ head \in Links /\ Linked \in OnChain(head)
  BY AtWalk
<1>3. /\ next[head] \in Nodes /\ Linked \in OnChain(next[head])
      /\ OnChain(next[head]) \subseteq OnChain(head) /\ head \notin OnChain(next[head])
      /\ ~IsFull(Chain(next[head])) /\ Len(Chain(next[head])) = llbuf_num + 2
  BY <1>1, <1>2, FullHasTail
<1>4. Chain(next[head]) = Tail(Chain(head))
  BY <1>1, <1>2, TakeTail
<1>5. next[head] <= Linked /\ next[head] \in Links
  BY <1>1, <1>2, <1>3 DEF Pointers, Nodes, Links
<1> QED
  BY <1>1, <1>3, <1>4, <1>5

\* Before it counts the list, the callback has found out whether it is full.
LEMMA CountsFull ==
  ASSUME NEW s \in Seq(Nodes)
  PROVE  DropsHead(Len(s) - 1) <=> IsFull(s)
BY DEF DropsHead, IsFull

-----------------------------------------------------------------------------
(* Every step keeps it.                                                    *)

LEMMA TypesInductive ==
  ASSUME QueueInv, [Next]_vars PROVE TypesOK'
<1>0. TypesOK /\ Pointers /\ Threads
  BY DEF QueueInv
<1> USE DEF TypesOK
<1>1. CASE CbAlloc
  BY <1>0, <1>1 DEF CbAlloc, fftVars, Nodes, Links
<1>2. CASE CbWalk
  <2>1. PICK h \in Reads :
          \/ h = 0 /\ cb' = "crashed" /\ UNCHANGED <<cur, num_queued>>
          \/ /\ h # 0 /\ cur' = Chain(h)[Len(Chain(h))]
             /\ num_queued' = Len(Chain(h)) - 1 /\ cb' \in {"drop", "link"}
    BY <1>2 DEF CbWalk
  <2>2. cur' \in Links /\ num_queued' \in Int /\ cb' \in {"crashed", "drop", "link"}
    <3>1. h # 0 => h = head
      BY <1>2, AtWalk DEF CbWalk
    <3>2. Chain(head)[Len(Chain(head))] \in Links /\ Len(Chain(head)) \in Nat
      BY <1>2, AtWalk DEF CbWalk, Nodes, Links
    <3> QED
      BY <1>0, <2>1, <3>1, <3>2
  <2> QED
    BY <1>0, <1>2, <2>2 DEF CbWalk, fftVars
<1>3. CASE CbDrop
  <2>1. next[head] \in Links /\ head \in Nodes /\ \A h \in Reads : h = head \/ h = 0
    BY <1>3, AtDrop, AtWalk DEF CbDrop
  <2>2. keep' \in Links /\ cb' \in {"crashed", "free"}
    BY <1>0, <1>3, <2>1 DEF CbDrop
  <2> QED
    BY <1>0, <1>3, <2>2 DEF CbDrop, fftVars
<1>4. CASE CbFree
  BY <1>0, <1>4 DEF CbFree, fftVars
<1>5. CASE CbLink
  <2>1. next' \in [Nodes -> Links]
    BY <1>0, <1>5 DEF CbLink, Nodes, Links
  <2> QED
    BY <1>0, <1>5, <2>1 DEF CbLink, fftVars
<1>6. CASE CbLock \/ CbLook \/ CbFirst \/ CbStore \/ CbUnlock
  BY <1>0, <1>6 DEF CbLock, CbLook, CbFirst, CbStore, CbUnlock, fftVars
<1>7. CASE FftLock \/ FftTimeout \/ FftUnlock
  BY <1>0, <1>7 DEF FftLock, FftTimeout, FftUnlock, cbVars
<1>13. CASE FftRead \/ FftClear
  <2>1. unowned' \in BOOLEAN
    <3>1. unowned' = unowned \/ unowned' = (unowned \/ ll_mutex # "fft")
      BY <1>13, Zenon DEF FftRead, FftClear
    <3>2. (unowned \/ ll_mutex # "fft") \in BOOLEAN
      OBVIOUS
    <3> QED
      BY <1>0, <3>1, <3>2, Zenon
  <2> QED
    BY <1>0, <1>13, <2>1 DEF FftRead, FftClear, cbVars, Links
<1>8. CASE FftTest
  BY <1>0, <1>8 DEF FftTest, cbVars
<1>9. CASE FftFree
  <2>1. next[curelem] \in Links
    BY <1>0, <1>9, TakeTail DEF FftFree, Threads, Nodes, Links
  <2> QED
    BY <1>0, <1>9, <2>1 DEF FftFree, cbVars
<1>10. CASE SetExit \/ StreamEnds
  BY <1>0, <1>10 DEF SetExit, StreamEnds, cbVars, fftVars
<1>11. CASE MainDrain
  <2>1. 0 \in Links /\ alloc \ OnChain(ll_buffers) \in SUBSET Nodes
    BY <1>0 DEF Links
  <2> QED
    BY <1>0, <1>11, <2>1 DEF MainDrain, cbVars, fftVars
<1>12. CASE UNCHANGED vars
  BY <1>0, <1>12 DEF vars
<1> QED
  BY <1>1, <1>2, <1>3, <1>4, <1>5, <1>6, <1>7, <1>8, <1>9, <1>10, <1>11, <1>12,
     <1>13 DEF Next, CbStep, Fft

LEMMA ThreadsInductive ==
  ASSUME QueueInv, [Next]_vars PROVE Threads'
<1>0. TypesOK /\ Threads
  BY DEF QueueInv
<1> USE DEF TypesOK, Threads
<1>1. CASE CbAlloc \/ CbLock \/ CbUnlock
  BY <1>0, <1>1 DEF CbAlloc, CbLock, CbUnlock, fftVars
<1>2. CASE CbLook \/ CbFirst \/ CbStore
  <2>1. fft = "clear" => unowned
    BY <1>0, <1>2 DEF CbLook, CbFirst, CbStore
  <2> QED
    BY <1>0, <1>2, <2>1 DEF CbLook, CbFirst, CbStore, fftVars
<1>3. CASE CbFree \/ CbLink
  BY <1>0, <1>3 DEF CbFree, CbLink, fftVars
<1>4. CASE CbWalk \/ CbDrop
  <2>1. cb' = "crashed" => unowned
    <3>1. cb \in {"walk", "drop"} /\ (cb' = "crashed" => 0 \in Reads)
      BY <1>4 DEF CbWalk, CbDrop
    <3>2. 0 \in Reads => unowned
      <4>1. head \in Nodes /\ \A h \in Reads : h = head \/ (h = 0 /\ Cleared)
        BY <3>1, AtWalk
      <4> QED
        BY <4>1 DEF Nodes, Cleared
    <3> QED
      BY <3>1, <3>2
  <2>2. cb' \in {"crashed", "drop", "link", "free"} /\ cb \in {"walk", "drop"}
    BY <1>4 DEF CbWalk, CbDrop
  <2>3. UNCHANGED <<ll_mutex, do_exit, streaming, ll_buffers, fft, curelem, unowned>>
    BY <1>4 DEF CbWalk, CbDrop, fftVars
  <2> QED
    BY <1>0, <2>1, <2>2, <2>3
<1>5. CASE FftLock \/ FftTimeout \/ FftUnlock
  BY <1>0, <1>5 DEF FftLock, FftTimeout, FftUnlock, cbVars, Alive
<1>6. CASE FftRead \/ FftClear
  BY <1>0, <1>6 DEF FftRead, FftClear, cbVars, Alive
<1>7. CASE FftTest \/ FftFree
  BY <1>0, <1>7 DEF FftTest, FftFree, cbVars, Alive
<1>8. CASE SetExit \/ StreamEnds \/ MainDrain
  BY <1>0, <1>8 DEF SetExit, StreamEnds, MainDrain, cbVars, fftVars
<1>9. CASE UNCHANGED vars
  BY <1>0, <1>9 DEF vars
<1> QED
  BY <1>1, <1>2, <1>3, <1>4, <1>5, <1>6, <1>7, <1>8, <1>9 DEF Next, CbStep, Fft

LEMMA PointersInductive ==
  ASSUME QueueInv, [Next]_vars PROVE Pointers'
<1>0. TypesOK /\ Pointers /\ Threads
  BY DEF QueueInv
<1>1. /\ arrived \in Nat /\ Linked \in Int /\ ll_buffers \in Nat /\ curelem \in Nat
      /\ 0 <= Linked /\ Linked <= arrived /\ \A n \in Nodes : next[n] \in Nat
  BY <1>0 DEF TypesOK, Pointers, Linked, Links
\* All but the steps that link a node keep what was linked.
<1>2. ASSUME Linked' = Linked, UNCHANGED next,
             ll_buffers' \in {ll_buffers, 0} \/ ll_buffers' <= Linked,
             curelem' \in {curelem, ll_buffers} \/ curelem' <= Linked,
             IsPending' => rpt' = arrived' /\ rpt' # 0
      PROVE  Pointers'
  BY <1>0, <1>1, <1>2 DEF Pointers
<1>3. CASE CbAlloc
  BY <1>1, <1>2, <1>3 DEF CbAlloc, Linked, IsPending, fftVars
<1>4. CASE CbLock \/ CbLook \/ CbWalk \/ CbDrop \/ CbFree
  <2>1. /\ IsPending /\ IsPending'
        /\ UNCHANGED <<next, ll_buffers, curelem, rpt, arrived>>
    BY <1>4 DEF CbLock, CbLook, CbWalk, CbDrop, CbFree, IsPending, fftVars
  <2> QED
    BY <1>0, <1>2, <2>1 DEF Linked, Pointers
<1>5. CASE CbStore
  <2>1. /\ IsPending /\ IsPending' /\ ll_buffers' = next[head]
        /\ UNCHANGED <<next, curelem, rpt, arrived>>
    BY <1>5 DEF CbStore, IsPending, fftVars, QueueInv, Walking
  <2>2. next[head] <= Linked
    BY <1>5, AtDrop DEF CbStore
  <2> QED
    BY <1>0, <1>2, <2>1, <2>2 DEF Linked, Pointers
<1>6. CASE CbFirst
  <2>1. /\ IsPending /\ ~IsPending' /\ ll_buffers' = rpt
        /\ UNCHANGED <<next, curelem, rpt, arrived>>
    BY <1>6 DEF CbFirst, IsPending, fftVars
  <2>2. Linked' = arrived /\ rpt = arrived
    BY <1>0, <2>1 DEF Linked, Pointers
  <2> QED
    BY <1>0, <1>1, <2>1, <2>2 DEF Pointers
<1>7. CASE CbLink
  <2>1. /\ IsPending /\ ~IsPending' /\ next' = [next EXCEPT ![cur] = rpt]
        /\ UNCHANGED <<curelem, ll_buffers, rpt, arrived>>
    BY <1>7 DEF CbLink, IsPending, fftVars
  <2>2. /\ cur \in Nodes /\ cur = Linked /\ rpt = arrived /\ Linked = rpt - 1 /\ Linked' = arrived
    BY <1>0, <1>7, <2>1, OwnNode DEF CbLink, QueueInv, Walking, TypesOK, Linked, Nodes, Links
  <2>3. ASSUME NEW n \in Nodes
        PROVE  next'[n] = 0 \/ (next'[n] = n + 1 /\ next'[n] <= arrived)
    <3>1. n = cur => next'[n] = rpt
      BY <1>0, <2>1 DEF TypesOK
    <3>2. n # cur => next'[n] = next[n]
      BY <1>0, <2>1 DEF TypesOK
    <3>3. next[n] = 0 \/ (next[n] = n + 1 /\ next[n] <= Linked)
      BY <1>0 DEF Pointers
    <3> QED
      BY <1>1, <2>2, <3>1, <3>2, <3>3
  <2> QED
    BY <1>0, <1>1, <2>1, <2>2, <2>3 DEF Pointers
<1>8. CASE CbUnlock
  BY <1>0, <1>2, <1>8 DEF CbUnlock, Linked, IsPending, fftVars
<1>9. CASE FftRead \/ FftClear \/ MainDrain
  <2>1. /\ Linked' = Linked /\ IsPending' = IsPending /\ UNCHANGED <<next, rpt, arrived>>
        /\ ll_buffers' \in {ll_buffers, 0} /\ curelem' \in {curelem, ll_buffers}
    BY <1>9 DEF FftRead, FftClear, MainDrain, Linked, IsPending, cbVars, fftVars
  <2> QED
    BY <1>0, <1>2, <2>1 DEF Pointers
<1>10. CASE FftFree
  <2>1. /\ Linked' = Linked /\ IsPending' = IsPending /\ UNCHANGED <<next, rpt, arrived, ll_buffers>>
        /\ curelem' = next[curelem]
    BY <1>10 DEF FftFree, Linked, IsPending, cbVars
  <2>2. curelem \in Nodes
    BY <1>0, <1>10 DEF FftFree, Threads, TypesOK, Nodes, Links
  <2>3. next[curelem] <= Linked
    BY <1>0, <1>1, <2>2 DEF Pointers
  <2> QED
    BY <1>0, <1>2, <2>1, <2>3 DEF Pointers
<1>11. CASE FftLock \/ FftTimeout \/ FftUnlock \/ FftTest
  <2>1. /\ Linked' = Linked /\ IsPending' = IsPending
        /\ UNCHANGED <<next, rpt, arrived, curelem, ll_buffers>>
    BY <1>11 DEF FftLock, FftTimeout, FftUnlock, FftTest, Linked, IsPending, cbVars
  <2> QED
    BY <1>0, <1>2, <2>1 DEF Pointers
<1>12. CASE SetExit \/ StreamEnds \/ UNCHANGED vars
  <2>1. /\ Linked' = Linked /\ IsPending' = IsPending
        /\ UNCHANGED <<next, rpt, arrived, curelem, ll_buffers>>
    BY <1>12 DEF SetExit, StreamEnds, vars, Linked, IsPending, cbVars, fftVars
  <2> QED
    BY <1>0, <1>2, <2>1 DEF Pointers
<1> QED
  BY <1>3, <1>4, <1>5, <1>6, <1>7, <1>8, <1>9, <1>10, <1>11, <1>12
     DEF Next, CbStep, Fft

LEMMA WalkingInductive ==
  ASSUME QueueInv, [Next]_vars PROVE Walking'
<1>0. TypesOK /\ Pointers /\ Threads /\ Walking
  BY DEF QueueInv
\* Nothing moves that the callback looks at, but perhaps its control.
<1>1. ASSUME UNCHANGED <<next, ll_buffers, head, keep, cur, arrived>>, Linked' = Linked,
             Cleared => Cleared'
      PROVE  /\ ll_buffers' # 0 => (Linked \in OnChain(ll_buffers))'
             /\ cb' = cb => Walking'
             /\ cb' \in {"idle", "lock", "look", "crashed", "unlock"} => Walking'
  BY <1>0, <1>1 DEF Walking, OnChain, Chain, IsFull
<1>2. ASSUME UNCHANGED next
      PROVE  \A n : /\ n = head' => OnChain(head)' = OnChain(n) /\ Chain(head)' = Chain(n)
                    /\ n = ll_buffers' => /\ OnChain(ll_buffers)' = OnChain(n)
                                          /\ Chain(ll_buffers)' = Chain(n)
  BY <1>2 DEF OnChain, Chain
<1>3. CASE CbAlloc
  <2>1. Linked' = Linked /\ UNCHANGED <<next, ll_buffers>> /\ cb' = "lock"
    BY <1>0, <1>3 DEF CbAlloc, Linked, IsPending, TypesOK, Links, fftVars
  <2> QED
    BY <1>0, <1>2, <2>1 DEF Walking
<1>4. CASE CbLock \/ CbUnlock
  <2>1. /\ Linked' = Linked /\ UNCHANGED <<next, ll_buffers, head, keep, cur, arrived>>
        /\ cb' \in {"look", "idle"} /\ Cleared' = Cleared
    BY <1>4 DEF CbLock, CbUnlock, Linked, IsPending, Cleared, fftVars
  <2> QED
    BY <1>1, <2>1
<1>5. CASE CbLook
  <2>1. /\ Linked' = Linked /\ UNCHANGED <<next, ll_buffers>> /\ head' = ll_buffers
        /\ cb' = IF ll_buffers = 0 THEN "first" ELSE "walk"
    BY <1>5 DEF CbLook, Linked, IsPending, fftVars
  <2> QED
    BY <1>0, <1>2, <2>1 DEF Walking
<1>6. CASE CbFirst
  <2>1. cb = "first" /\ ll_buffers' = rpt /\ cb' = "unlock" /\ UNCHANGED <<next, arrived>>
    BY <1>6 DEF CbFirst, fftVars
  <2>2. Linked' = rpt /\ rpt \in OnChain(rpt)
    BY <1>0, <2>1, OwnNode, ChainsOK DEF Linked, IsPending, Nodes, Links
  <2> QED
    BY <1>2, <2>1, <2>2 DEF Walking
<1>7. CASE CbWalk
  <2>1. /\ cb = "walk" /\ UNCHANGED <<next, ll_buffers, head, keep, fft, unowned>>
        /\ \E h \in Reads :
             \/ h = 0 /\ cb' = "crashed"
             \/ /\ h # 0 /\ cur' = Chain(h)[Len(Chain(h))] /\ num_queued' = Len(Chain(h)) - 1
                /\ cb' = IF DropsHead(num_queued') THEN "drop" ELSE "link"
    BY <1>7 DEF CbWalk, fftVars
  <2>2. /\ Linked' = Linked /\ Cleared' = Cleared
    BY <1>7, <2>1 DEF CbWalk, Linked, IsPending, Cleared
  <2>3. /\ head \in Nodes /\ Linked \in Nodes /\ Linked \in OnChain(head)
        /\ Chain(head)[Len(Chain(head))] = Linked /\ Chain(head) \in Seq(Nodes)
        /\ \A h \in Reads : h = head \/ h = 0
    BY <1>0, <2>1, AtWalk, ChainsOK
  <2>4. \/ cb' = "crashed"
        \/ cur' = Linked /\ cb' = IF IsFull(Chain(head)) THEN "drop" ELSE "link"
    BY <2>1, <2>3, CountsFull
  <2>5. Linked # 0 /\ head # 0 /\ (ll_buffers = head \/ Cleared)
    BY <1>0, <2>1, <2>3 DEF Walking, Nodes
  <2>6. /\ Chain(head)' = Chain(head) /\ OnChain(head)' = OnChain(head)
        /\ Chain(ll_buffers)' = Chain(ll_buffers) /\ OnChain(ll_buffers)' = OnChain(ll_buffers)
    BY <1>2, <2>1
  <2>7. ll_buffers # 0 => Linked \in OnChain(ll_buffers)
    BY <1>0 DEF Walking
  <2>8. cb' # "crashed" => cur' = Linked'
    BY <2>2, <2>4
  <2>9. IsFull(Chain(head))' = IsFull(Chain(head)) /\ IsFull(Chain(ll_buffers))' = IsFull(Chain(ll_buffers))
    BY <2>6 DEF IsFull
  <2> QED
    BY <2>1, <2>2, <2>3, <2>4, <2>5, <2>6, <2>7, <2>9 DEF Walking
<1>8. CASE CbDrop
  <2>1. /\ cb = "drop" /\ UNCHANGED <<next, ll_buffers, head, cur, fft, unowned>>
        /\ \E h \in Reads : \/ h = 0 /\ cb' = "crashed"
                            \/ h # 0 /\ keep' = next[h] /\ cb' = "free"
    BY <1>8 DEF CbDrop, fftVars
  <2>2. /\ Linked' = Linked /\ Cleared' = Cleared
    BY <1>8, <2>1 DEF CbDrop, Linked, IsPending, Cleared
  <2>3. \A h \in Reads : h = head \/ h = 0
    BY <2>1, AtWalk
  <2>4. cb' = "crashed" \/ (cb' = "free" /\ keep' = next[head])
    BY <2>1, <2>3
  <2>5. /\ Chain(head)' = Chain(head) /\ OnChain(head)' = OnChain(head)
        /\ Chain(ll_buffers)' = Chain(ll_buffers) /\ OnChain(ll_buffers)' = OnChain(ll_buffers)
    BY <1>2, <2>1
  <2> QED
    BY <1>0, <2>1, <2>2, <2>4, <2>5 DEF Walking, IsFull
<1>9. CASE CbFree
  <2>1. /\ cb = "free" /\ cb' = "store"
        /\ UNCHANGED <<next, ll_buffers, head, keep, cur, fft, unowned>>
        /\ Linked' = Linked /\ Cleared' = Cleared
    BY <1>9 DEF CbFree, Linked, IsPending, Cleared, fftVars
  <2>2. /\ Chain(head)' = Chain(head) /\ OnChain(head)' = OnChain(head)
        /\ Chain(ll_buffers)' = Chain(ll_buffers) /\ OnChain(ll_buffers)' = OnChain(ll_buffers)
    BY <1>2, <2>1
  <2> QED
    BY <1>0, <2>1, <2>2 DEF Walking, IsFull
<1>10. CASE CbStore
  <2>1. /\ cb = "store" /\ cb' = "link" /\ ll_buffers' = next[head] /\ UNCHANGED <<next, cur>>
        /\ Linked' = Linked
    BY <1>0, <1>10 DEF CbStore, Linked, IsPending, Walking, fftVars
  <2>2. /\ next[head] \in Nodes /\ Linked \in OnChain(next[head])
        /\ ~IsFull(Chain(next[head])) /\ cur = Linked /\ Linked \in Nodes
    BY <2>1, AtDrop, AtWalk
  <2>3. Chain(ll_buffers)' = Chain(next[head]) /\ OnChain(ll_buffers)' = OnChain(next[head])
    BY <1>2, <2>1
  <2>4. ll_buffers' # 0 /\ cur' # 0
    BY <2>1, <2>2 DEF Nodes
  <2> QED
    BY <2>1, <2>2, <2>3, <2>4 DEF Walking, IsFull
<1>11. CASE CbLink
  <2>1. cb = "link" /\ cb' = "unlock" /\ ll_buffers' = ll_buffers /\ cur = Linked /\ cur # 0
    BY <1>0, <1>11 DEF CbLink, Walking
  <2>2. Linked' = rpt
    BY <1>0, <1>11, <2>1, OwnNode DEF CbLink, Linked, IsPending
  <2>3. ASSUME ll_buffers # 0 PROVE Linked' \in OnChain(ll_buffers)'
    <3>1. Linked \in OnChain(ll_buffers) /\ ll_buffers \in Links /\ ll_buffers <= Linked
      BY <1>0, <2>3 DEF Walking, TypesOK, Pointers
    <3>2. rpt \in Members(ChainOf(next', ll_buffers))
      BY <1>0, <1>11, <2>1, <3>1, LinkChain
    <3> QED
      BY <2>1, <2>2, <3>2 DEF OnChain, Chain, Members
  <2> QED
    BY <2>1, <2>3 DEF Walking
<1>12. CASE FftClear
  <2>1. /\ fft = "clear" /\ fft' = "unlock" /\ ll_buffers' = 0
        /\ UNCHANGED <<next, head, keep, cur, cb, arrived, unowned>>
    BY <1>12 DEF FftClear, cbVars
  <2>2. unowned => Cleared'
    BY <2>1 DEF Cleared
  <2>3. cb \notin {"idle", "lock"} => unowned
    BY <1>0, <2>1 DEF Threads
  <2>4. Linked' = Linked /\ OnChain(head)' = OnChain(head) /\ Chain(head)' = Chain(head)
    BY <1>2, <2>1 DEF Linked, IsPending
  <2> QED
    BY <1>0, <2>1, <2>2, <2>3, <2>4 DEF Walking, IsFull
<1>13. CASE FftLock \/ FftTimeout \/ FftRead \/ FftUnlock \/ FftTest \/ FftFree
  <2>1. /\ UNCHANGED <<next, ll_buffers, head, keep, cur, arrived, cb>> /\ Linked' = Linked
    BY <1>13 DEF FftLock, FftTimeout, FftRead, FftUnlock, FftTest, FftFree, Linked, IsPending, cbVars
  <2>2. Cleared => Cleared'
    BY <1>0, <1>13
       DEF FftLock, FftTimeout, FftRead, FftUnlock, FftTest, FftFree, Cleared, Threads
  <2> QED
    BY <1>1, <2>1, <2>2
<1>14. CASE SetExit \/ StreamEnds \/ UNCHANGED vars
  <2>1. /\ UNCHANGED <<next, ll_buffers, head, keep, cur, arrived, cb>> /\ Linked' = Linked
        /\ Cleared' = Cleared
    BY <1>14 DEF SetExit, StreamEnds, vars, Linked, IsPending, Cleared, cbVars, fftVars
  <2> QED
    BY <1>1, <2>1
<1>15. CASE MainDrain
  <2>1. cb' = "idle" /\ ll_buffers' = 0
    BY <1>0, <1>15 DEF MainDrain, Threads, cbVars
  <2> QED
    BY <2>1 DEF Walking
<1> QED
  BY <1>3, <1>4, <1>5, <1>6, <1>7, <1>8, <1>9, <1>10, <1>11, <1>12, <1>13, <1>14, <1>15
     DEF Next, CbStep, Fft

LEMMA OwnersInductive ==
  ASSUME QueueInv, [Next]_vars PROVE Owners'
<1>0. TypesOK /\ Pointers /\ Threads /\ Walking /\ Owners
  BY DEF QueueInv
<1>1. ASSUME UNCHANGED next
      PROVE  /\ UNCHANGED ll_buffers => OnChain(ll_buffers)' = OnChain(ll_buffers)
             /\ UNCHANGED head => OnChain(head)' = OnChain(head)
             /\ UNCHANGED keep => OnChain(keep)' = OnChain(keep)
             /\ UNCHANGED curelem => OnChain(curelem)' = OnChain(curelem)
             /\ \A n : /\ n = ll_buffers' => OnChain(ll_buffers)' = OnChain(n)
                       /\ n = head' => OnChain(head)' = OnChain(n)
                       /\ n = curelem' => OnChain(curelem)' = OnChain(n)
  BY <1>1 DEF OnChain, Chain
<1>2. /\ ll_buffers \in Links /\ curelem \in Links /\ ll_buffers <= Linked /\ curelem <= Linked
      /\ OnChain(0) = {}
  BY <1>0, ChainsOK DEF TypesOK, Pointers, Links
<1>3. CASE CbAlloc
  <2>1. /\ cb = "idle" /\ cb' = "lock" /\ rpt' = arrived + 1 /\ arrived' = arrived + 1
        /\ alloc' = alloc \cup {arrived + 1}
        /\ UNCHANGED <<next, ll_buffers, curelem, fft, unowned, do_exit>>
    BY <1>3 DEF CbAlloc, fftVars
  <2>2. /\ Pending = {} /\ Pending' = {arrived + 1} /\ Listed' = Listed /\ Taken' = Taken
    BY <1>1, <2>1 DEF Pending, Listed, Taken
  <2>3. \A n \in alloc' : n <= arrived'
    BY <1>0, <2>1 DEF Owners, TypesOK, Nodes, Links
  <2> QED
    BY <1>0, <2>1, <2>2, <2>3 DEF Owners
<1>4. CASE CbLock \/ CbUnlock
  <2>1. /\ UNCHANGED <<next, ll_buffers, curelem, fft, unowned, do_exit, alloc, arrived, rpt>>
        /\ cb \in {"lock", "unlock"} /\ cb' \in {"look", "idle"} /\ (cb = "lock" <=> cb' = "look")
    BY <1>4 DEF CbLock, CbUnlock, fftVars
  <2>2. /\ Pending' = Pending /\ Listed' = Listed /\ Taken' = Taken
    BY <1>1, <2>1 DEF Pending, Listed, Taken
  <2> QED
    BY <1>0, <2>1, <2>2 DEF Owners
<1>5. CASE CbLook
  <2>1. /\ UNCHANGED <<next, ll_buffers, curelem, fft, unowned, do_exit, alloc, arrived, rpt>>
        /\ cb = "look" /\ cb' \in {"first", "walk"} /\ head' = ll_buffers
    BY <1>5 DEF CbLook, fftVars
  <2>2. /\ Pending' = Pending /\ Listed' = Listed /\ Taken' = Taken /\ OnChain(head)' = Listed
    BY <1>1, <2>1 DEF Pending, Listed, Taken
  <2> QED
    BY <1>0, <2>1, <2>2 DEF Owners
<1>6. CASE CbFirst
  <2>1. /\ UNCHANGED <<next, curelem, fft, unowned, do_exit, alloc, arrived, rpt>>
        /\ cb = "first" /\ cb' = "unlock" /\ ll_buffers' = rpt /\ ll_buffers = 0
    BY <1>0, <1>6 DEF CbFirst, fftVars, Walking
  <2>2. rpt \in Nodes /\ next[rpt] = 0 /\ rpt \notin OnChain(curelem)
    BY <1>0, <1>2, <2>1, OwnNode DEF IsPending
  <2>3. OnChain(rpt) = {rpt}
    BY <1>0, <1>2, <2>2, TakeTail
  <2>4. /\ Pending = {rpt} /\ Pending' = {} /\ Listed = {} /\ Listed' = {rpt} /\ Taken' = Taken
    BY <1>1, <1>2, <2>1, <2>3 DEF Pending, Listed, Taken
  <2>5. rpt \notin Taken
    BY <2>2 DEF Taken
  <2> QED
    BY <1>0, <2>1, <2>4, <2>5 DEF Owners
<1>7. CASE CbWalk
  <2>1. /\ UNCHANGED <<next, ll_buffers, head, curelem, fft, unowned, do_exit, alloc, arrived, rpt>>
        /\ cb = "walk" /\ cb' \in {"crashed", "drop", "link"}
        /\ cb' = "link" => \E h \in Reads : h # 0 /\ cur' = Chain(h)[Len(Chain(h))]
    BY <1>7 DEF CbWalk, fftVars
  <2>2. /\ Pending' = Pending /\ Listed' = Listed /\ Taken' = Taken /\ OnChain(head)' = OnChain(head)
    BY <1>1, <2>1 DEF Pending, Listed, Taken
  <2>3. /\ Chain(head)[Len(Chain(head))] \in OnChain(head) /\ \A h \in Reads : h = head \/ h = 0
    BY <2>1, AtWalk
  <2>4. cb' = "link" => cur' \in OnChain(head)
    BY <2>1, <2>3
  <2> QED
    BY <1>0, <2>1, <2>2, <2>4 DEF Owners
<1>8. CASE CbDrop
  <2>1. /\ UNCHANGED <<next, ll_buffers, head, curelem, fft, unowned, do_exit, alloc, arrived, rpt>>
        /\ cb = "drop" /\ cb' \in {"crashed", "free"}
    BY <1>8 DEF CbDrop, fftVars
  <2>2. /\ Pending' = Pending /\ Listed' = Listed /\ Taken' = Taken /\ OnChain(head)' = OnChain(head)
    BY <1>1, <2>1 DEF Pending, Listed, Taken
  <2> QED
    BY <1>0, <2>1, <2>2 DEF Owners
<1>9. CASE CbFree
  <2>1. /\ UNCHANGED <<next, ll_buffers, keep, curelem, fft, unowned, do_exit, arrived, rpt>>
        /\ cb = "free" /\ cb' = "store" /\ keep = next[head]
        /\ \E h \in Reads : alloc' = alloc \ {h}
    BY <1>0, <1>9 DEF CbFree, fftVars, Walking
  <2>2. PICK h \in Reads : alloc' = alloc \ {h}
    BY <2>1
  <2>3. /\ head \in Nodes /\ rpt \notin OnChain(head) /\ (h = head \/ (h = 0 /\ unowned))
        /\ (~unowned => ll_buffers = head)
    BY <2>1, AtWalk DEF Cleared
  <2>4. /\ OnChain(head) = {head} \cup OnChain(next[head]) /\ head \notin OnChain(next[head])
    BY <1>0, <2>3, TakeTail
  <2>5. OnChain(head) \subseteq alloc /\ OnChain(head) \subseteq Nodes /\ rpt \in Nodes /\ 0 \notin Nodes
    <3>1. OnChain(head) \subseteq alloc /\ head \in Links /\ 0 \notin Nodes
      BY <1>0, <2>1 DEF Owners, TypesOK, Nodes
    <3>2. rpt \in Nodes
      BY <1>0, <2>1, OwnNode DEF IsPending
    <3> QED
      BY <1>0, <3>1, <3>2, ChainsOK
  <2>6. /\ Pending = {rpt} /\ Pending' = {rpt} /\ Listed' = OnChain(next[head])
        /\ Taken' = Taken /\ Listed = OnChain(ll_buffers)
    BY <1>1, <2>1 DEF Pending, Listed, Taken
  <2>7. Listed' \subseteq alloc' /\ Pending' \subseteq alloc' /\ alloc' \subseteq alloc
    <3>1. h \notin OnChain(next[head]) /\ h # rpt
      BY <2>3, <2>4, <2>5
    <3>2. rpt \in alloc
      BY <1>0, <2>6 DEF Owners
    <3> QED
      BY <2>2, <2>4, <2>5, <2>6, <3>1, <3>2
  <2>8. ASSUME ~unowned
        PROVE  /\ Taken' \subseteq alloc' /\ Listed' \cap Taken' = {} /\ alloc' = alloc \ {head}
               /\ Listed = {head} \cup Listed'
    <3>1. Listed = OnChain(head) /\ h = head
      BY <2>3, <2>6, <2>8
    <3>2. Taken \subseteq alloc /\ Listed \cap Taken = {}
      BY <1>0, <2>8 DEF Owners
    <3> QED
      BY <2>2, <2>4, <2>6, <3>1, <3>2
  <2>9. ~do_exit => ~unowned
    BY <1>0 DEF Threads
  <2> QED
    BY <1>0, <2>1, <2>6, <2>7, <2>8, <2>9 DEF Owners
<1>10. CASE CbStore
  <2>1. /\ UNCHANGED <<next, curelem, fft, unowned, do_exit, alloc, arrived, rpt, cur>>
        /\ cb = "store" /\ cb' = "link" /\ ll_buffers' = keep /\ keep = next[head]
    BY <1>0, <1>10 DEF CbStore, fftVars, Walking
  <2>2. /\ Pending' = Pending /\ Listed' = Listed /\ Taken' = Taken /\ Listed = OnChain(next[head])
    BY <1>1, <2>1 DEF Pending, Listed, Taken
  <2>3. cur \in OnChain(next[head])
    BY <2>1, AtDrop
  <2> QED
    BY <1>0, <2>1, <2>2, <2>3 DEF Owners
<1>11. CASE CbLink
  <2>1. /\ UNCHANGED <<ll_buffers, curelem, fft, unowned, do_exit, alloc, arrived, rpt>>
        /\ cb = "link" /\ cb' = "unlock" /\ cur = Linked /\ cur # 0
        /\ (ll_buffers # 0 \/ Cleared)
    BY <1>0, <1>11 DEF CbLink, fftVars, Walking
  <2>2. /\ Linked \in OnChain(ll_buffers) => OnChain(ll_buffers)' = OnChain(ll_buffers) \cup {rpt}
        /\ Linked \notin OnChain(ll_buffers) => OnChain(ll_buffers)' = OnChain(ll_buffers)
        /\ Linked \notin OnChain(curelem) => OnChain(curelem)' = OnChain(curelem)
    <3>1. /\ OnChain(ll_buffers)' = Members(ChainOf(next', ll_buffers))
          /\ OnChain(curelem)' = Members(ChainOf(next', curelem))
      BY <2>1 DEF OnChain, Chain, Members
    <3> QED
      BY <1>0, <1>2, <1>11, <2>1, <3>1, LinkChain
  <2>3. rpt \notin OnChain(curelem)
    BY <1>0, <1>2, <2>1, OwnNode DEF IsPending
  <2>4. ll_buffers # 0 => Linked \in OnChain(ll_buffers)
    BY <1>0 DEF Walking
  <2>5. /\ Pending = {rpt} /\ Pending' = {} /\ Listed = OnChain(ll_buffers)
        /\ Listed' = OnChain(ll_buffers)'
    BY <2>1 DEF Pending, Listed
  <2>6. Listed' \subseteq Listed \cup {rpt} /\ rpt \in alloc
    BY <1>0, <2>2, <2>5 DEF Owners
  <2>7. ASSUME ~unowned PROVE Taken' = Taken /\ Listed' = Listed \cup {rpt} /\ rpt \notin Taken
    <3>1. Linked \in Listed /\ Listed \cap Taken = {}
      BY <1>0, <2>1, <2>4, <2>5, <2>7 DEF Owners, Cleared
    <3>2. fft # "clear" => Linked \notin OnChain(curelem)
      BY <3>1 DEF Taken
    <3> QED
      BY <2>1, <2>2, <2>3, <2>5, <3>1, <3>2 DEF Taken
  <2>8. ~do_exit => ~unowned
    BY <1>0 DEF Threads
  <2> QED
    BY <1>0, <2>1, <2>5, <2>6, <2>7, <2>8 DEF Owners
<1>12. CASE FftRead
  <2>1. /\ UNCHANGED <<next, ll_buffers, head, keep, cb, do_exit, alloc, arrived, rpt, cur>>
        /\ fft = "read" /\ fft' = "clear" /\ (~unowned' => ll_mutex = "fft")
    BY <1>12 DEF FftRead, cbVars
  <2>2. /\ Pending' = Pending /\ Listed' = Listed /\ Taken' = {} /\ OnChain(head)' = OnChain(head)
    BY <1>1, <2>1 DEF Pending, Listed, Taken
  <2>3. Taken = {}
    BY <1>0, <1>2, <2>1 DEF Threads, Taken
  <2> QED
    BY <1>0, <2>1, <2>2, <2>3 DEF Owners
<1>13. CASE FftClear
  <2>1. /\ UNCHANGED <<next, curelem, head, keep, cb, do_exit, alloc, arrived, rpt, cur, unowned>>
        /\ fft = "clear" /\ fft' = "unlock" /\ ll_buffers' = 0
    BY <1>13 DEF FftClear, cbVars
  <2>2. /\ Pending' = Pending /\ Taken' = OnChain(curelem) /\ Taken = {}
        /\ OnChain(head)' = OnChain(head)
        /\ Listed' = IF cb = "store" THEN Listed ELSE {}
    BY <1>1, <1>2, <2>1 DEF Pending, Listed, Taken
  <2>3. ASSUME ~unowned PROVE Listed' = {} /\ Taken' = Listed
    <3>1. cb # "store" /\ curelem = ll_buffers
      BY <1>0, <2>1, <2>3 DEF Threads
    <3> QED
      BY <2>2, <3>1 DEF Listed
  <2>4. ~do_exit => ~unowned
    BY <1>0 DEF Threads
  <2> QED
    BY <1>0, <2>1, <2>2, <2>3, <2>4 DEF Owners
<1>14. CASE FftLock \/ FftTimeout \/ FftUnlock \/ FftTest
  <2>1. /\ UNCHANGED <<next, ll_buffers, curelem, head, keep, cb, do_exit, alloc, arrived, rpt,
                       cur, unowned>>
        /\ fft # "clear" /\ fft' # "clear"
    BY <1>14 DEF FftLock, FftTimeout, FftUnlock, FftTest, cbVars
  <2>2. /\ Pending' = Pending /\ Listed' = Listed /\ Taken' = Taken /\ OnChain(head)' = OnChain(head)
    BY <1>1, <2>1 DEF Pending, Listed, Taken
  <2> QED
    BY <1>0, <2>1, <2>2 DEF Owners
<1>15. CASE FftFree
  <2>1. /\ UNCHANGED <<next, ll_buffers, head, keep, cb, do_exit, arrived, rpt, cur, unowned>>
        /\ fft = "use" /\ fft' = "test" /\ alloc' = alloc \ {curelem} /\ curelem' = next[curelem]
    BY <1>15 DEF FftFree, cbVars
  <2>2. curelem \in Nodes /\ ~unowned
    BY <1>0, <1>2, <2>1 DEF Threads, Nodes, Links
  <2>3. OnChain(curelem) = {curelem} \cup OnChain(next[curelem]) /\ curelem \notin OnChain(next[curelem])
    BY <1>0, <2>2, TakeTail
  <2>4. /\ Pending' = Pending /\ Listed' = Listed /\ OnChain(head)' = OnChain(head)
        /\ Taken = OnChain(curelem) /\ Taken' = OnChain(next[curelem])
    BY <1>1, <2>1 DEF Pending, Listed, Taken
  <2>5. curelem \in Taken /\ Taken \subseteq alloc /\ Listed \cap Taken = {}
    BY <1>0, <2>2, <2>3, <2>4 DEF Owners
  <2>6. curelem \notin Pending
    <3>1. IsPending => rpt \notin OnChain(curelem)
      BY <1>0, <1>2, OwnNode
    <3> QED
      BY <2>3, <3>1 DEF Pending, IsPending
  <2>7. cb \in {"walk", "drop", "free"} => OnChain(head) = Listed
    BY <1>0, <2>2 DEF Walking, Cleared, Listed
  <2>8. cb = "link" => cur \in Listed
    BY <1>0, <2>2 DEF Walking, Cleared, Listed
  <2>9. alloc' \subseteq alloc
    BY <2>1
  <2>10. /\ Listed' \subseteq alloc' /\ Pending' \subseteq alloc' /\ Taken' \subseteq alloc'
         /\ Listed' \cap Taken' = {} /\ alloc' \subseteq alloc /\ Taken = {curelem} \cup Taken'
    BY <1>0, <2>1, <2>3, <2>4, <2>5, <2>6 DEF Owners
  <2>11. /\ cb \in {"walk", "drop", "free"} => OnChain(head) \subseteq alloc'
         /\ cb = "link" => cur \in alloc'
    BY <2>4, <2>7, <2>8, <2>10
  <2> QED
    BY <1>0, <2>1, <2>4, <2>10, <2>11 DEF Owners
<1>16. CASE SetExit \/ StreamEnds \/ UNCHANGED vars
  <2>1. /\ UNCHANGED <<next, ll_buffers, curelem, head, keep, cb, alloc, arrived, rpt, cur, fft,
                       unowned>>
        /\ ~do_exit' => ~do_exit
    BY <1>16 DEF SetExit, StreamEnds, vars, cbVars, fftVars
  <2>2. /\ Pending' = Pending /\ Listed' = Listed /\ Taken' = Taken /\ OnChain(head)' = OnChain(head)
    BY <1>1, <2>1 DEF Pending, Listed, Taken
  <2> QED
    BY <1>0, <2>1, <2>2 DEF Owners
<1>17. CASE MainDrain
  <2>1. /\ UNCHANGED <<next, curelem, do_exit, arrived, fft, unowned>> /\ cb' = "idle" /\ cb = "idle"
        /\ alloc' = alloc \ OnChain(ll_buffers) /\ ll_buffers' = 0 /\ do_exit
    BY <1>0, <1>17 DEF MainDrain, Threads, cbVars, fftVars
  <2>2. /\ Pending' = {} /\ Listed' = {} /\ Taken' = Taken /\ Listed = OnChain(ll_buffers)
    BY <1>1, <1>2, <2>1 DEF Pending, Listed, Taken
  <2> QED
    BY <1>0, <2>1, <2>2 DEF Owners
<1> QED
  BY <1>3, <1>4, <1>5, <1>6, <1>7, <1>8, <1>9, <1>10, <1>11, <1>12, <1>13, <1>14, <1>15,
     <1>16, <1>17 DEF Next, CbStep, Fft

(***************************************************************************)
(* The pointers form lists that end in the node linked last, the mutex has *)
(* the owner it seems to have until the FFT thread goes on without it, and *)
(* every node has one owner at most, whatever the threads do.              *)
(***************************************************************************)
THEOREM QueueInvariant == Spec => []QueueInv
<1>1. Init => QueueInv
  <2> SUFFICES ASSUME Init PROVE QueueInv
    OBVIOUS
  <2> USE DEF Init
  <2>0. 0 \in Int /\ 0 \in Links /\ next \in [Nodes -> Links]
    BY DEF Links
  <2>1. do_exit \in BOOLEAN /\ streaming \in BOOLEAN /\ unowned \in BOOLEAN /\ alloc \in SUBSET Nodes
    BY Zenon
  <2>2. TypesOK
    BY <2>0, <2>1, Zenon DEF TypesOK
  <2>3. Threads /\ Walking
    BY DEF Threads, Walking
  <2>4. Pointers
    BY DEF Pointers, Linked, IsPending
  <2>5. OnChain(0) = {}
    BY <2>0, <2>2, <2>4, ChainsOK
  <2>6. Listed = {} /\ Taken = {} /\ Pending = {}
    BY <2>5 DEF Listed, Taken, Pending
  <2> QED
    BY <2>2, <2>3, <2>4, <2>6 DEF QueueInv, Owners
<1>2. QueueInv /\ [Next]_vars => QueueInv'
  BY TypesInductive, PointersInductive, ThreadsInductive, WalkingInductive, OwnersInductive
     DEF QueueInv
<1> QED
  BY <1>1, <1>2, PTL DEF Spec

(***************************************************************************)
(* No thread of rtl_tcp follows a pointer to a freed node, not even when   *)
(* the FFT thread takes the list without the mutex at exit, between any    *)
(* two reads of ll_buffers in rtlsdr_callback.                             *)
(***************************************************************************)
THEOREM NothingDangles == Spec => []NoDanglingNode
<1>1. QueueInv => NoDanglingNode
  <2> SUFFICES ASSUME QueueInv PROVE NoDanglingNode
    OBVIOUS
  <2>1. Owners /\ Threads /\ Walking
    BY DEF QueueInv
  <2>2. ASSUME cb \in {"drop", "free", "store"} PROVE cur \in alloc
    <3>1. /\ cur = Linked /\ Linked \in OnChain(next[head])
          /\ OnChain(next[head]) \subseteq OnChain(head)
      BY <2>2, AtDrop
    <3>2. cb \in {"drop", "free"} => OnChain(head) \subseteq alloc
      BY <2>1 DEF Owners
    <3>3. cb = "store" => Listed = OnChain(next[head]) /\ Listed \subseteq alloc
      BY <2>1 DEF Owners, Listed, Walking
    <3> QED
      BY <2>2, <3>1, <3>2, <3>3
  <2>3. cb \in {"drop", "free", "store", "link"} => rpt \in alloc
    BY <2>1 DEF Owners, Pending
  <2>4. fft = "use" => OnChain(curelem) \subseteq alloc
    BY <2>1 DEF Owners, Threads, Taken
  <2> QED
    BY <2>1, <2>2, <2>3, <2>4 DEF Owners, NoDanglingNode
<1> QED
  BY <1>1, QueueInvariant, PTL

(***************************************************************************)
(* Until exit, nothing is leaked and nothing is shared: a node is the      *)
(* list's, the FFT's or the callback's.                                    *)
(***************************************************************************)
THEOREM OwnedOnce == Spec => []OneOwner
<1>1. QueueInv => OneOwner
  <2> SUFFICES ASSUME QueueInv, ~do_exit PROVE OneOwner
    BY DEF OneOwner
  <2>1. TypesOK /\ Pointers /\ Threads /\ Walking /\ Owners
    BY DEF QueueInv
  <2>2. ~unowned
    BY <2>1 DEF Threads
  <2>3. Pending \cap (Listed \cup Taken) = {}
    <3>1. CASE ~IsPending
      BY <3>1 DEF Pending, IsPending
    <3>2. CASE IsPending
      <4>1. /\ Pending = {rpt} /\ ll_buffers \in Links /\ curelem \in Links
            /\ ll_buffers <= Linked /\ curelem <= Linked
        BY <2>1, <3>2 DEF Pending, IsPending, TypesOK, Pointers
      <4>2. rpt \notin OnChain(ll_buffers) /\ rpt \notin OnChain(curelem)
        BY <2>1, <3>2, <4>1, OwnNode
      <4>3. cb = "store" => rpt \notin OnChain(keep)
        BY <2>1, AtDrop, AtWalk DEF Walking
      <4> QED
        BY <4>1, <4>2, <4>3 DEF Listed, Taken
    <3> QED
      BY <3>1, <3>2
  <2> QED
    BY <2>1, <2>2, <2>3 DEF Owners, OneOwner
<1> QED
  BY <1>1, QueueInvariant, PTL

(***************************************************************************)
(* rtlsdr_callback dereferences NULL only after the FFT thread has cleared *)
(* ll_buffers without the mutex: until exit it never does.                 *)
(***************************************************************************)
THEOREM NullNeedsBrokenLock == Spec => []NullOnlyUnowned
<1>1. QueueInv => NullOnlyUnowned
  BY DEF QueueInv, Threads, NullOnlyUnowned
<1> QED
  BY <1>1, QueueInvariant, PTL

-----------------------------------------------------------------------------
(* The list implements the lossy FIFO.                                     *)

LEMMA Counts == Cardinality({}) = 0 /\ \A n : Cardinality({n}) = 1
  BY FS_EmptySet, FS_Singleton

\* An empty list starts anew with the callback's node.
LEMMA StartsAnew ==
  ASSUME QueueInv, IsPending
  PROVE  rpt \in Nodes /\ rpt = arrived /\ Chain(rpt) = Append(<<>>, rpt)
<1>1. TypesOK /\ Pointers
  BY DEF QueueInv
<1>2. rpt \in Nodes /\ rpt = arrived /\ next[rpt] = 0
  BY <1>1, OwnNode
<1>3. Chain(rpt) = <<rpt>> \o Chain(0) /\ Chain(0) = <<>>
  BY <1>1, <1>2, NextForward, ChainRecursion DEF Chain
<1>4. <<rpt>> \o <<>> = Append(<<>>, rpt)
  OBVIOUS
<1> QED
  BY <1>2, <1>3, <1>4

\* What the callback stores after it has dropped the head of a full list.
LEMMA StoresLatest ==
  ASSUME QueueInv, cb = "store"
  PROVE  /\ ll_buffers = head => Chain(next[head]) = Tail(Chain(ll_buffers))
                                 /\ Len(Chain(ll_buffers)) = llbuf_num + 3
         /\ Chain(next[head]) = [i \in 1..(llbuf_num + 2) |-> (arrived - 1) - (llbuf_num + 2) + i]
         /\ llbuf_num # 0 /\ arrived - 1 >= llbuf_num + 2
         /\ (ll_buffers = head \/ Cleared) /\ keep = next[head]
<1>1. TypesOK /\ Pointers /\ Walking
  BY DEF QueueInv
<1>2. /\ next[head] \in Links /\ Linked \in OnChain(next[head])
      /\ Len(Chain(next[head])) = llbuf_num + 2
      /\ Chain(next[head]) = Tail(Chain(head))
  BY AtDrop
<1>3. IsFull(Chain(head)) /\ (ll_buffers = head \/ Cleared) /\ keep = next[head]
  BY <1>1 DEF Walking
<1>4. Linked = arrived - 1
  BY DEF Linked, IsPending
<1> DEFINE s == Chain(next[head])
           n == llbuf_num + 2
<1>5. s \in Seq(Nodes) /\ \A i \in 1..Len(s) : s[i] = Linked - Len(s) + i
  BY <1>1, <1>2, EndsChain, ChainsOK
<1>6. s = [i \in 1..n |-> (arrived - 1) - n + i]
  <2>1. Len(s) = n /\ n \in Nat /\ arrived \in Int
    BY <1>1, <1>2 DEF TypesOK, Links
  <2> HIDE DEF s, n
  <2>2. s = [i \in 1..n |-> s[i]]
    BY <1>5, <2>1
  <2>3. \A i \in 1..n : s[i] = (arrived - 1) - n + i
    BY <1>4, <1>5, <2>1
  <2> QED
    BY <2>2, <2>3
<1>7. arrived - 1 >= llbuf_num + 2
  <2>1. s[1] = (arrived - 1) - n + 1 /\ s[1] \in Nodes
    BY <1>2, <1>4, <1>5
  <2> QED
    BY <1>1, <2>1 DEF TypesOK, Links, Nodes
<1> QED
  BY <1>2, <1>3, <1>6, <1>7 DEF IsFull

\* Every step of the threads is a step of the FIFO, or is not seen there.
LEMMA StepImplements ==
  ASSUME QueueInv, [Next]_vars PROVE [Fifo!FifoNext]_(Fifo!fifoVars)
<1> DEFINE q == Chain(ll_buffers)
           t == IF unowned \/ fft \in {"clear", "exited"} THEN <<>> ELSE Chain(curelem)
           a == arrived - Cardinality(Pending)
           Same == q' = q /\ t' = t /\ a' = a /\ do_exit' = do_exit /\ unowned' = unowned
<1>0. TypesOK /\ Pointers /\ Threads /\ Walking /\ Owners /\ arrived \in Int
  BY DEF QueueInv, TypesOK, Links
<1>1. Same => UNCHANGED Fifo!fifoVars
  BY DEF Fifo!fifoVars
<1>2. ASSUME IsPending, cb' = "unlock", UNCHANGED arrived
      PROVE  a' = a + 1 /\ a + 1 = arrived
  <2>1. Pending = {rpt} /\ Pending' = {}
    BY <1>2 DEF Pending, IsPending
  <2>2. Cardinality(Pending) = 1 /\ Cardinality(Pending') = 0
    BY <2>1, Counts
  <2> QED
    BY <1>0, <1>2, <2>2
<1>3. ASSUME UNCHANGED <<arrived, rpt>>, IsPending' = IsPending PROVE a' = a
  BY <1>3 DEF Pending, IsPending
<1>4. ASSUME UNCHANGED next
      PROVE  /\ UNCHANGED ll_buffers => q' = q
             /\ UNCHANGED <<curelem, fft, unowned>> => t' = t
             /\ UNCHANGED curelem => Chain(curelem)' = Chain(curelem)
             /\ \A n : n = ll_buffers' => q' = Chain(n)
             /\ \A n : n = curelem' => Chain(curelem)' = Chain(n)
  BY <1>4 DEF Chain
<1>5. Chain(0) = <<>> /\ (curelem = 0 <=> Chain(curelem) = <<>>) /\ (ll_buffers = 0 <=> q = <<>>)
  <2>1. 0 \in Links /\ curelem \in Links /\ ll_buffers \in Links
    BY <1>0 DEF TypesOK, Links
  <2>2. \A n \in Links : Chain(n) = <<>> <=> n = 0
    BY <1>0, ChainsOK
  <2> QED
    BY <2>1, <2>2
<1>6. CASE CbAlloc
  <2>1. a' = a
    <3>1. /\ cb = "idle" /\ cb' = "lock" /\ arrived' = arrived + 1 /\ Pending = {} /\ Pending' = {rpt'}
      BY <1>6 DEF CbAlloc, Pending
    <3>2. Cardinality(Pending) = 0 /\ Cardinality(Pending') = 1
      BY <3>1, Counts
    <3> QED
      BY <1>0, <3>1, <3>2
  <2> QED
    BY <1>1, <1>4, <1>6, <2>1 DEF CbAlloc, fftVars
<1>7. CASE CbLock \/ CbLook \/ CbUnlock
  <2>1. /\ IsPending' = IsPending
        /\ UNCHANGED <<next, ll_buffers, curelem, fft, unowned, do_exit, arrived, rpt>>
    BY <1>7 DEF CbLock, CbLook, CbUnlock, IsPending, fftVars
  <2> QED
    BY <1>1, <1>3, <1>4, <2>1
<1>8. CASE CbWalk \/ CbDrop \/ CbFree
  <2>1. /\ IsPending' = IsPending
        /\ UNCHANGED <<next, ll_buffers, curelem, fft, unowned, do_exit, arrived, rpt>>
    BY <1>8 DEF CbWalk, CbDrop, CbFree, IsPending, fftVars
  <2> QED
    BY <1>1, <1>3, <1>4, <2>1
<1>9. CASE CbFirst
  <2>1. /\ cb = "first" /\ cb' = "unlock" /\ ll_buffers = 0 /\ ll_buffers' = rpt
        /\ UNCHANGED <<next, curelem, fft, unowned, do_exit, arrived>>
    BY <1>0, <1>9 DEF CbFirst, Walking, fftVars
  <2>2. rpt = arrived /\ Chain(rpt) = Append(<<>>, rpt)
    BY <2>1, StartsAnew DEF IsPending
  <2>3. a' = a + 1 /\ a + 1 = arrived
    BY <1>2, <2>1 DEF IsPending
  <2>4. q = <<>> /\ q' = Append(q, a + 1) /\ t' = t
    BY <1>4, <1>5, <2>1, <2>2, <2>3
  <2>5. ~Fifo!Full
    BY <2>4 DEF Fifo!Full
  <2>6. Fifo!Arrive
    BY <2>1, <2>3, <2>4, <2>5 DEF Fifo!Arrive
  <2> QED
    BY <2>6 DEF Fifo!FifoNext
<1>10. CASE CbStore
  <2>1. /\ cb = "store" /\ cb' = "link" /\ ll_buffers' = keep
        /\ UNCHANGED <<next, curelem, fft, unowned, do_exit, arrived, rpt>>
    BY <1>10 DEF CbStore, fftVars
  <2>2. /\ ll_buffers = head => Chain(next[head]) = Tail(q) /\ Len(q) = llbuf_num + 3
        /\ Chain(next[head]) = [i \in 1..(llbuf_num + 2) |-> (arrived - 1) - (llbuf_num + 2) + i]
        /\ llbuf_num # 0 /\ arrived - 1 >= llbuf_num + 2
        /\ (ll_buffers = head \/ Cleared) /\ keep = next[head]
    BY <2>1, StoresLatest
  <2>3. a' = a /\ t' = t /\ q' = Chain(next[head])
    BY <1>3, <1>4, <2>1, <2>2 DEF IsPending
  <2>4. a = arrived - 1
    <3>1. Pending = {rpt} /\ Cardinality({rpt}) = 1
      BY <2>1, Counts DEF Pending
    <3> QED
      BY <3>1
  <2>5. CASE ll_buffers = head
    <3>1. q # <<>> /\ Len(q) \in Nat
      BY <1>0, <1>5, <2>1, <2>5, AtWalk, ChainsOK DEF Nodes
    <3>2. Fifo!Full
      BY <2>2, <2>5, <3>1 DEF Fifo!Full
    <3>3. Fifo!MakeRoom
      BY <2>1, <2>2, <2>3, <2>5, <3>2 DEF Fifo!MakeRoom
    <3> QED
      BY <3>3 DEF Fifo!FifoNext
  <2>6. CASE Cleared
    <3>1. q = <<>> /\ unowned
      BY <1>5, <2>6 DEF Cleared
    <3>2. /\ q' = [i \in 1..(llbuf_num + 2) |-> a - (llbuf_num + 2) + i]
          /\ a >= llbuf_num + 2
      BY <2>2, <2>3, <2>4
    <3> HIDE DEF q, t, a
    <3>3. Fifo!Revive
      BY <2>1, <2>2, <2>3, <3>1, <3>2 DEF Fifo!Revive, q, t, a
    <3> QED
      BY <3>3 DEF Fifo!FifoNext
  <2> QED
    BY <2>2, <2>5, <2>6
<1>11. CASE CbLink
  <2>1. /\ cb = "link" /\ cb' = "unlock" /\ cur = Linked /\ cur # 0
        /\ UNCHANGED <<ll_buffers, curelem, fft, unowned, do_exit, arrived>>
        /\ (ll_buffers # 0 /\ ~IsFull(q)) \/ Cleared
    BY <1>0, <1>11 DEF CbLink, Walking, fftVars
  <2>2. a' = a + 1 /\ a + 1 = arrived /\ rpt = arrived
    BY <1>0, <1>2, <2>1, OwnNode DEF IsPending
  <2>3. /\ ll_buffers \in Links /\ curelem \in Links /\ ll_buffers <= Linked /\ curelem <= Linked
        /\ q' = ChainOf(next', ll_buffers) /\ Chain(curelem)' = ChainOf(next', curelem)
    BY <1>0, <2>1 DEF TypesOK, Pointers, Chain
  <2>4. /\ Linked \in OnChain(ll_buffers) => q' = Append(q, rpt)
        /\ Linked \notin OnChain(ll_buffers) => q' = q
        /\ Linked \notin OnChain(curelem) => Chain(curelem)' = Chain(curelem)
    BY <1>0, <1>11, <2>1, <2>3, LinkChain
  <2>5. CASE Cleared
    <3>1. unowned /\ ll_buffers = 0 /\ t = <<>> /\ t' = <<>>
      BY <2>1, <2>5 DEF Cleared
    <3>2. q' = q
      <4>1. OnChain(0) = {}
        BY <1>0, ChainsOK DEF Links
      <4> QED
        BY <2>4, <3>1, <4>1
    <3>3. Fifo!Lose
      BY <2>1, <2>2, <3>1, <3>2 DEF Fifo!Lose
    <3> QED
      BY <3>3 DEF Fifo!FifoNext
  <2>6. CASE ll_buffers # 0 /\ ~IsFull(q)
    <3>1. Linked \in OnChain(ll_buffers) /\ q' = Append(q, a + 1)
      BY <1>0, <2>2, <2>4, <2>6 DEF Walking
    <3>2. t' = t
      <4>1. CASE unowned \/ fft \in {"clear", "exited"}
        BY <2>1, <4>1
      <4>2. CASE ~(unowned \/ fft \in {"clear", "exited"})
        <5>1. Listed = OnChain(ll_buffers) /\ Taken = OnChain(curelem) /\ Listed \cap Taken = {}
          BY <1>0, <2>1, <4>2 DEF Owners, Listed, Taken
        <5> QED
          BY <2>1, <2>4, <3>1, <4>2, <5>1
      <4> QED
        BY <4>1, <4>2
    <3>3. Len(q) \in Nat
      BY <1>0, <2>3, ChainsOK
    <3>4. ~Fifo!Full
      BY <2>6, <3>3 DEF Fifo!Full, IsFull
    <3>5. Fifo!Arrive
      BY <2>1, <2>2, <3>1, <3>2, <3>4 DEF Fifo!Arrive
    <3> QED
      BY <3>5 DEF Fifo!FifoNext
  <2> QED
    BY <2>1, <2>5, <2>6
<1>12. CASE FftLock \/ FftTimeout \/ FftUnlock
  <2>1. /\ UNCHANGED <<next, ll_buffers, curelem, cb, arrived, rpt, do_exit, unowned>>
        /\ fft \notin {"clear", "exited"} /\ fft' \notin {"clear", "exited"}
    BY <1>12 DEF FftLock, FftTimeout, FftUnlock, cbVars
  <2>2. a' = a /\ q' = q /\ t' = t
    BY <1>3, <1>4, <2>1 DEF IsPending
  <2> QED
    BY <1>1, <2>1, <2>2
<1>13. CASE FftRead
  <2>1. /\ fft = "read" /\ fft' = "clear" /\ unowned' = (unowned \/ ll_mutex # "fft")
        /\ UNCHANGED <<next, ll_buffers, cb, arrived, rpt, do_exit>>
    BY <1>13 DEF FftRead, cbVars
  <2>2. ~unowned /\ curelem = 0 /\ (ll_mutex = "fft" \/ do_exit)
    BY <1>0, <2>1 DEF Threads
  <2>3. t = <<>> /\ t' = <<>> /\ q' = q /\ a' = a
    BY <1>3, <1>4, <1>5, <2>1, <2>2 DEF IsPending
  <2>4. CASE ll_mutex = "fft"
    <3>1. unowned' = unowned
      <4>1. unowned' = unowned \/ unowned' = FALSE
        BY <2>1, <2>4, Zenon
      <4>2. unowned = FALSE
        BY <1>0, <2>2 DEF TypesOK
      <4>3. unowned' = FALSE
        BY <2>1, <2>2, <2>4, Zenon
      <4> QED
        BY <4>2, <4>3, Zenon
    <3> QED
      BY <1>1, <2>1, <2>3, <3>1
  <2>5. CASE ll_mutex # "fft"
    <3>1. unowned' = TRUE
      BY <2>1, <2>5, Zenon
    <3>2. Fifo!Break
      <4> HIDE DEF q, a
      <4> QED
        BY <2>1, <2>2, <2>3, <2>5, <3>1 DEF Fifo!Break, q, a
    <3> QED
      BY <3>2 DEF Fifo!FifoNext
  <2> QED
    BY <2>4, <2>5
<1>14. CASE FftClear
  <2>1. /\ fft = "clear" /\ fft' = "unlock" /\ ll_buffers' = 0
        /\ UNCHANGED <<next, curelem, cb, arrived, rpt, do_exit, unowned>>
    BY <1>14 DEF FftClear, cbVars
  <2>2. t = <<>> /\ q' = <<>> /\ a' = a
    BY <1>3, <1>4, <1>5, <2>1 DEF IsPending
  <2>3. CASE unowned
    <3>1. t' = t /\ do_exit
      BY <1>0, <2>1, <2>2, <2>3 DEF Threads
    <3> QED
      BY <2>1, <2>2, <3>1 DEF Fifo!FifoNext, Fifo!Abandon
  <2>4. CASE ~unowned
    <3>1. curelem = ll_buffers
      BY <1>0, <2>1, <2>4 DEF Threads
    <3>2. t' = q
      BY <1>4, <2>1, <2>4, <3>1
    <3>3. CASE q = <<>>
      BY <1>1, <2>1, <2>2, <3>2, <3>3
    <3>4. CASE q # <<>>
      BY <2>1, <2>2, <3>2, <3>4 DEF Fifo!FifoNext, Fifo!TakeAll
    <3> QED
      BY <3>3, <3>4
  <2> QED
    BY <2>3, <2>4
<1>15. CASE FftTest
  <2>1. /\ fft = "test" /\ UNCHANGED <<next, ll_buffers, curelem, cb, arrived, rpt, do_exit, unowned>>
        /\ fft' \in {"exited", "lock", "use"} /\ (fft' = "exited" => do_exit)
    BY <1>15 DEF FftTest, cbVars
  <2>2. q' = q /\ a' = a /\ (fft' # "exited" => t' = t) /\ (fft' = "exited" => t' = <<>>)
    BY <1>3, <1>4, <2>1 DEF IsPending
  <2> QED
    BY <1>1, <2>1, <2>2 DEF Fifo!FifoNext, Fifo!Abandon
<1>16. CASE FftFree
  <2>1. /\ fft = "use" /\ fft' = "test" /\ curelem' = next[curelem]
        /\ UNCHANGED <<next, ll_buffers, cb, arrived, rpt, do_exit, unowned>>
    BY <1>16 DEF FftFree, cbVars
  <2>2. curelem \in Nodes /\ ~unowned
    BY <1>0, <2>1 DEF Threads, TypesOK, Links, Nodes
  <2>3. Chain(curelem)' = Tail(Chain(curelem)) /\ curelem # 0
    <3>1. Chain(curelem)' = Chain(next[curelem])
      BY <1>4, <2>1
    <3> QED
      BY <1>0, <2>2, <3>1, TakeTail DEF Nodes
  <2>4. q' = q /\ a' = a /\ t # <<>> /\ t' = Tail(t)
    BY <1>3, <1>4, <1>5, <2>1, <2>2, <2>3 DEF IsPending
  <2> QED
    BY <2>1, <2>4 DEF Fifo!FifoNext, Fifo!Consume
<1>17. CASE SetExit
  <2>1. /\ ~do_exit /\ do_exit' = TRUE
        /\ UNCHANGED <<next, ll_buffers, curelem, fft, cb, arrived, rpt, unowned>>
    BY <1>17 DEF SetExit, cbVars, fftVars
  <2>2. q' = q /\ a' = a /\ t' = t
    BY <1>3, <1>4, <2>1 DEF IsPending
  <2> QED
    BY <2>1, <2>2 DEF Fifo!FifoNext, Fifo!Exit
<1>18. CASE StreamEnds \/ UNCHANGED vars
  <2>1. UNCHANGED <<next, ll_buffers, curelem, fft, cb, arrived, rpt, do_exit, unowned>>
    BY <1>18 DEF StreamEnds, vars, cbVars, fftVars
  <2> QED
    BY <1>1, <1>3, <1>4, <2>1 DEF IsPending
<1>19. CASE MainDrain
  <2>1. /\ fft = "exited" /\ ll_buffers' = 0
        /\ UNCHANGED <<next, curelem, fft, cb, arrived, rpt, do_exit, unowned>>
    BY <1>19 DEF MainDrain, cbVars, fftVars
  <2>2. q' = <<>> /\ a' = a /\ t' = t /\ do_exit
    BY <1>0, <1>3, <1>4, <1>5, <2>1 DEF Threads, IsPending
  <2> QED
    BY <2>1, <2>2 DEF Fifo!FifoNext, Fifo!Abandon
<1> QED
  BY <1>6, <1>7, <1>8, <1>9, <1>10, <1>11, <1>12, <1>13, <1>14, <1>15, <1>16, <1>17, <1>18,
     <1>19 DEF Next, CbStep, Fft

(***************************************************************************)
(* The linked list, the mutex and the two threads of rtl_tcp implement the *)
(* lossy FIFO: every step of theirs is one of it, or is not seen there.    *)
(***************************************************************************)
THEOREM QueueImplementsFifo == Spec => ImplementsFifo
<1>1. Init => Fifo!FifoInit
  <2> SUFFICES ASSUME Init PROVE Fifo!FifoInit
    OBVIOUS
  <2>1. Forward(next)
    BY DEF Init, Forward, Nodes, Links
  <2>2. Chain(0) = <<>>
    BY <2>1, ChainRecursion DEF Chain
  <2>3. Cardinality(Pending) = 0 /\ arrived = 0 /\ arrived - Cardinality(Pending) = 0
    BY Counts DEF Init, Pending
  <2> QED
    BY <2>2, <2>3 DEF Init, Fifo!FifoInit
<1>2. QueueInv /\ [Next]_vars => [Fifo!FifoNext]_(Fifo!fifoVars)
  BY StepImplements
<1> QED
  BY <1>1, <1>2, QueueInvariant, PTL DEF Spec, ImplementsFifo, Fifo!FifoSpec

-----------------------------------------------------------------------------
(* What any lossy FIFO keeps: its queue q, the taken chain t and the last  *)
(* arrival a before a step, and q2, t2 and a2 after it.                    *)

\* Tail and Append on sequences of numbers, element by element.
LEMMA TailElements ==
  ASSUME NEW s \in Seq(Nat), s # <<>>
  PROVE  /\ Tail(s) \in Seq(Nat) /\ Len(Tail(s)) = Len(s) - 1
         /\ \A i \in 1..(Len(s) - 1) : Tail(s)[i] = s[i + 1]
  OBVIOUS

LEMMA AppendElements ==
  ASSUME NEW s \in Seq(Nat), NEW n \in Nat
  PROVE  /\ Append(s, n) \in Seq(Nat) /\ Len(Append(s, n)) = Len(s) + 1
         /\ \A i \in 1..Len(s) : Append(s, n)[i] = s[i]
         /\ Append(s, n)[Len(s) + 1] = n
  OBVIOUS

Numbers(q, t, a) == q \in Seq(Nat) /\ t \in Seq(Nat) /\ a \in Nat
Latest(q, a) == \A i \in 1..Len(q) : q[i] = a - Len(q) + i
InOrder(q, t, a) == /\ \A i \in 1..(Len(t) - 1) : t[i + 1] = t[i] + 1
                    /\ \A i \in 1..Len(t) : t[i] + Len(q) <= a

AtLimit(q) == q # <<>> /\ llbuf_num # 0 /\ Len(q) - 1 = llbuf_num + 2
LastOf(a) == [i \in 1..(llbuf_num + 2) |-> a - (llbuf_num + 2) + i]

\* The steps, those of a program that is exiting apart.
Running(q, t, a, q2, t2, a2) ==
  \/ AtLimit(q) /\ q2 = Tail(q) /\ t2 = t /\ a2 = a
  \/ ~AtLimit(q) /\ q2 = Append(q, a + 1) /\ t2 = t /\ a2 = a + 1
  \/ q2 = <<>> /\ t2 = q /\ a2 = a
  \/ t # <<>> /\ q2 = q /\ t2 = Tail(t) /\ a2 = a
  \/ q2 = q /\ t2 = t /\ a2 = a
Exiting(q, t, a, q2, t2, a2) ==
  \/ q2 = q /\ t2 = t /\ a2 = a + 1
  \/ q2 = q /\ t2 = <<>> /\ a2 = a
  \/ q2 = <<>> /\ t2 = t /\ a2 = a
  \/ a >= llbuf_num + 2 /\ q2 = LastOf(a) /\ t2 = t /\ a2 = a

LEMMA LastOfIs ==
  ASSUME NEW a \in Nat, a >= llbuf_num + 2
  PROVE  LastOf(a) \in Seq(Nat) /\ Len(LastOf(a)) = llbuf_num + 2
<1> DEFINE n == llbuf_num + 2
<1>1. n \in Nat
  OBVIOUS
<1>2. [i \in 1..n |-> a - n + i] \in [1..n -> Nat]
  BY <1>1
<1>3. [i \in 1..n |-> a - n + i] \in Seq(Nat) /\ Len([i \in 1..n |-> a - n + i]) = n
  BY <1>1, <1>2
<1> QED
  BY <1>3 DEF LastOf

LEMMA KeepsNumbers ==
  ASSUME NEW q, NEW t, NEW a, NEW q2, NEW t2, NEW a2, Numbers(q, t, a),
         Running(q, t, a, q2, t2, a2) \/ Exiting(q, t, a, q2, t2, a2)
  PROVE  Numbers(q2, t2, a2)
<1> USE DEF Numbers
<1>1. <<>> \in Seq(Nat) /\ a + 1 \in Nat /\ Append(q, a + 1) \in Seq(Nat)
  BY AppendElements
<1>2. (AtLimit(q) => Tail(q) \in Seq(Nat)) /\ (t # <<>> => Tail(t) \in Seq(Nat))
  BY TailElements DEF AtLimit
<1>3. a >= llbuf_num + 2 => LastOf(a) \in Seq(Nat)
  BY LastOfIs
<1> QED
  BY <1>1, <1>2, <1>3 DEF Running, Exiting

LEMMA KeepsBound ==
  ASSUME NEW q, NEW t, NEW a, NEW q2, NEW t2, NEW a2, Numbers(q, t, a),
         Running(q, t, a, q2, t2, a2) \/ Exiting(q, t, a, q2, t2, a2),
         llbuf_num \in Nat \ {0}, Len(q) <= llbuf_num + 3
  PROVE  Len(q2) <= llbuf_num + 3
<1>1. q \in Seq(Nat) /\ t \in Seq(Nat) /\ a \in Nat /\ Len(q) \in Nat /\ a + 1 \in Nat
  BY DEF Numbers
<1>2. AtLimit(q) => Len(Tail(q)) <= llbuf_num + 3
  <2>1. AtLimit(q) => Len(Tail(q)) = Len(q) - 1
    BY <1>1, TailElements DEF AtLimit
  <2> QED
    BY <1>1, <2>1
<1>3. ~AtLimit(q) => Len(Append(q, a + 1)) <= llbuf_num + 3
  <2>1. Len(Append(q, a + 1)) = Len(q) + 1
    BY <1>1, AppendElements
  <2>2. ~AtLimit(q) => Len(q) <= llbuf_num + 2
    BY <1>1 DEF AtLimit
  <2> QED
    BY <1>1, <2>1, <2>2
<1>4. a >= llbuf_num + 2 => Len(LastOf(a)) <= llbuf_num + 3
  BY <1>1, LastOfIs
<1>5. CASE q2 = q \/ q2 = <<>>
  BY <1>1, <1>5
<1>6. CASE AtLimit(q) /\ q2 = Tail(q)
  BY <1>2, <1>6, Zenon
<1>7. CASE ~AtLimit(q) /\ q2 = Append(q, a + 1)
  BY <1>3, <1>7, Zenon
<1>8. CASE a >= llbuf_num + 2 /\ q2 = LastOf(a)
  BY <1>4, <1>8, Zenon
<1> QED
  BY <1>5, <1>6, <1>7, <1>8, Zenon DEF Running, Exiting

LEMMA KeepsOrder ==
  ASSUME NEW q, NEW t, NEW a, NEW q2, NEW t2, NEW a2, Numbers(q, t, a),
         Running(q, t, a, q2, t2, a2), Latest(q, a)
  PROVE  Latest(q2, a2) /\ (InOrder(q, t, a) => InOrder(q2, t2, a2))
<1>1. q \in Seq(Nat) /\ t \in Seq(Nat) /\ a \in Nat /\ Len(q) \in Nat /\ Len(t) \in Nat
  BY DEF Numbers
<1>6. CASE AtLimit(q) /\ q2 = Tail(q) /\ t2 = t /\ a2 = a
  <2>1. Len(q2) = Len(q) - 1 /\ \A i \in 1..(Len(q) - 1) : q2[i] = q[i + 1]
    BY <1>1, <1>6, TailElements DEF AtLimit
  <2>2. \A i \in 1..Len(t) : t[i] \in Nat
    BY <1>1
  <2>3. ASSUME NEW i \in 1..Len(q2) PROVE q2[i] = a2 - Len(q2) + i
    <3>1. i \in 1..(Len(q) - 1) /\ i + 1 \in 1..Len(q)
      BY <1>1, <2>1
    <3>2. q2[i] = q[i + 1] /\ q[i + 1] = a - Len(q) + (i + 1)
      BY <2>1, <3>1 DEF Latest
    <3>3. a2 = a /\ Len(q2) = Len(q) - 1 /\ i \in Int
      BY <1>6, <2>1, <3>1
    <3> QED
      BY <1>1, <3>2, <3>3
  <2>4. InOrder(q, t, a) => InOrder(q2, t2, a2)
    BY <1>1, <1>6, <2>1, <2>2 DEF InOrder
  <2> QED
    BY <2>3, <2>4 DEF Latest
<1>2. CASE q2 = Append(q, a + 1) /\ t2 = t /\ a2 = a + 1
  <2>1. /\ Len(q2) = Len(q) + 1 /\ \A i \in 1..Len(q) : q2[i] = q[i]
        /\ q2[Len(q) + 1] = a + 1
    BY <1>1, <1>2, AppendElements
  <2>2. ASSUME NEW i \in 1..Len(q2) PROVE q2[i] = a2 - Len(q2) + i
    <3>1. CASE i = Len(q) + 1
      BY <1>1, <1>2, <2>1, <3>1
    <3>2. CASE i \in 1..Len(q)
      BY <1>1, <1>2, <2>1, <3>2 DEF Latest
    <3> QED
      BY <2>1, <3>1, <3>2
  <2>3. \A i \in 1..Len(t) : t[i] \in Nat
    BY <1>1
  <2>4. InOrder(q, t, a) => InOrder(q2, t2, a2)
    BY <1>1, <1>2, <2>1, <2>3 DEF InOrder
  <2> QED
    BY <2>2, <2>4 DEF Latest
<1>3. CASE q2 = <<>> /\ t2 = q /\ a2 = a
  <2>1. \A i \in 1..Len(q) : q[i] = a - Len(q) + i
    BY DEF Latest
  <2>2. ASSUME NEW i \in 1..(Len(q) - 1) PROVE q[i + 1] = q[i] + 1
    <3>1. i \in 1..Len(q) /\ i + 1 \in 1..Len(q)
      BY <1>1
    <3>2. q[i] = a - Len(q) + i /\ q[i + 1] = a - Len(q) + (i + 1)
      BY <2>1, <3>1
    <3> QED
      BY <1>1, <3>2
  <2>3. \A i \in 1..Len(q) : q[i] + 0 <= a
    BY <1>1, <2>1
  <2>4. Len(q2) = 0
    BY <1>3
  <2> QED
    BY <1>3, <2>2, <2>3, <2>4 DEF Latest, InOrder
<1>4. CASE t # <<>> /\ q2 = q /\ t2 = Tail(t) /\ a2 = a
  <2>1. Len(t2) = Len(t) - 1 /\ \A i \in 1..(Len(t) - 1) : t2[i] = t[i + 1]
    BY <1>1, <1>4, TailElements
  <2> QED
    BY <1>1, <1>4, <2>1 DEF Latest, InOrder
<1>5. CASE q2 = q /\ t2 = t /\ a2 = a
  BY <1>5
<1> QED
  BY <1>2, <1>3, <1>4, <1>5, <1>6 DEF Running

-----------------------------------------------------------------------------
(* So the FIFO that the list implements keeps its promises.                *)

FifoQueue == Chain(ll_buffers)
FifoTaken == IF unowned \/ fft \in {"clear", "exited"} THEN <<>> ELSE Chain(curelem)
FifoArrived == arrived - Cardinality(Pending)

LEMMA FifoSteps ==
  ASSUME [Fifo!FifoNext]_(Fifo!fifoVars)
  PROVE  /\ \/ Running(FifoQueue, FifoTaken, FifoArrived, FifoQueue', FifoTaken', FifoArrived')
            \/ /\ do_exit \/ unowned
               /\ Exiting(FifoQueue, FifoTaken, FifoArrived, FifoQueue', FifoTaken', FifoArrived')
         /\ do_exit => do_exit'
         /\ unowned' => unowned \/ do_exit
<1> USE DEF FifoQueue, FifoTaken, FifoArrived
<1>1. CASE Fifo!Arrive
  BY <1>1 DEF Fifo!Arrive, Fifo!Full, Running, AtLimit
<1>7. CASE Fifo!MakeRoom
  BY <1>7 DEF Fifo!MakeRoom, Fifo!Full, Running, AtLimit
<1>2. CASE Fifo!Lose
  BY <1>2 DEF Fifo!Lose, Exiting
<1>3. CASE Fifo!TakeAll
  BY <1>3 DEF Fifo!TakeAll, Running
<1>4. CASE Fifo!Consume
  BY <1>4 DEF Fifo!Consume, Running
<1>5. CASE Fifo!Exit \/ UNCHANGED Fifo!fifoVars
  BY <1>5 DEF Fifo!Exit, Fifo!fifoVars, Running
<1>6. CASE Fifo!Abandon \/ Fifo!Break
  BY <1>6 DEF Fifo!Abandon, Fifo!Break, Exiting
<1>8. CASE Fifo!Revive
  BY <1>8 DEF Fifo!Revive, Exiting, LastOf
<1> QED
  BY <1>1, <1>2, <1>3, <1>4, <1>5, <1>6, <1>7, <1>8 DEF Fifo!FifoNext

(***************************************************************************)
(* The queue and the taken chain hold arrival numbers.                     *)
(***************************************************************************)
THEOREM FifoTypeCorrect == Fifo!FifoSpec => []Fifo!FifoTypeOK
<1>1. Fifo!FifoTypeOK <=> Numbers(FifoQueue, FifoTaken, FifoArrived)
  BY DEF Fifo!FifoTypeOK, Numbers, FifoQueue, FifoTaken, FifoArrived
<1>2. Fifo!FifoTypeOK' <=> Numbers(FifoQueue', FifoTaken', FifoArrived')
  BY DEF Fifo!FifoTypeOK, Numbers, FifoQueue, FifoTaken, FifoArrived
<1>3. Fifo!FifoInit => Fifo!FifoTypeOK
  <2>1. Numbers(<<>>, <<>>, 0)
    BY DEF Numbers
  <2>2. Fifo!FifoInit => FifoQueue = <<>> /\ FifoTaken = <<>> /\ FifoArrived = 0
    BY DEF Fifo!FifoInit, FifoQueue, FifoTaken, FifoArrived
  <2> QED
    BY <1>1, <2>1, <2>2
<1>4. Fifo!FifoTypeOK /\ [Fifo!FifoNext]_(Fifo!fifoVars) => Fifo!FifoTypeOK'
  BY <1>1, <1>2, FifoSteps, KeepsNumbers
<1> QED
  BY <1>3, <1>4, PTL DEF Fifo!FifoSpec

(***************************************************************************)
(* The dropping keeps up: the queue never outgrows llbuf_num + 3 buffers.  *)
(***************************************************************************)
THEOREM QueueBounded == Fifo!FifoSpec => []Fifo!Bounded
<1>1. Fifo!FifoInit => Fifo!Bounded
  BY DEF Fifo!FifoInit, Fifo!Bounded
<1>2. Fifo!FifoTypeOK /\ Fifo!Bounded /\ [Fifo!FifoNext]_(Fifo!fifoVars) => Fifo!Bounded'
  <2> SUFFICES ASSUME Fifo!FifoTypeOK, Fifo!Bounded, [Fifo!FifoNext]_(Fifo!fifoVars),
                      llbuf_num \in Nat \ {0}
               PROVE  Len(FifoQueue') <= llbuf_num + 3
    BY DEF Fifo!Bounded, FifoQueue
  <2>1. Numbers(FifoQueue, FifoTaken, FifoArrived) /\ Len(FifoQueue) <= llbuf_num + 3
    BY DEF Fifo!FifoTypeOK, Fifo!Bounded, Numbers, FifoQueue, FifoTaken, FifoArrived
  <2> QED
    BY <2>1, FifoSteps, KeepsBound
<1> QED
  BY <1>1, <1>2, FifoTypeCorrect, PTL DEF Fifo!FifoSpec

\* Until exit, what is queued are the latest arrivals, and what is taken came before.
LEMMA FifoOrder == Fifo!FifoSpec => [](Fifo!LatestArrivals /\ Fifo!TakenInOrder)
<1> DEFINE Inv == ~do_exit => /\ ~unowned /\ Latest(FifoQueue, FifoArrived)
                              /\ InOrder(FifoQueue, FifoTaken, FifoArrived)
<1>1. Fifo!FifoInit => Inv
  BY DEF Fifo!FifoInit, Latest, InOrder, FifoQueue, FifoTaken, FifoArrived
<1>2. Fifo!FifoTypeOK /\ Inv /\ [Fifo!FifoNext]_(Fifo!fifoVars) => Inv'
  <2> SUFFICES ASSUME Fifo!FifoTypeOK, Inv, [Fifo!FifoNext]_(Fifo!fifoVars), ~do_exit'
               PROVE  /\ ~unowned' /\ Latest(FifoQueue', FifoArrived')
                      /\ InOrder(FifoQueue', FifoTaken', FifoArrived')
    BY DEF Latest, InOrder
  <2>1. Numbers(FifoQueue, FifoTaken, FifoArrived)
    BY DEF Fifo!FifoTypeOK, Numbers, FifoQueue, FifoTaken, FifoArrived
  <2>2. /\ Running(FifoQueue, FifoTaken, FifoArrived, FifoQueue', FifoTaken', FifoArrived')
        /\ ~do_exit /\ ~unowned'
    BY FifoSteps
  <2>3. Latest(FifoQueue, FifoArrived) /\ InOrder(FifoQueue, FifoTaken, FifoArrived)
    BY <2>2
  <2> QED
    BY <2>1, <2>2, <2>3, KeepsOrder
<1>3. Inv => Fifo!LatestArrivals /\ Fifo!TakenInOrder
  BY DEF Latest, InOrder, FifoQueue, FifoTaken, FifoArrived, Fifo!LatestArrivals, Fifo!TakenInOrder
<1> HIDE DEF Inv
<1> QED
  BY <1>1, <1>2, <1>3, FifoTypeCorrect, PTL DEF Fifo!FifoSpec

(***************************************************************************)
(* Until exit, the queue holds exactly the latest arrivals, in order: only *)
(* the oldest buffers were ever dropped.                                   *)
(***************************************************************************)
THEOREM QueueHoldsLatest == Fifo!FifoSpec => []Fifo!LatestArrivals
BY FifoOrder, PTL

(***************************************************************************)
(* Until exit, the consumer reads consecutive arrivals, each older than    *)
(* everything still queued.                                                *)
(***************************************************************************)
THEOREM ConsumedInOrder == Fifo!FifoSpec => []Fifo!TakenInOrder
BY FifoOrder, PTL

(***************************************************************************)
(* A limited list never holds more than llbuf_num + 3 buffers, although it *)
(* is only shortened when it has exactly that many.                        *)
(***************************************************************************)
THEOREM ListBounded ==
  Spec => [](llbuf_num # 0 => Len(Chain(ll_buffers)) <= llbuf_num + 3)
<1>1. Fifo!Bounded => (llbuf_num # 0 => Len(Chain(ll_buffers)) <= llbuf_num + 3)
  BY DEF Fifo!Bounded
<1> QED
  BY <1>1, QueueImplementsFifo, QueueBounded, PTL DEF ImplementsFifo

(***************************************************************************)
(* Until exit, the list holds the latest buffers that arrived and the FFT  *)
(* reads consecutive ones, each older than everything in the list: only a  *)
(* full list loses buffers, and only its oldest.                           *)
(***************************************************************************)
THEOREM ListInOrder == Spec => [](Fifo!LatestArrivals /\ Fifo!TakenInOrder)
BY QueueImplementsFifo, FifoOrder, PTL DEF ImplementsFifo
=============================================================================
