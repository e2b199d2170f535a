---------------------------- MODULE R82xxProofs ----------------------------
(***************************************************************************)
(* Theorems about R82xx, for every stick, frequency and gain, and however  *)
(* many transfers fail: the frequency, the input and the gain of the chip  *)
(* are those asked for.                                                    *)
(*                                                                         *)
(* An operation is a sequence of steps that may break off at any transfer. *)
(* Ending says where it leaves the tuner, given the tuners that each of its *)
(* steps may meet; an operation's lemma gives those.                       *)
(***************************************************************************)
EXTENDS R82xx, WellFoundedInduction, TLAPS

-----------------------------------------------------------------------------
(* Recursion.                                                              *)

\* A set of numbers has a least one.
LEMMA Least ==
  ASSUME NEW T \in SUBSET Nat, T # {}
  PROVE  \E x \in T : \A y \in T : x <= y
<1> DEFINE R == {ss \in Nat \X Nat : ss[1] < ss[2]}
<1>1. IsWellFoundedOn(R, Nat)
  BY NatLessThanWellFounded DEF OpToRel
<1>2. PICK x \in T : \A y \in T : ~ (<<y, x>> \in R)
  BY <1>1, WFMin
<1>3. x \in Nat /\ \A y \in T : y \in Nat /\ ~ (y < x)
  BY <1>2
<1> QED
  BY <1>3

\* What holds of 0, and of k if of k - 1, holds of all.
LEMMA Reaches ==
  ASSUME NEW n \in Nat, NEW P \in SUBSET (0 .. n), 0 \in P,
         \A k \in 1 .. n : k - 1 \in P => k \in P
  PROVE  P = 0 .. n
<1> SUFFICES ASSUME (0 .. n) \ P # {} PROVE FALSE
  OBVIOUS
<1>1. PICK x \in (0 .. n) \ P : \A y \in (0 .. n) \ P : x <= y
  <2>1. (0 .. n) \ P \in SUBSET Nat
    OBVIOUS
  <2> QED
    BY <2>1, Least
<1>2. x \in 1 .. n /\ x - 1 \in 0 .. n /\ ~ (x <= x - 1)
  BY <1>1
<1> QED
  BY <1>1, <1>2

\* A function can be defined by its value at 0 and each other by the one before.
Solutions(n, X, a, G) ==
  {f \in [0 .. n -> X] : f[0] = a /\ \A k \in 1 .. n : f[k] = G[<<k, f[k - 1]>>]}

LEMMA Recursion ==
  ASSUME NEW n \in Nat, NEW X, NEW a \in X, NEW G \in [(1 .. n) \X X -> X]
  PROVE  Solutions(n, X, a, G) # {}
<1> DEFINE Upto(m, f) == /\ f \in [0 .. m -> X] /\ f[0] = a
                         /\ \A k \in 1 .. m : f[k] = G[<<k, f[k - 1]>>]
           P == {m \in 0 .. n : \E f : Upto(m, f)}
<1>1. 0 \in P
  <2>1. Upto(0, [k \in 0 .. 0 |-> a])
    OBVIOUS
  <2> HIDE DEF Upto
  <2> QED
    BY <2>1
<1>2. ASSUME NEW m \in 1 .. n, m - 1 \in P PROVE m \in P
  <2>1. PICK f : Upto(m - 1, f)
    BY <1>2
  <2>2. m - 1 \in 0 .. (m - 1) /\ f[m - 1] \in X /\ G[<<m, f[m - 1]>>] \in X
    BY <2>1
  <2> DEFINE g == [k \in 0 .. m |-> IF k = m THEN G[<<m, f[m - 1]>>] ELSE f[k]]
  <2>3. g \in [0 .. m -> X] /\ g[0] = a
    BY <2>1, <2>2
  <2>4. ASSUME NEW k \in 1 .. m PROVE g[k] = G[<<k, g[k - 1]>>]
    <3>1. k - 1 \in 0 .. m /\ k - 1 # m /\ g[k - 1] = f[k - 1]
      OBVIOUS
    <3>2. CASE k = m
      BY <3>1, <3>2
    <3>3. CASE k # m
      <4>1. k \in 1 .. (m - 1) /\ g[k] = f[k]
        BY <3>3
      <4> QED
        BY <2>1, <3>1, <4>1
    <3> QED
      BY <3>2, <3>3
  <2> HIDE DEF g
  <2>5. Upto(m, g)
    BY <2>3, <2>4
  <2> HIDE DEF Upto
  <2> QED
    BY <2>5
<1>3. n \in P
  <2>1. P \in SUBSET (0 .. n)
    OBVIOUS
  <2> HIDE DEF P
  <2>2. P = 0 .. n
    BY <1>1, <1>2, <2>1, Reaches
  <2> QED
    BY <2>2
<1> QED
  BY <1>3 DEF P, Solutions

-----------------------------------------------------------------------------
(* Registers.                                                              *)

Priv == [regs : [1 .. 30 -> SUBSET (0 .. 7)], int_freq : Int, has_lock : Int,
         input : {0, \h60}, init_done : Int]
Tuner == [priv : Priv, stale : SUBSET Regs]

LEMMA BitsAre ==
  ASSUME NEW n \in 0 .. 255
  PROVE  /\ Bits(n) \subseteq 0 .. 7
         /\ 0 \in Bits(n) <=> (n \div 1) % 2 = 1
         /\ 1 \in Bits(n) <=> (n \div 2) % 2 = 1
         /\ 2 \in Bits(n) <=> (n \div 4) % 2 = 1
         /\ 3 \in Bits(n) <=> (n \div 8) % 2 = 1
         /\ 4 \in Bits(n) <=> (n \div 16) % 2 = 1
         /\ 5 \in Bits(n) <=> (n \div 32) % 2 = 1
         /\ 6 \in Bits(n) <=> (n \div 64) % 2 = 1
         /\ 7 \in Bits(n) <=> (n \div 128) % 2 = 1
<1>1. Bits(n) = {i \in 0 .. 7 : (n \div 2^i) % 2 = 1}
  BY DEF Bits, ByteBits
<1>2. \A i \in 0 .. 7 : i \in Bits(n) <=> (n \div 2^i) % 2 = 1
  BY <1>1
<1>3. 0 \in 0 .. 7 /\ 1 \in 0 .. 7 /\ 2 \in 0 .. 7 /\ 3 \in 0 .. 7 /\ 4 \in 0 .. 7
      /\ 5 \in 0 .. 7 /\ 6 \in 0 .. 7 /\ 7 \in 0 .. 7
  OBVIOUS
<1>4. Bits(n) \subseteq 0 .. 7
  BY <1>1
<1>5. /\ 0 \in Bits(n) <=> (n \div 2^0) % 2 = 1
      /\ 1 \in Bits(n) <=> (n \div 2^1) % 2 = 1
      /\ 2 \in Bits(n) <=> (n \div 2^2) % 2 = 1
      /\ 3 \in Bits(n) <=> (n \div 2^3) % 2 = 1
      /\ 4 \in Bits(n) <=> (n \div 2^4) % 2 = 1
      /\ 5 \in Bits(n) <=> (n \div 2^5) % 2 = 1
      /\ 6 \in Bits(n) <=> (n \div 2^6) % 2 = 1
      /\ 7 \in Bits(n) <=> (n \div 2^7) % 2 = 1
  BY <1>2, <1>3, Zenon
<1> QED
  BY <1>4, <1>5, SMT

LEMMA Masks ==
  /\ Bits(\h60) = {5, 6} /\ Bits(\h10) = {4} /\ Bits(\h0f) = {0, 1, 2, 3}
  /\ Bits(0) = {} /\ Bits(\h80) = {7}
<1>1. Bits(\h60) = {5, 6}
  BY BitsAre, SMT
<1>2. Bits(\h10) = {4}
  BY BitsAre, SMT
<1>3. Bits(\h0f) = {0, 1, 2, 3}
  BY BitsAre, SMT
<1>4. Bits(0) = {}
  BY BitsAre, SMT
<1>5. Bits(\h80) = {7}
  BY BitsAre, SMT
<1> QED
  BY <1>1, <1>2, <1>3, <1>4, <1>5

\* What a write changes, whatever is written: p becomes q.
Wrote(p, r, v, m, q) ==
  /\ q \in Priv /\ q.input = p.input /\ q.int_freq = p.int_freq /\ q.has_lock = p.has_lock
  /\ q.regs[r - 4] = (p.regs[r - 4] \ Bits(m)) \cup (Bits(v) \cap Bits(m))
  /\ \A x \in Regs : x # r => q.regs[x - 4] = p.regs[x - 4]

LEMMA WriteOne ==
  ASSUME NEW p \in Priv, NEW r \in Regs, NEW v, NEW m \in 0 .. 255
  PROVE  Wrote(p, r, v, m, Store(p, W(r, v, m)))
<1> DEFINE new == (p.regs[r - 4] \ Bits(m)) \cup (Bits(v) \cap Bits(m))
<1>1. Bits(m) \subseteq 0 .. 7
  BY BitsAre
<1>2. p.regs \in [1 .. 30 -> SUBSET (0 .. 7)]
  BY DEF Priv
<1>3. r - 4 \in 1 .. 30 /\ \A x \in Regs : x - 4 \in 1 .. 30 /\ (x # r => x - 4 # r - 4)
  BY DEF Regs
<1>4. new \in SUBSET (0 .. 7)
  BY <1>1, <1>2, <1>3
<1>5. Store(p, W(r, v, m)) = [p EXCEPT !.regs[r - 4] = new]
  BY DEF Store, W
<1> HIDE DEF new
<1>6. [p EXCEPT !.regs[r - 4] = new].regs = [p.regs EXCEPT ![r - 4] = new]
  BY DEF Priv
<1>7. [p EXCEPT !.regs[r - 4] = new] \in Priv
  BY <1>2, <1>3, <1>4 DEF Priv
<1>8. /\ [p EXCEPT !.regs[r - 4] = new].input = p.input
      /\ [p EXCEPT !.regs[r - 4] = new].int_freq = p.int_freq
      /\ [p EXCEPT !.regs[r - 4] = new].has_lock = p.has_lock
  BY DEF Priv
<1>9. \A x \in Regs : [p.regs EXCEPT ![r - 4] = new][x - 4] = IF x = r THEN new ELSE p.regs[x - 4]
  BY <1>2, <1>3
<1> QED
  BY <1>5, <1>6, <1>7, <1>8, <1>9, ZenonT(30) DEF new, Wrote

\* What a note changes: p becomes q.
Noted(p, f, v, q) ==
  /\ q \in Priv /\ q.regs = p.regs /\ q[f] = v
  /\ \A g \in {"int_freq", "has_lock", "input"} : g # f => q[g] = p[g]

LEMMA NoteOne ==
  ASSUME NEW p \in Priv, NEW f \in {"int_freq", "has_lock", "input"}, NEW v,
         IF f = "input" THEN v \in {0, \h60} ELSE v \in Int
  PROVE  Noted(p, f, v, Store(p, Note(f, v)))
<1>1. Store(p, Note(f, v)) = [p EXCEPT ![f] = v]
  BY DEF Store, Note
<1> QED
  BY <1>1 DEF Priv, Noted

-----------------------------------------------------------------------------
(* Sequences of steps.                                                     *)

\* Steps that leave the input, the intermediate frequency and the registers 5
\* and 7 alone, with values from V; only the masks are known to be bytes.
Calm(V) == {Read} \cup {Note("has_lock", v) : v \in Int}
           \cup {W(r, v, m) : r \in Regs \ {5, 7}, v \in V, m \in 0 .. 255}
Steps(V) == Calm(V) \cup {W(r, v, m) : r \in {5, 7}, v \in V, m \in 0 .. 255}
            \cup {Note("input", v) : v \in {0, \h60}}

\* What calm steps leave alone.
Same(t, u) == /\ u.priv.input = t.priv.input /\ u.priv.int_freq = t.priv.int_freq
              /\ u.priv.regs[1] = t.priv.regs[1] /\ u.priv.regs[3] = t.priv.regs[3]
              /\ 7 \in u.stale <=> 7 \in t.stale

LEMMA StepTyped ==
  ASSUME NEW V, NEW t \in Tuner, NEW step \in Steps(V)
  PROVE  Done(t, step) \in Tuner /\ Lost(t, step) \in Tuner
<1>1. t.priv \in Priv /\ t.stale \in SUBSET Regs
  BY DEF Tuner
<1>2. Store(t.priv, step) \in Priv
  <2>1. CASE step = Read
    BY <1>1, <2>1 DEF Read, Store
  <2>2. CASE \E v \in Int : step = Note("has_lock", v)
    <3>1. PICK v \in Int : step = Note("has_lock", v)
      BY <2>2
    <3>2. Noted(t.priv, "has_lock", v, Store(t.priv, Note("has_lock", v)))
      BY <1>1, NoteOne
    <3> QED
      BY <3>1, <3>2 DEF Noted
  <2>3. CASE \E v \in {0, \h60} : step = Note("input", v)
    <3>1. PICK v \in {0, \h60} : step = Note("input", v)
      BY <2>3
    <3>2. Noted(t.priv, "input", v, Store(t.priv, Note("input", v)))
      BY <1>1, NoteOne
    <3> QED
      BY <3>1, <3>2 DEF Noted
  <2>4. CASE \E r \in Regs, v \in V, m \in 0 .. 255 : step = W(r, v, m)
    <3>1. PICK r \in Regs, v \in V, m \in 0 .. 255 : step = W(r, v, m)
      BY <2>4
    <3>2. Wrote(t.priv, r, v, m, Store(t.priv, W(r, v, m)))
      BY <1>1, WriteOne
    <3> QED
      BY <3>1, <3>2 DEF Wrote
  <2>5. 5 \in Regs /\ 7 \in Regs
    BY DEF Regs
  <2> QED
    BY <2>1, <2>2, <2>3, <2>4, <2>5 DEF Steps, Calm
<1>3. Touched(step) \in SUBSET Regs
  BY DEF Touched, Steps, Calm, W, Note, Read, Regs
<1> QED
  BY <1>1, <1>2, <1>3 DEF Done, Lost, Tuner

LEMMA CalmStep ==
  ASSUME NEW V, NEW t \in Tuner, NEW step \in Calm(V)
  PROVE  Same(t, Done(t, step)) /\ Same(t, Lost(t, step))
<1>1. t.priv \in Priv /\ t.stale \in SUBSET Regs /\ 5 \in Regs /\ 7 \in Regs
  BY DEF Tuner, Regs
<1>2. /\ Store(t.priv, step).input = t.priv.input
      /\ Store(t.priv, step).int_freq = t.priv.int_freq
      /\ Store(t.priv, step).regs[1] = t.priv.regs[1]
      /\ Store(t.priv, step).regs[3] = t.priv.regs[3]
  <2>1. CASE step = Read
    BY <1>1, <2>1 DEF Read, Store
  <2>2. CASE \E v \in Int : step = Note("has_lock", v)
    <3>1. PICK v \in Int : step = Note("has_lock", v)
      BY <2>2
    <3>2. Noted(t.priv, "has_lock", v, Store(t.priv, Note("has_lock", v)))
      BY <1>1, NoteOne
    <3> QED
      BY <3>1, <3>2 DEF Noted
  <2>3. CASE \E r \in Regs \ {5, 7}, v \in V, m \in 0 .. 255 : step = W(r, v, m)
    <3>1. PICK r \in Regs \ {5, 7}, v \in V, m \in 0 .. 255 : step = W(r, v, m)
      BY <2>3
    <3>2. Wrote(t.priv, r, v, m, Store(t.priv, W(r, v, m)))
      BY <1>1, WriteOne
    <3>3. r # 5 /\ r # 7 /\ 5 - 4 = 1 /\ 7 - 4 = 3
      OBVIOUS
    <3> QED
      BY <1>1, <3>1, <3>2, <3>3 DEF Wrote
  <2> QED
    BY <2>1, <2>2, <2>3 DEF Calm
<1>3. 7 \notin Touched(step)
  BY DEF Touched, Calm, W, Note, Read
<1> QED
  BY <1>1, <1>2, <1>3 DEF Done, Lost, Same

-----------------------------------------------------------------------------
(* The course of an operation.                                             *)

Closed(steps) == \A k \in 1 .. Len(steps) : \A u \in Tuner :
                   Done(u, steps[k]) \in Tuner /\ Lost(u, steps[k]) \in Tuner

\* The tuner after each of the steps.
Courses(t, steps) ==
  {h \in [0 .. Len(steps) -> Tuner] :
     h[0] = t /\ \A k \in 1 .. Len(steps) : h[k] = Done(h[k - 1], steps[k])}

LEMMA CourseExists ==
  ASSUME NEW t \in Tuner, NEW A, NEW steps \in Seq(A), Closed(steps)
  PROVE  Courses(t, steps) # {}
<1> DEFINE n == Len(steps)
           next == [ku \in (1 .. n) \X Tuner |-> Done(ku[2], steps[ku[1]])]
<1>1. n \in Nat
  OBVIOUS
<1>2. next \in [(1 .. n) \X Tuner -> Tuner]
  BY DEF Closed
<1>3. PICK h \in [0 .. n -> Tuner] :
        h[0] = t /\ \A k \in 1 .. n : h[k] = next[<<k, h[k - 1]>>]
  <2> HIDE DEF next, n
  <2>1. Solutions(n, Tuner, t, next) # {}
    BY <1>1, <1>2, Recursion
  <2> QED
    BY <2>1 DEF Solutions
<1>4. ASSUME NEW k \in 1 .. n PROVE h[k] = Done(h[k - 1], steps[k])
  <2>1. h[k] = next[<<k, h[k - 1]>>] /\ <<k, h[k - 1]>> \in (1 .. n) \X Tuner
    <3> HIDE DEF next
    <3> QED
      BY <1>1, <1>3
  <2> QED
    BY <2>1
<1> QED
  BY <1>3, <1>4 DEF Courses

LEMMA TraceIs ==
  ASSUME NEW t \in Tuner, NEW A, NEW steps \in Seq(A), NEW h \in Courses(t, steps)
  PROVE  Trace(t, steps) = [j \in 1 .. (Len(steps) + 1) |-> h[j - 1]]
<1> DEFINE n == Len(steps)
           row(k) == [j \in 1 .. (k + 1) |-> h[j - 1]]
           Is(f) == f = [k \in 0 .. n |->
                           IF k = 0 THEN <<t>>
                           ELSE LET before == f[k - 1]
                                IN Append(before, Done(before[k], steps[k]))]
<1>1. n \in Nat /\ h \in [0 .. n -> Tuner] /\ h[0] = t
      /\ \A k \in 1 .. n : h[k] = Done(h[k - 1], steps[k])
  BY DEF Courses
<1>2. row(0) = <<t>>
  BY <1>1
<1>3. ASSUME NEW k \in 1 .. n
      PROVE  row(k) = Append(row(k - 1), Done(row(k - 1)[k], steps[k]))
  <2>1. row(k - 1) \in Seq(Tuner) /\ Len(row(k - 1)) = k /\ row(k - 1)[k] = h[k - 1]
    BY <1>1, SMTT(30)
  <2>2. Append(row(k - 1), h[k]) = row(k)
    BY <1>1, <2>1
  <2> QED
    BY <1>1, <2>1, <2>2
<1> DEFINE rows == [k \in 0 .. n |-> row(k)]
<1>4. Is(rows)
  <2>1. ASSUME NEW k \in 0 .. n
        PROVE  rows[k] = IF k = 0 THEN <<t>>
                         ELSE Append(rows[k - 1], Done(rows[k - 1][k], steps[k]))
    <3>1. CASE k = 0
      BY <1>2, <3>1
    <3>2. CASE k # 0
      <4>1. k \in 1 .. n /\ k - 1 \in 0 .. n /\ rows[k - 1] = row(k - 1) /\ rows[k] = row(k)
        BY <1>1, <3>2
      <4> HIDE DEF rows, row
      <4> QED
        BY <1>3, <3>2, <4>1
    <3> QED
      BY <3>1, <3>2
  <2> QED
    BY <2>1
<1> DEFINE from == CHOOSE f : Is(f)
<1>5. Is(from)
  BY <1>4
<1>6. Trace(t, steps) = from[n]
  BY DEF Trace
<1> DEFINE P == {k \in 0 .. n : from[k] = row(k)}
<1>7. P = 0 .. n
  <2> HIDE DEF from
  <2>1. 0 \in P
    BY <1>1, <1>2, <1>5
  <2>2. ASSUME NEW k \in 1 .. n, k - 1 \in P PROVE k \in P
    <3>1. k \in 0 .. n /\ k # 0 /\ from[k - 1] = row(k - 1)
      BY <1>1, <2>2
    <3>2. from[k] = Append(from[k - 1], Done(from[k - 1][k], steps[k]))
      BY <1>5, <3>1
    <3>3. from[k] = row(k)
      <4> HIDE DEF row
      <4> QED
        BY <1>3, <3>1, <3>2
    <3> QED
      BY <3>1, <3>3
  <2>3. P \in SUBSET (0 .. n)
    OBVIOUS
  <2> HIDE DEF P, n
  <2> QED
    BY <1>1, <2>1, <2>2, <2>3, Reaches
<1>8. n \in P
  <2> HIDE DEF P, n
  <2> QED
    BY <1>1, <1>7
<1> QED
  BY <1>6, <1>8

(***************************************************************************)
(* Where an operation ends: among the tuners S[k] reached by k of its      *)
(* steps, when all are done, and among E when one fails.                   *)
(***************************************************************************)
Leads(steps, S, E) ==
  \A k \in 1 .. Len(steps) : \A u \in S[k - 1] \cap Tuner :
    /\ Done(u, steps[k]) \in S[k]
    /\ steps[k].kind # "note" => Lost(u, steps[k]) \in E
Ended(o, good, bad, result) ==
  /\ o = [after |-> o.after, rc |-> o.rc, lost |-> o.lost]
  /\ \/ o.after \in good \cap Tuner /\ o.rc = result /\ o.lost = 0
     \/ o.after \in bad /\ o.rc = -1 /\ o.lost = 1

LEMMA Ending ==
  ASSUME NEW t \in Tuner, NEW A, NEW steps \in Seq(A), Closed(steps),
         NEW S, t \in S[0], NEW E, Leads(steps, S, E),
         NEW result, NEW o \in Outcomes(t, steps, result)
  PROVE  Ended(o, S[Len(steps)], E, result)
<1> DEFINE n == Len(steps)
<1>1. PICK h \in Courses(t, steps) : TRUE
  BY CourseExists
<1>2. n \in Nat /\ h \in [0 .. n -> Tuner] /\ h[0] = t
      /\ \A k \in 1 .. n : h[k] = Done(h[k - 1], steps[k])
  BY DEF Courses
<1>3. Trace(t, steps) = [j \in 1 .. (n + 1) |-> h[j - 1]]
  BY TraceIs
<1> DEFINE P == {k \in 0 .. n : h[k] \in S[k]}
<1>4. P = 0 .. n
  <2>1. 0 \in P
    BY <1>2
  <2>2. ASSUME NEW k \in 1 .. n, k - 1 \in P PROVE k \in P
    <3>1. k - 1 \in 0 .. n /\ h[k - 1] \in S[k - 1] \cap Tuner /\ h[k] = Done(h[k - 1], steps[k])
      BY <1>2, <2>2
    <3> QED
      BY <1>2, <3>1 DEF Leads
  <2>3. P \in SUBSET (0 .. n)
    OBVIOUS
  <2> HIDE DEF P, n
  <2> QED
    BY <1>2, <2>1, <2>2, <2>3, Reaches
<1>5. Len(Trace(t, steps)) = n + 1 /\ Trace(t, steps)[n + 1] = h[n]
      /\ \A k \in 1 .. n : Trace(t, steps)[k] = h[k - 1]
  BY <1>2, <1>3
<1>6. CASE o = [after |-> h[n], rc |-> result, lost |-> 0]
  BY <1>2, <1>4, <1>6 DEF Ended
<1>7. CASE \E k \in 1 .. n : /\ steps[k].kind # "note"
                             /\ o = [after |-> Lost(h[k - 1], steps[k]), rc |-> -1, lost |-> 1]
  <2>1. PICK k \in 1 .. n : /\ steps[k].kind # "note"
                            /\ o = [after |-> Lost(h[k - 1], steps[k]), rc |-> -1, lost |-> 1]
    BY <1>7
  <2>2. k - 1 \in P /\ h[k - 1] \in S[k - 1] \cap Tuner
    BY <1>2, <1>4
  <2> QED
    BY <2>1, <2>2 DEF Leads, Ended
<1> QED
  <2>1. DOMAIN steps = 1 .. n
    OBVIOUS
  <2> HIDE DEF n
  <2> QED
    BY <1>5, <1>6, <1>7, <2>1 DEF Outcomes

-----------------------------------------------------------------------------
(* What the steps of each operation are.                                   *)

LEMMA WIsCalm ==
  ASSUME NEW V, NEW r \in Regs \ {5, 7}, NEW v \in V, NEW m \in 0 .. 255
  PROVE  W(r, v, m) \in Calm(V)
BY DEF Calm

LEMMA WIsStep ==
  ASSUME NEW V, NEW r \in Regs, NEW v \in V, NEW m \in 0 .. 255
  PROVE  W(r, v, m) \in Steps(V)
BY DEF Steps, Calm

LEMMA OthersAreCalm ==
  ASSUME NEW V
  PROVE  Read \in Calm(V) /\ \A v \in Int : Note("has_lock", v) \in Calm(V)
BY DEF Calm

LEMMA Wider ==
  ASSUME NEW V, NEW U, V \subseteq U
  PROVE  Calm(V) \subseteq Calm(U) /\ Calm(U) \subseteq Steps(U)
BY DEF Calm, Steps

LEMMA SeqWider ==
  ASSUME NEW A, NEW B, A \subseteq B, NEW s \in Seq(A)
  PROVE  s \in Seq(B)
OBVIOUS

LEMMA SeqElement ==
  ASSUME NEW A, NEW s \in Seq(A), NEW k \in 1 .. Len(s)
  PROVE  s[k] \in A
OBVIOUS

LEMMA SeqIsFunction ==
  ASSUME NEW A, NEW s \in Seq(A)
  PROVE  s \in [1 .. Len(s) -> A]
OBVIOUS

\* One sequence after another.
Joins(A, s, u) ==
  /\ s \o u \in Seq(A) /\ Len(s \o u) = Len(s) + Len(u) /\ Len(s) \in Nat /\ Len(u) \in Nat
  /\ \A k \in 1 .. Len(s) : (s \o u)[k] = s[k]
  /\ \A k \in 1 .. Len(u) : (s \o u)[Len(s) + k] = u[k]

LEMMA Join ==
  ASSUME NEW A, NEW s \in Seq(A), NEW u \in Seq(A)
  PROVE  Joins(A, s, u)
BY DEF Joins

LEMMA MuxIsCalm ==
  ASSUME NEW freq
  PROVE  \E V : SetMux(freq) \in Seq(Calm(V))
<1> DEFINE V == {0, Range(freq)[2], Range(freq)[3], Range(freq)[4]}
           C == Calm(V)
<1>1. /\ W(\h17, Range(freq)[2], \h08) \in C /\ W(\h1a, Range(freq)[3], \hc3) \in C
      /\ W(\h1b, Range(freq)[4], All) \in C /\ W(\h10, 0, \h0b) \in C
      /\ W(\h08, 0, \h3f) \in C /\ W(\h09, 0, \h3f) \in C
  BY WIsCalm DEF All, Regs
<1> HIDE DEF C
<1>2. SetMux(freq) \in Seq(C)
  BY <1>1 DEF SetMux
<1> QED
  BY <1>2 DEF C

LEMMA PllIsCalm ==
  ASSUME NEW freq, NEW fine, NEW lock
  PROVE  \E V : SetPll(freq, fine, lock).steps \in Seq(Calm(V))
<1> DEFINE vco == freq * MixDiv(freq)
           nint == (vco \div (2 * cfg.pll_ref)) % 256
           vco_fra == vco - 2 * cfg.pll_ref * nint
           sdm == Sdm(vco_fra)
           a == 32 * FineTuned(DivNum(MixDiv(freq)), fine)
           b == (Ni(nint) + 64 * Si(nint)) % 256
           c == IF vco_fra = 0 THEN 8 ELSE 0
           d == sdm \div 256
           e == sdm % 256
           V == {0, \h80, \h60, 8, a, b, c, d, e}
           C == Calm(V)
           begin == << W(\h10, 0, \h10), W(\h1a, 0, \h0c), W(\h12, \h80, \he0), Read,
                       W(\h10, a, \he0) >>
           set == << W(\h14, b, All), W(\h12, c, 8), W(\h16, d, All), W(\h15, e, All), Read >>
           again == IF lock = "first" THEN <<>> ELSE << W(\h12, \h60, \he0), Read >>
           end == IF lock = "no" THEN << Note("has_lock", 0) >>
                  ELSE << Note("has_lock", 1), W(\h1a, 8, 8) >>
           valid == nint <= (128 \div VcoPowerRef) - 1
<1>1. SetPll(freq, fine, lock).steps = begin \o (IF valid THEN set \o again \o end ELSE <<>>)
  BY DEF SetPll
<1> HIDE DEF vco, nint, vco_fra, sdm, a, b, c, d, e, valid
<1>2. /\ Read \in C /\ Note("has_lock", 0) \in C /\ Note("has_lock", 1) \in C
  BY OthersAreCalm
<1>3. /\ W(\h10, 0, \h10) \in C /\ W(\h1a, 0, \h0c) \in C /\ W(\h12, \h80, \he0) \in C
      /\ W(\h10, a, \he0) \in C
  BY WIsCalm DEF Regs
<1>4. /\ W(\h14, b, All) \in C /\ W(\h12, c, 8) \in C /\ W(\h16, d, All) \in C
      /\ W(\h15, e, All) \in C
  BY WIsCalm DEF All, Regs
<1>5. W(\h12, \h60, \he0) \in C /\ W(\h1a, 8, 8) \in C
  BY WIsCalm DEF Regs
<1> HIDE DEF C
<1>6. begin \in Seq(C) /\ set \in Seq(C)
  BY <1>2, <1>3, <1>4
<1>7. again \in Seq(C) /\ end \in Seq(C)
  BY <1>2, <1>5
<1> HIDE DEF begin, set, again, end
<1>8. SetPll(freq, fine, lock).steps \in Seq(C)
  BY <1>1, <1>6, <1>7
<1> QED
  BY <1>8 DEF C

LEMMA AllClosed ==
  ASSUME NEW V, NEW steps \in Seq(Steps(V))
  PROVE  Closed(steps)
<1>1. \A k \in 1 .. Len(steps) : steps[k] \in Steps(V)
  OBVIOUS
<1> QED
  BY <1>1, StepTyped DEF Closed

LEMMA TypedEnding ==
  ASSUME NEW V, NEW t \in Tuner, NEW steps \in Seq(Steps(V)),
         NEW result, NEW o \in Outcomes(t, steps, result)
  PROVE  Ended(o, Tuner, Tuner, result)
<1> DEFINE S == [k \in Nat |-> Tuner]
<1>1. \A k \in 1 .. Len(steps) : steps[k] \in Steps(V)
  OBVIOUS
<1>2. Leads(steps, S, Tuner)
  BY <1>1, StepTyped DEF Leads
<1>3. Closed(steps)
  BY AllClosed
<1>4. t \in S[0] /\ S[Len(steps)] = Tuner
  OBVIOUS
<1> HIDE DEF S
<1>5. Ended(o, S[Len(steps)], Tuner, result)
  BY <1>2, <1>3, <1>4, Ending
<1> QED
  BY <1>4, <1>5

(***************************************************************************)
(* What one step makes true and none after it undoes holds at the end.     *)
(***************************************************************************)
LEMMA Lasting ==
  ASSUME NEW t \in Tuner, NEW A, NEW steps \in Seq(A), Closed(steps),
         NEW G \in SUBSET Tuner, NEW j \in 1 .. Len(steps),
         \A u \in Tuner : Done(u, steps[j]) \in G,
         \A k \in (j + 1) .. Len(steps) : \A u \in G : Done(u, steps[k]) \in G,
         NEW result, NEW o \in Outcomes(t, steps, result)
  PROVE  Ended(o, G, Tuner, result)
<1> DEFINE n == Len(steps)
           S == [k \in Nat |-> IF k < j THEN Tuner ELSE G]
<1>1. n \in Nat /\ j \in 1 .. n
  OBVIOUS
<1>2. /\ \A k \in 0 .. n : k < j => S[k] = Tuner
      /\ \A k \in 0 .. n : k >= j => S[k] = G
  BY <1>1
<1> HIDE DEF S
<1>3. Leads(steps, S, Tuner)
  <2> SUFFICES ASSUME NEW k \in 1 .. n, NEW u \in S[k - 1] \cap Tuner
               PROVE  Done(u, steps[k]) \in S[k] /\ Lost(u, steps[k]) \in Tuner
    BY DEF Leads
  <2>1. Done(u, steps[k]) \in Tuner /\ Lost(u, steps[k]) \in Tuner
    BY DEF Closed
  <2>2. k \in 0 .. n /\ k - 1 \in 0 .. n
    BY <1>1
  <2>3. CASE k < j
    <3>1. S[k] = Tuner
      BY <1>2, <2>2, <2>3
    <3> QED
      BY <2>1, <3>1
  <2>4. CASE k = j
    <3>1. S[k] = G
      BY <1>1, <1>2, <2>2, <2>4
    <3> QED
      BY <2>1, <2>4, <3>1
  <2>5. CASE k > j
    <3>1. S[k] = G /\ S[k - 1] = G /\ k \in (j + 1) .. n
      BY <1>1, <1>2, <2>2, <2>5
    <3> QED
      BY <2>1, <3>1
  <2> QED
    BY <1>1, <2>3, <2>4, <2>5
<1>4. S[0] = Tuner /\ S[n] = G
  BY <1>1, <1>2
<1>5. Ended(o, S[n], Tuner, result)
  BY <1>3, <1>4, Ending
<1> QED
  BY <1>4, <1>5

LEMMA CalmEnding ==
  ASSUME NEW V, NEW t \in Tuner, NEW steps \in Seq(Calm(V)),
         NEW result, NEW o \in Outcomes(t, steps, result)
  PROVE  Ended(o, {u \in Tuner : Same(t, u)}, {u \in Tuner : Same(t, u)}, result)
<1> DEFINE Like == {u \in Tuner : Same(t, u)}
           S == [k \in Nat |-> Like]
<1>1. \A k \in 1 .. Len(steps) : steps[k] \in Calm(V) /\ steps[k] \in Steps(V)
  BY Wider
<1>2. Leads(steps, S, Like)
  <2> SUFFICES ASSUME NEW k \in 1 .. Len(steps), NEW u \in Like
               PROVE  Done(u, steps[k]) \in Like /\ Lost(u, steps[k]) \in Like
    BY DEF Leads
  <2>1. Done(u, steps[k]) \in Tuner /\ Lost(u, steps[k]) \in Tuner
    BY <1>1, StepTyped
  <2>2. Same(u, Done(u, steps[k])) /\ Same(u, Lost(u, steps[k])) /\ Same(t, u)
    BY <1>1, CalmStep
  <2> QED
    BY <2>1, <2>2 DEF Same
<1>3. Closed(steps)
  <2>1. steps \in Seq(Steps(V))
    BY Wider, SeqWider
  <2> QED
    BY <2>1, AllClosed
<1>4. t \in S[0] /\ S[Len(steps)] = Like
  BY DEF Same
<1> HIDE DEF S, Like
<1>5. Ended(o, S[Len(steps)], Like, result)
  BY <1>2, <1>3, <1>4, Ending
<1> QED
  BY <1>4, <1>5 DEF Like

\* What the note and the write of an input make of t.
Turned(t, u, v) ==
  /\ u.priv.int_freq = t.priv.int_freq
  /\ u.priv.input = v /\ u.priv.regs[1] \cap {5, 6} = Bits(v)
  /\ u.priv.regs[1] \ {5, 6} = t.priv.regs[1] \ {5, 6}
  /\ u.priv.regs[3] = t.priv.regs[3]
  /\ 7 \in u.stale <=> 7 \in t.stale

LEMMA TurnStep ==
  ASSUME NEW t \in Tuner, NEW v \in {0, \h60}
  PROVE  LET noted == Done(t, Note("input", v))
         IN  /\ noted \in Tuner /\ Done(noted, W(5, v, \h60)) \in Tuner
             /\ Lost(noted, W(5, v, \h60)) \in Tuner
             /\ Turned(t, Done(noted, W(5, v, \h60)), v)
             /\ Turned(t, Lost(noted, W(5, v, \h60)), v)
<1> DEFINE noted == Done(t, Note("input", v))
           p == noted.priv
<1>1. t.priv \in Priv /\ t.stale \in SUBSET Regs /\ 5 \in Regs /\ 7 \in Regs
  BY DEF Tuner, Regs
<1>2. noted = [priv |-> Store(t.priv, Note("input", v)), stale |-> t.stale]
  BY DEF Done, Touched, Note
<1>3. /\ p \in Priv /\ p.input = v /\ p.regs = t.priv.regs /\ noted.stale = t.stale
      /\ p.int_freq = t.priv.int_freq /\ noted \in Tuner
  <2>1. Noted(t.priv, "input", v, Store(t.priv, Note("input", v)))
    BY <1>1, NoteOne
  <2> QED
    BY <1>1, <1>2, <2>1 DEF Tuner, Noted
<1> HIDE DEF p, noted
<1>4. Wrote(p, 5, v, \h60, Store(p, W(5, v, \h60)))
  BY <1>1, <1>3, WriteOne
<1>5. /\ Store(p, W(5, v, \h60)) \in Priv /\ Store(p, W(5, v, \h60)).input = v
      /\ Store(p, W(5, v, \h60)).int_freq = t.priv.int_freq
      /\ Store(p, W(5, v, \h60)).regs[1] = (p.regs[1] \ {5, 6}) \cup (Bits(v) \cap {5, 6})
      /\ Store(p, W(5, v, \h60)).regs[3] = p.regs[3]
  <2>1. 5 - 4 = 1 /\ 7 - 4 = 3 /\ 7 # 5
    OBVIOUS
  <2> QED
    BY <1>1, <1>3, <1>4, <2>1, Masks DEF Wrote
<1>6. /\ Done(noted, W(5, v, \h60)) = [priv |-> Store(p, W(5, v, \h60)), stale |-> t.stale \ {5}]
      /\ Lost(noted, W(5, v, \h60)) = [priv |-> Store(p, W(5, v, \h60)), stale |-> t.stale \cup {5}]
  BY <1>3 DEF Done, Lost, Touched, W, p
<1>7. Bits(v) \subseteq {5, 6}
  BY Masks
<1>8. Done(noted, W(5, v, \h60)) \in Tuner /\ Lost(noted, W(5, v, \h60)) \in Tuner
  BY <1>1, <1>5, <1>6 DEF Tuner
<1>9. /\ Turned(t, Done(noted, W(5, v, \h60)), v)
      /\ Turned(t, Lost(noted, W(5, v, \h60)), v)
  BY <1>3, <1>5, <1>6, <1>7 DEF Turned
<1> QED
  BY <1>3, <1>8, <1>9 DEF noted, p

LEMMA TurnEnding ==
  ASSUME NEW V, NEW t \in Tuner, NEW pre \in Seq(Calm(V)), NEW v \in {0, \h60},
         NEW result,
         NEW o \in Outcomes(t, pre \o << Note("input", v), W(5, v, \h60) >>, result)
  PROVE  Ended(o, {u \in Tuner : Turned(t, u, v)},
                  {u \in Tuner : Same(t, u) \/ Turned(t, u, v)}, result)
<1> DEFINE note == Note("input", v)
           write == W(5, v, \h60)
           steps == pre \o <<note, write>>
           n == Len(pre)
           Like == {u \in Tuner : Same(t, u)}
           There == {u \in Tuner : Turned(t, u, v)}
           Either == {u \in Tuner : Same(t, u) \/ Turned(t, u, v)}
           S == [k \in Nat |-> IF k <= n THEN Like
                               ELSE IF k = n + 1 THEN {Done(u, note) : u \in Like} ELSE There]
<1>1. note \in Steps(V \cup {v}) /\ write \in Steps(V \cup {v})
  <2>1. note \in {Note("input", w) : w \in {0, \h60}}
    OBVIOUS
  <2>2. write \in Steps(V \cup {v})
    <3>1. v \in V \cup {v} /\ 5 \in Regs /\ \h60 \in 0 .. 255
      BY DEF Regs
    <3> QED
      BY <3>1, WIsStep
  <2> QED
    BY <2>1, <2>2 DEF Steps
<1>2. steps \in Seq(Steps(V \cup {v}))
  <2>1. pre \in Seq(Steps(V \cup {v}))
    <3>1. Calm(V) \subseteq Steps(V \cup {v})
      BY Wider
    <3> QED
      BY <3>1, SeqWider
  <2> HIDE DEF note, write
  <2> QED
    BY <1>1, <2>1
<1>3. /\ n \in Nat /\ Len(steps) = n + 2
      /\ \A k \in 1 .. n : steps[k] = pre[k] /\ pre[k] \in Calm(V)
      /\ steps[n + 1] = note /\ steps[n + 2] = write
  <2> HIDE DEF note, write
  <2> QED
    OBVIOUS
<1>4. note.kind = "note"
  BY DEF Note
<1> HIDE DEF note, write, steps, n
<1>5. /\ \A k \in 0 .. n : S[k] = Like
      /\ S[n + 1] = {Done(u, note) : u \in Like} /\ S[n + 2] = There
  BY <1>3
<1> HIDE DEF S
<1>6. Leads(steps, S, Either)
  <2> SUFFICES ASSUME NEW k \in 1 .. (n + 2), NEW u \in S[k - 1] \cap Tuner
               PROVE  /\ Done(u, steps[k]) \in S[k]
                      /\ steps[k].kind # "note" => Lost(u, steps[k]) \in Either
    BY <1>3 DEF Leads
  <2>1. CASE k \in 1 .. n
    <3>1. u \in Like /\ S[k] = Like /\ steps[k] \in Calm(V) /\ steps[k] \in Steps(V)
      BY <1>3, <1>5, <2>1, Wider
    <3>2. Done(u, steps[k]) \in Tuner /\ Lost(u, steps[k]) \in Tuner
      BY <3>1, StepTyped
    <3>3. Same(u, Done(u, steps[k])) /\ Same(u, Lost(u, steps[k])) /\ Same(t, u)
      BY <3>1, CalmStep
    <3>4. Done(u, steps[k]) \in Like /\ Lost(u, steps[k]) \in Like
      BY <3>2, <3>3 DEF Same
    <3> QED
      BY <3>1, <3>4
  <2>2. CASE k = n + 1
    <3>1. u \in Like
      BY <1>3, <1>5, <2>2
    <3> QED
      BY <1>3, <1>4, <1>5, <2>2, <3>1
  <2>3. CASE k = n + 2
    <3>1. S[k - 1] = {Done(w, note) : w \in Like}
      BY <1>3, <1>5, <2>3
    <3>2. PICK w \in Like : u = Done(w, note)
      BY <3>1
    <3>3. /\ Done(u, write) \in Tuner /\ Lost(u, write) \in Tuner
          /\ Turned(w, Done(u, write), v) /\ Turned(w, Lost(u, write), v)
      BY <3>2, TurnStep DEF note, write
    <3>4. Done(u, write) \in There /\ Lost(u, write) \in There
      BY <3>2, <3>3 DEF Turned, Same
    <3> QED
      BY <1>3, <1>5, <2>3, <3>4
  <2> QED
    BY <1>3, <2>1, <2>2, <2>3
<1>7. Closed(steps)
  BY <1>2, AllClosed
<1>8. t \in S[0] /\ S[Len(steps)] = There
  BY <1>3, <1>5 DEF Same
<1>9. o \in Outcomes(t, steps, result)
  BY DEF steps, note, write
<1> HIDE DEF There, Either, Like
<1>10. Ended(o, S[Len(steps)], Either, result)
  BY <1>2, <1>6, <1>7, <1>8, <1>9, Ending
<1> QED
  BY <1>8, <1>10 DEF There, Either

LEMMA PllSteps ==
  ASSUME NEW freq, NEW fine, NEW lock
  PROVE  \E V : SetPll(freq, fine, lock).steps \in Seq(Steps(V))
<1>1. PICK V : SetPll(freq, fine, lock).steps \in Seq(Calm(V))
  BY PllIsCalm
<1>2. Calm(V) \subseteq Steps(V)
  BY Wider
<1> QED
  BY <1>1, <1>2, SeqWider

LEMMA StepsWider ==
  ASSUME NEW V, NEW U, V \subseteq U
  PROVE  Steps(V) \subseteq Steps(U)
BY DEF Steps, Calm

LEMMA CalSteps ==
  ASSUME NEW fine, NEW lock
  PROVE  \E V : CalPass(fine, lock) \in Seq(Steps(V))
<1> DEFINE pll == SetPll(filt_cal_lo, fine, lock)
           first == << W(\h0b, hp_cor, \h60), W(\h0f, 4, 4), W(\h10, 0, 3) >>
           trigger == << W(\h0b, \h10, \h10), W(\h0b, 0, \h10), W(\h0f, 0, 4), Read >>
           last == IF pll.locked THEN trigger ELSE <<>>
<1>1. PICK V1 : pll.steps \in Seq(Steps(V1))
  BY PllSteps
<1> DEFINE V == V1 \cup {hp_cor, 4, 0, \h10}
           C == Steps(V)
<1>2. pll.steps \in Seq(C)
  <2>1. Steps(V1) \subseteq C
    BY StepsWider
  <2> HIDE DEF C, pll
  <2> QED
    BY <1>1, <2>1, SeqWider
<1>3. /\ W(\h0b, hp_cor, \h60) \in C /\ W(\h0f, 4, 4) \in C /\ W(\h10, 0, 3) \in C
      /\ W(\h0b, \h10, \h10) \in C /\ W(\h0b, 0, \h10) \in C /\ W(\h0f, 0, 4) \in C
  <2>1. hp_cor \in V /\ 4 \in V /\ 0 \in V /\ \h10 \in V
    OBVIOUS
  <2>2. \h0b \in Regs /\ \h0f \in Regs /\ \h10 \in Regs
    BY DEF Regs
  <2> HIDE DEF V
  <2>3. W(\h0b, hp_cor, \h60) \in C /\ W(\h0f, 4, 4) \in C /\ W(\h10, 0, 3) \in C
    BY <2>1, <2>2, WIsStep
  <2>4. W(\h0b, \h10, \h10) \in C /\ W(\h0b, 0, \h10) \in C /\ W(\h0f, 0, 4) \in C
    BY <2>1, <2>2, WIsStep
  <2> QED
    BY <2>3, <2>4
<1>4. Read \in C
  BY DEF Steps, Calm
<1>5. CalPass(fine, lock) = first \o pll.steps \o last
  BY DEF CalPass
<1> HIDE DEF C, pll
<1>6. first \in Seq(C) /\ last \in Seq(C)
  BY <1>3, <1>4
<1> HIDE DEF first, last
<1>7. CalPass(fine, lock) \in Seq(C)
  BY <1>2, <1>5, <1>6
<1> QED
  BY <1>7 DEF C

LEMMA StepKeepsFreq ==
  ASSUME NEW V, NEW u \in Tuner, NEW step \in Steps(V)
  PROVE  Done(u, step).priv.int_freq = u.priv.int_freq
<1>1. u.priv \in Priv /\ Done(u, step).priv = Store(u.priv, step)
  BY DEF Tuner, Done
<1>2. CASE step = Read
  BY <1>1, <1>2 DEF Read, Store
<1>3. CASE \E v \in Int : step = Note("has_lock", v)
  <2>1. PICK v \in Int : step = Note("has_lock", v)
    BY <1>3
  <2>2. Noted(u.priv, "has_lock", v, Store(u.priv, Note("has_lock", v)))
    BY <1>1, NoteOne
  <2> QED
    BY <1>1, <2>1, <2>2 DEF Noted
<1>4. CASE \E v \in {0, \h60} : step = Note("input", v)
  <2>1. PICK v \in {0, \h60} : step = Note("input", v)
    BY <1>4
  <2>2. Noted(u.priv, "input", v, Store(u.priv, Note("input", v)))
    BY <1>1, NoteOne
  <2> QED
    BY <1>1, <2>1, <2>2 DEF Noted
<1>5. CASE \E r \in Regs, v \in V, m \in 0 .. 255 : step = W(r, v, m)
  <2>1. PICK r \in Regs, v \in V, m \in 0 .. 255 : step = W(r, v, m)
    BY <1>5
  <2>2. Wrote(u.priv, r, v, m, Store(u.priv, W(r, v, m)))
    BY <1>1, WriteOne
  <2> QED
    BY <1>1, <2>1, <2>2 DEF Wrote
<1>6. 5 \in Regs /\ 7 \in Regs
  BY DEF Regs
<1> QED
  BY <1>2, <1>3, <1>4, <1>5, <1>6 DEF Steps, Calm

\* The first part of the initialisation notes the intermediate frequency.
LEMMA StandardEnding ==
  ASSUME NEW t \in Tuner, NEW passes, NEW fine, NEW lock,
         NEW o \in Outcomes(t, SetTvStandard(passes, fine, lock), 0)
  PROVE  Ended(o, {u \in Tuner : u.priv.int_freq = 3570}, Tuner, 0)
<1> DEFINE note == Note("int_freq", 3570)
           begin == << W(\h0c, 0, \h0f), W(\h13, 49, \h3f), W(\h1d, 0, \h38), note >>
           c1 == CalPass(fine, "first")
           c2 == CalPass(fine, lock)
           calibrate == IF passes = 1 THEN c2 ELSE c1 \o c2
           code == \h10 + IF passes = 1 THEN 3 ELSE 0
           rest == << W(\h0a, code, \h1f), W(\h0b, hp_cor, \hef), W(7, 0, \h80),
                      W(6, \h10, \h30), W(\h1e, \h60, \h60), W(5, 0, \h80), W(\h1f, 0, \h80),
                      W(\h0f, 0, \h80), W(\h19, \h60, \h60) >>
           end == IF lock = "no" THEN <<>> ELSE rest
           steps == SetTvStandard(passes, fine, lock)
           G == {u \in Tuner : u.priv.int_freq = 3570}
<1>1. PICK V1 : c1 \in Seq(Steps(V1))
  BY CalSteps
<1>2. PICK V2 : c2 \in Seq(Steps(V2))
  BY CalSteps
<1> DEFINE V == V1 \cup V2 \cup {0, 49, code, hp_cor, \h10, \h60}
           A == Steps(V) \cup {note}
<1>3. c1 \in Seq(A) /\ c2 \in Seq(A)
  <2>1. Steps(V1) \subseteq A /\ Steps(V2) \subseteq A
    BY StepsWider
  <2> HIDE DEF A, c1, c2
  <2> QED
    BY <1>1, <1>2, <2>1, SeqWider
<1>4. steps = begin \o calibrate \o end
  BY DEF SetTvStandard
<1> HIDE DEF code, c1, c2, note
<1> DEFINE B == Steps(V)
<1>4a. 0 \in V /\ 49 \in V /\ code \in V /\ hp_cor \in V /\ \h10 \in V /\ \h60 \in V
  OBVIOUS
<1>4b. /\ 5 \in Regs /\ 6 \in Regs /\ 7 \in Regs /\ \h0a \in Regs /\ \h0b \in Regs
       /\ \h0c \in Regs /\ \h0f \in Regs /\ \h13 \in Regs /\ \h19 \in Regs
       /\ \h1d \in Regs /\ \h1e \in Regs /\ \h1f \in Regs
  BY DEF Regs
<1>5. /\ W(\h0c, 0, \h0f) \in A /\ W(\h13, 49, \h3f) \in A /\ W(\h1d, 0, \h38) \in A
      /\ W(\h0a, code, \h1f) \in A /\ W(\h0b, hp_cor, \hef) \in A /\ W(7, 0, \h80) \in A
  <2> HIDE DEF V
  <2>1. /\ W(\h0c, 0, \h0f) \in B /\ W(\h13, 49, \h3f) \in B /\ W(\h1d, 0, \h38) \in B
    BY <1>4a, <1>4b, WIsStep
  <2>2. /\ W(\h0a, code, \h1f) \in B /\ W(\h0b, hp_cor, \hef) \in B /\ W(7, 0, \h80) \in B
    BY <1>4a, <1>4b, WIsStep
  <2> HIDE DEF B
  <2> QED
    BY <2>1, <2>2 DEF B
<1>6. /\ W(6, \h10, \h30) \in A /\ W(\h1e, \h60, \h60) \in A /\ W(5, 0, \h80) \in A
      /\ W(\h1f, 0, \h80) \in A /\ W(\h0f, 0, \h80) \in A /\ W(\h19, \h60, \h60) \in A
  <2> HIDE DEF V
  <2>1. /\ W(6, \h10, \h30) \in B /\ W(\h1e, \h60, \h60) \in B /\ W(5, 0, \h80) \in B
    BY <1>4a, <1>4b, WIsStep
  <2>2. /\ W(\h1f, 0, \h80) \in B /\ W(\h0f, 0, \h80) \in B /\ W(\h19, \h60, \h60) \in B
    BY <1>4a, <1>4b, WIsStep
  <2> HIDE DEF B
  <2> QED
    BY <2>1, <2>2 DEF B
<1>7. note \in A
  OBVIOUS
<1>8. /\ \A u \in Tuner : Done(u, note) \in G /\ Lost(u, note) \in Tuner
      /\ \A x \in A : \A u \in Tuner : Done(u, x) \in Tuner /\ Lost(u, x) \in Tuner
      /\ \A x \in A : \A u \in G : Done(u, x) \in G
  <2>1. ASSUME NEW u \in Tuner PROVE Done(u, note) \in G /\ Lost(u, note) \in Tuner
    <3>1. u.priv \in Priv /\ u.stale \in SUBSET Regs
      BY DEF Tuner
    <3>2. Noted(u.priv, "int_freq", 3570, Store(u.priv, note))
      BY <3>1, NoteOne DEF note
    <3>3. Touched(note) = {}
      BY DEF note, Touched, Note
    <3>4. /\ Done(u, note) = [priv |-> Store(u.priv, note), stale |-> u.stale]
          /\ Lost(u, note) = [priv |-> Store(u.priv, note), stale |-> u.stale]
      BY <3>1, <3>3 DEF Done, Lost
    <3> QED
      BY <3>1, <3>2, <3>4 DEF Noted, Tuner
  <2>2. ASSUME NEW x \in Steps(V), NEW u \in Tuner
        PROVE  /\ Done(u, x) \in Tuner /\ Lost(u, x) \in Tuner
               /\ Done(u, x).priv.int_freq = u.priv.int_freq
    <3> HIDE DEF V
    <3> QED
      BY StepTyped, StepKeepsFreq
  <2> HIDE DEF V
  <2> QED
    BY <2>1, <2>2
<1> HIDE DEF A, G
<1>9. begin \in Seq(A) /\ rest \in Seq(A) /\ Len(begin) = 4 /\ begin[4] = note
  BY <1>5, <1>6, <1>7
<1> HIDE DEF rest
<1>10. calibrate \in Seq(A) /\ end \in Seq(A)
  BY <1>3, <1>9
<1> HIDE DEF begin, calibrate, end
<1>11. steps \in Seq(A) /\ 4 \in 1 .. Len(steps) /\ steps[4] = note
  <2> DEFINE first == begin \o calibrate
  <2>1. Joins(A, begin, calibrate)
    BY <1>9, <1>10, Join
  <2>2. first \in Seq(A) /\ 4 \in 1 .. Len(first) /\ first[4] = note
    BY <1>9, <2>1 DEF Joins
  <2>3. steps = first \o end
    BY <1>4
  <2> HIDE DEF first, steps
  <2>4. Joins(A, first, end)
    BY <1>10, <2>2, Join
  <2> QED
    BY <2>2, <2>3, <2>4 DEF Joins
<1> HIDE DEF steps
<1>12. \A k \in 1 .. Len(steps) : steps[k] \in A
  BY <1>11, SeqElement
<1>13. Closed(steps)
  BY <1>8, <1>12 DEF Closed
<1>14. /\ \A u \in Tuner : Done(u, steps[4]) \in G
       /\ \A k \in (4 + 1) .. Len(steps) : \A u \in G : Done(u, steps[k]) \in G
  BY <1>8, <1>11, <1>12
<1>15. G \in SUBSET Tuner /\ o \in Outcomes(t, steps, 0)
  BY DEF G, steps
<1>16. Ended(o, G, Tuner, 0)
  BY <1>11, <1>13, <1>14, <1>15, Lasting
<1> QED
  BY <1>16 DEF G

\* After the second part of the initialisation, the input is the first; what
\* was noted of the intermediate frequency stays.
Zeroed(t, u) == /\ u.priv.int_freq = t.priv.int_freq
                /\ u.priv.input = 0 /\ u.priv.regs[1] \cap {5, 6} = {}

LEMMA SysfreqEnding ==
  ASSUME NEW t \in Tuner, NEW result, NEW o \in Outcomes(t, SysfreqSel, result)
  PROVE  Ended(o, {u \in Tuner : Zeroed(t, u)}, Tuner, result)
<1> DEFINE V == {0, \he5, \h24, \h53, \h75, \h38, \h30, \h40, \h18, 14, \h20}
           steps == SysfreqSel
           Good == {u \in Tuner : Zeroed(t, u)}
           Like == {u \in Tuner : u.priv.int_freq = t.priv.int_freq}
           S == [k \in Nat |-> IF k < 5 THEN Like
                               ELSE IF k = 5 THEN {Done(u, Note("input", 0)) : u \in Like}
                               ELSE Good]
<1>1. /\ W(\h1d, \he5, \hc7) \in Calm(V) /\ W(\h1c, \h24, \hf8) \in Calm(V)
      /\ W(\h0d, \h53, All) \in Calm(V) /\ W(\h0e, \h75, All) \in Calm(V)
      /\ W(6, 0, 8) \in Calm(V) /\ W(\h11, \h38, \h38) \in Calm(V)
  BY WIsCalm DEF Regs, All
<1>2. /\ W(\h17, \h30, \h30) \in Calm(V) /\ W(\h0a, \h40, \h60) \in Calm(V)
      /\ W(\h1d, 0, \h38) \in Calm(V) /\ W(\h1c, 0, 4) \in Calm(V) /\ W(6, 0, \h40) \in Calm(V)
      /\ W(\h1a, \h30, \h30) \in Calm(V)
  BY WIsCalm DEF Regs
<1>3. /\ W(\h1d, \h18, \h38) \in Calm(V) /\ W(\h1c, \h24, 4) \in Calm(V)
      /\ W(\h1e, 14, \h1f) \in Calm(V) /\ W(\h1a, \h20, \h30) \in Calm(V)
  BY WIsCalm DEF Regs
<1>4. Note("input", 0) \in Steps(V) /\ W(5, 0, \h60) \in Steps(V)
  <2>1. Note("input", 0) \in {Note("input", w) : w \in {0, \h60}}
    OBVIOUS
  <2>2. W(5, 0, \h60) \in Steps(V)
    BY WIsStep DEF Regs
  <2> QED
    BY <2>1, <2>2 DEF Steps
<1>5. Calm(V) \subseteq Steps(V)
  BY Wider
<1> HIDE DEF V
<1>6. /\ Len(steps) = 18 /\ steps \in Seq(Steps(V))
      /\ steps[5] = Note("input", 0) /\ steps[6] = W(5, 0, \h60)
      /\ \A k \in (1 .. 4) \cup (7 .. 18) : steps[k] \in Calm(V)
  BY <1>1, <1>2, <1>3, <1>4, <1>5 DEF SysfreqSel
<1> HIDE DEF steps
<1>7. \A k \in 1 .. 18 : steps[k] \in Steps(V)
  BY <1>6, SeqElement
<1>8. /\ \A k \in 0 .. 4 : S[k] = Like
      /\ S[5] = {Done(u, Note("input", 0)) : u \in Like}
      /\ \A k \in 6 .. 18 : S[k] = Good
  OBVIOUS
<1> HIDE DEF S
<1>9. Leads(steps, S, Tuner)
  <2> SUFFICES ASSUME NEW k \in 1 .. 18, NEW u \in S[k - 1] \cap Tuner
               PROVE  Done(u, steps[k]) \in S[k] /\ Lost(u, steps[k]) \in Tuner
    BY <1>6 DEF Leads
  <2>1. Done(u, steps[k]) \in Tuner /\ Lost(u, steps[k]) \in Tuner
    BY <1>7, StepTyped
  <2>2. CASE k \in 1 .. 4
    <3>1. k \in 0 .. 4 /\ k - 1 \in 0 .. 4
      BY <2>2
    <3>2. u \in Like /\ S[k] = Like /\ steps[k] \in Calm(V)
      BY <1>6, <1>8, <2>2, <3>1
    <3>3. Same(u, Done(u, steps[k]))
      BY <3>2, CalmStep
    <3> QED
      BY <2>1, <3>2, <3>3 DEF Same
  <2>3. CASE k = 5
    BY <1>6, <1>8, <2>1, <2>3
  <2>4. CASE k = 6
    <3>1. S[k - 1] = {Done(w, Note("input", 0)) : w \in Like} /\ S[k] = Good
      BY <1>8, <2>4
    <3>2. PICK w \in Like : u = Done(w, Note("input", 0))
      BY <3>1
    <3>3. Turned(w, Done(u, W(5, 0, \h60)), 0)
      BY <3>2, TurnStep
    <3>4. Zeroed(t, Done(u, W(5, 0, \h60)))
      BY <3>2, <3>3, Masks DEF Turned, Zeroed
    <3> QED
      BY <1>6, <2>1, <2>4, <3>1, <3>4
  <2>5. CASE k \in 7 .. 18
    <3>1. u \in Good /\ S[k] = Good /\ steps[k] \in Calm(V)
      <4>1. k \in 6 .. 18 /\ k - 1 \in 6 .. 18 /\ steps[k] \in Calm(V)
        BY <1>6, <2>5
      <4> QED
        BY <1>8, <4>1
    <3>2. Same(u, Done(u, steps[k]))
      BY <3>1, CalmStep
    <3>3. Zeroed(t, Done(u, steps[k]))
      BY <3>1, <3>2 DEF Zeroed, Same
    <3> QED
      BY <2>1, <3>1, <3>3
  <2> QED
    BY <2>1, <2>2, <2>3, <2>4, <2>5
<1>10. Closed(steps)
  BY <1>6, AllClosed
<1>11. t \in S[0] /\ S[Len(steps)] = Good
  BY <1>6, <1>8
<1>12. o \in Outcomes(t, steps, result)
  BY DEF steps
<1> HIDE DEF Good
<1>13. Ended(o, S[Len(steps)], Tuner, result)
  BY <1>6, <1>9, <1>10, <1>11, <1>12, Ending
<1> QED
  BY <1>11, <1>13 DEF Good

\* What the write of register r makes of u.
Written(u, r, v, m, w) ==
  /\ w \in Tuner /\ w.priv.input = u.priv.input /\ w.priv.int_freq = u.priv.int_freq
  /\ w.priv.has_lock = u.priv.has_lock
  /\ w.priv.regs[r - 4] = (u.priv.regs[r - 4] \ Bits(m)) \cup (Bits(v) \cap Bits(m))
  /\ \A x \in Regs : x # r => w.priv.regs[x - 4] = u.priv.regs[x - 4]

LEMMA WriteStep ==
  ASSUME NEW u \in Tuner, NEW r \in Regs, NEW v, NEW m \in 0 .. 255
  PROVE  /\ Written(u, r, v, m, Done(u, W(r, v, m)))
         /\ Written(u, r, v, m, Lost(u, W(r, v, m)))
         /\ Done(u, W(r, v, m)).stale = u.stale \ {r}
<1> DEFINE p == Store(u.priv, W(r, v, m))
<1>1. u.priv \in Priv /\ u.stale \in SUBSET Regs
  BY DEF Tuner
<1>2. Wrote(u.priv, r, v, m, p)
  BY <1>1, WriteOne
<1>3. /\ Done(u, W(r, v, m)) = [priv |-> p, stale |-> u.stale \ {r}]
      /\ Lost(u, W(r, v, m)) = [priv |-> p, stale |-> u.stale \cup {r}]
  BY DEF Done, Lost, Touched, W
<1> HIDE DEF p
<1> QED
  BY <1>1, <1>2, <1>3 DEF Wrote, Written, Tuner

\* Steps that leave the input and the bits that choose it alone.
KeepsInput(t, u) ==
  /\ u.priv.input = t.priv.input /\ u.priv.int_freq = t.priv.int_freq
  /\ u.priv.regs[1] \cap {5, 6} = t.priv.regs[1] \cap {5, 6}
Mild(V) == {Read} \cup {W(r, v, m) : r \in Regs \ {5}, v \in V, m \in 0 .. 255}
           \cup {W(5, v, m) : v \in V, m \in {\h10, \h0f}}

LEMMA MildStep ==
  ASSUME NEW V, NEW u \in Tuner, NEW step \in Mild(V)
  PROVE  /\ Done(u, step) \in Tuner /\ Lost(u, step) \in Tuner
         /\ KeepsInput(u, Done(u, step)) /\ KeepsInput(u, Lost(u, step))
<1>1. CASE step = Read
  BY <1>1 DEF Read, Done, Lost, Store, Touched, KeepsInput, Tuner
<1>2. CASE \E r \in Regs \ {5}, v \in V, m \in 0 .. 255 : step = W(r, v, m)
  <2>1. PICK r \in Regs \ {5}, v \in V, m \in 0 .. 255 : step = W(r, v, m)
    BY <1>2
  <2>2. Written(u, r, v, m, Done(u, step)) /\ Written(u, r, v, m, Lost(u, step))
    BY <2>1, WriteStep
  <2>3. 5 \in Regs /\ 5 # r /\ 5 - 4 = 1
    BY DEF Regs
  <2> QED
    BY <2>2, <2>3 DEF Written, KeepsInput
<1>3. CASE \E v \in V, m \in {\h10, \h0f} : step = W(5, v, m)
  <2>1. PICK v \in V, m \in {\h10, \h0f} : step = W(5, v, m)
    BY <1>3
  <2>2. 5 \in Regs /\ m \in 0 .. 255 /\ 5 - 4 = 1
    BY DEF Regs
  <2>3. Written(u, 5, v, m, Done(u, step)) /\ Written(u, 5, v, m, Lost(u, step))
    BY <2>1, <2>2, WriteStep
  <2>4. Bits(m) \cap {5, 6} = {}
    BY Masks
  <2> QED
    BY <2>2, <2>3, <2>4 DEF Written, KeepsInput
<1> QED
  BY <1>1, <1>2, <1>3 DEF Mild

LEMMA MildIsStep == \A V : Mild(V) \subseteq Steps(V)
<1> SUFFICES ASSUME NEW V PROVE Mild(V) \subseteq Steps(V)
  OBVIOUS
<1>1. Read \in Steps(V)
  BY DEF Steps, Calm
<1>2. \A r \in Regs, v \in V, m \in 0 .. 255 : W(r, v, m) \in Steps(V)
  BY WIsStep
<1>3. 5 \in Regs /\ \h10 \in 0 .. 255 /\ \h0f \in 0 .. 255
  BY DEF Regs
<1> QED
  BY <1>1, <1>2, <1>3 DEF Mild

LEMMA MildEnding ==
  ASSUME NEW V, NEW t \in Tuner, NEW steps \in Seq(Mild(V)),
         NEW result, NEW o \in Outcomes(t, steps, result)
  PROVE  Ended(o, {u \in Tuner : KeepsInput(t, u)}, {u \in Tuner : KeepsInput(t, u)}, result)
<1> DEFINE Like == {u \in Tuner : KeepsInput(t, u)}
           S == [k \in Nat |-> Like]
<1>1. \A k \in 1 .. Len(steps) : steps[k] \in Mild(V)
  OBVIOUS
<1>2. Leads(steps, S, Like)
  <2> SUFFICES ASSUME NEW k \in 1 .. Len(steps), NEW u \in Like
               PROVE  Done(u, steps[k]) \in Like /\ Lost(u, steps[k]) \in Like
    BY DEF Leads
  <2>1. /\ Done(u, steps[k]) \in Tuner /\ Lost(u, steps[k]) \in Tuner
        /\ KeepsInput(u, Done(u, steps[k])) /\ KeepsInput(u, Lost(u, steps[k]))
    BY <1>1, MildStep
  <2> QED
    BY <2>1 DEF KeepsInput
<1>3. Closed(steps)
  <2>1. steps \in Seq(Steps(V))
    BY MildIsStep, SeqWider
  <2> QED
    BY <2>1, AllClosed
<1>4. t \in S[0] /\ S[Len(steps)] = Like
  BY DEF KeepsInput
<1> HIDE DEF S, Like
<1>5. Ended(o, S[Len(steps)], Like, result)
  BY <1>2, <1>3, <1>4, Ending
<1> QED
  BY <1>4, <1>5 DEF Like

\* The steps of a gain set by hand, l and m the stages' positions.
Manual(l, m) == << W(5, \h10, \h10), W(7, 0, \h10), Read, W(\h0c, 8, \h9f),
                   W(5, l, \h0f), W(7, m, \h0f) >>
Low == {0, 1, 2, 3}
Positions(u, l, m) ==
  /\ 4 \in u.priv.regs[1] /\ u.priv.regs[1] \cap Low = Bits(l) \cap Low
  /\ 4 \notin u.priv.regs[3] /\ u.priv.regs[3] \cap Low = Bits(m) \cap Low
  /\ 7 \notin u.stale

LEMMA ManualEnding ==
  ASSUME NEW t \in Tuner, NEW l, NEW m, NEW o \in Outcomes(t, Manual(l, m), 0)
  PROVE  Ended(o, {u \in Tuner : KeepsInput(t, u) /\ Positions(u, l, m)},
                  {u \in Tuner : KeepsInput(t, u)}, 0)
<1> DEFINE V == {\h10, 0, 8, l, m}
           q == Manual(l, m)
           Like == {u \in Tuner : KeepsInput(t, u)}
           First(u) == 4 \in u.priv.regs[1]
           Both(u) == First(u) /\ 4 \notin u.priv.regs[3]
           Lna(u) == Both(u) /\ u.priv.regs[1] \cap Low = Bits(l) \cap Low
           S == [k \in Nat |-> {u \in Like : /\ k >= 1 => First(u)
                                             /\ k >= 2 => Both(u)
                                             /\ k >= 5 => Lna(u)
                                             /\ k >= 6 => Positions(u, l, m)}]
<1>1. /\ W(5, \h10, \h10) \in Mild(V) /\ W(7, 0, \h10) \in Mild(V) /\ Read \in Mild(V)
      /\ W(\h0c, 8, \h9f) \in Mild(V) /\ W(5, l, \h0f) \in Mild(V) /\ W(7, m, \h0f) \in Mild(V)
  <2>1. \A r \in Regs \ {5}, v \in V, n \in 0 .. 255 : W(r, v, n) \in Mild(V)
    BY DEF Mild
  <2>2. \A v \in V, n \in {\h10, \h0f} : W(5, v, n) \in Mild(V)
    BY DEF Mild
  <2>3. Read \in Mild(V) /\ 7 \in Regs \ {5} /\ \h0c \in Regs \ {5}
    BY DEF Mild, Regs
  <2>4. \h10 \in V /\ 0 \in V /\ 8 \in V /\ l \in V /\ m \in V
    OBVIOUS
  <2>5. \h10 \in 0 .. 255 /\ \h9f \in 0 .. 255 /\ \h0f \in 0 .. 255
    OBVIOUS
  <2> HIDE DEF V
  <2>6. W(5, \h10, \h10) \in Mild(V) /\ W(5, l, \h0f) \in Mild(V)
    BY <2>2, <2>4
  <2>7. W(7, 0, \h10) \in Mild(V) /\ W(\h0c, 8, \h9f) \in Mild(V) /\ W(7, m, \h0f) \in Mild(V)
    BY <2>1, <2>3, <2>4, <2>5
  <2> QED
    BY <2>3, <2>6, <2>7
<1> HIDE DEF V
<1>2. /\ Len(q) = 6 /\ q \in Seq(Mild(V))
      /\ q[1] = W(5, \h10, \h10) /\ q[2] = W(7, 0, \h10) /\ q[3] = Read
      /\ q[4] = W(\h0c, 8, \h9f) /\ q[5] = W(5, l, \h0f) /\ q[6] = W(7, m, \h0f)
  BY <1>1 DEF Manual
<1>3. \A k \in 1 .. 6 : q[k] \in Mild(V)
  BY <1>2, SeqElement
<1> HIDE DEF q
<1>4. Leads(q, S, Like)
  <2> SUFFICES ASSUME NEW k \in 1 .. 6, NEW u \in S[k - 1] \cap Tuner
               PROVE  Done(u, q[k]) \in S[k] /\ Lost(u, q[k]) \in Like
    BY <1>2 DEF Leads
  <2>1. u \in Like
    OBVIOUS
  <2>2. Done(u, q[k]) \in Like /\ Lost(u, q[k]) \in Like
    <3>1. /\ Done(u, q[k]) \in Tuner /\ Lost(u, q[k]) \in Tuner
          /\ KeepsInput(u, Done(u, q[k])) /\ KeepsInput(u, Lost(u, q[k]))
      BY <1>3, MildStep
    <3> QED
      BY <2>1, <3>1 DEF KeepsInput
  <2>3. 5 \in Regs /\ 7 \in Regs /\ 12 \in Regs /\ 5 - 4 = 1 /\ 7 - 4 = 3
    BY DEF Regs
  <2> DEFINE w == Done(u, q[k])
  <2>4. CASE k = 1
    <3>1. Written(u, 5, \h10, \h10, w)
      BY <1>2, <2>3, <2>4, WriteStep
    <3>2. First(w)
      BY <2>3, <3>1, Masks DEF Written
    <3> QED
      BY <2>2, <2>4, <3>2
  <2>5. CASE k = 2
    <3>1. Written(u, 7, 0, \h10, w) /\ First(u)
      BY <1>2, <2>3, <2>5, WriteStep
    <3>2. Both(w)
      BY <2>3, <3>1, Masks DEF Written
    <3> QED
      BY <2>2, <2>5, <3>2
  <2>6. CASE k = 3
    <3>1. Both(u) /\ w.priv = u.priv
      BY <1>2, <2>6 DEF Done, Store, Read
    <3> QED
      BY <2>2, <2>6, <3>1
  <2>7. CASE k = 4
    <3>1. Written(u, 12, 8, \h9f, w) /\ Both(u)
      BY <1>2, <2>3, <2>7, WriteStep
    <3>2. Both(w)
      BY <2>3, <3>1 DEF Written
    <3> QED
      BY <2>2, <2>7, <3>2
  <2>8. CASE k = 5
    <3>1. Written(u, 5, l, \h0f, w) /\ Both(u)
      BY <1>2, <2>3, <2>8, WriteStep
    <3>2. w.priv.regs[1] = (u.priv.regs[1] \ Low) \cup (Bits(l) \cap Low)
          /\ w.priv.regs[3] = u.priv.regs[3]
      BY <2>3, <3>1, Masks DEF Written, Low
    <3>3. Lna(w)
      BY <3>1, <3>2 DEF Low
    <3> QED
      BY <2>2, <2>8, <3>3
  <2>9. CASE k = 6
    <3>1. Lna(u)
      BY <2>9
    <3>2. q[k] = W(7, m, \h0f) /\ u \in Tuner /\ \h0f \in 0 .. 255
      BY <1>2, <2>9
    <3>3. Written(u, 7, m, \h0f, w) /\ w.stale = u.stale \ {7}
      BY <2>3, <3>2, WriteStep
    <3>4. w.priv.regs[3] = (u.priv.regs[3] \ Low) \cup (Bits(m) \cap Low)
          /\ w.priv.regs[1] = u.priv.regs[1]
      BY <2>3, <3>3, Masks DEF Written, Low
    <3>5. Positions(w, l, m) /\ Lna(w)
      BY <3>1, <3>3, <3>4 DEF Positions, Low
    <3> QED
      BY <2>2, <2>9, <3>5
  <2> QED
    BY <2>2, <2>4, <2>5, <2>6, <2>7, <2>8, <2>9
<1>5. Closed(q)
  <2>1. q \in Seq(Steps(V))
    BY <1>2, MildIsStep, SeqWider
  <2> QED
    BY <2>1, AllClosed
<1>6. t \in S[0] /\ S[Len(q)] \subseteq {u \in Tuner : KeepsInput(t, u) /\ Positions(u, l, m)}
  BY <1>2 DEF KeepsInput
<1>7. o \in Outcomes(t, q, 0)
  BY DEF q
<1> HIDE DEF S, Like
<1>8. Ended(o, S[Len(q)], Like, 0)
  BY <1>2, <1>4, <1>5, <1>6, <1>7, Ending
<1> QED
  BY <1>6, <1>8 DEF Like, Ended

-----------------------------------------------------------------------------
(* The invariant.                                                          *)

BitsFollow == ready = "yes" => priv.regs[1] \cap {5, 6} = Bits(priv.input)
InputWanted == tuned # None /\ cfg.rafael_chip = "R828D" => priv.input = air_cable1_in(tuned)
GainSet == manual # None =>
             Positions(Now, LnaIndex(Turns(manual)), MixIndex(Turns(manual)))
FreqNoted == ready = "yes" => priv.int_freq = 3570
DriverInv == Now \in Tuner /\ BitsFollow /\ InputWanted /\ GainSet /\ FreqNoted

\* An operation that takes its steps leaves the driver as one of their ends.
LEMMA TakesOne ==
  ASSUME NEW steps, NEW result, Takes(steps, result)
  PROVE  \E o \in Outcomes(Now, steps, result) :
           priv' = o.after.priv /\ stale' = o.after.stale /\ rc' = o.rc
BY DEF Takes, Ends

\* What follows for the state, from what follows for the outcomes.
Reached(good, bad, result) ==
  \/ Now' \in good \cap Tuner /\ rc' = result
  \/ Now' \in bad /\ rc' = -1

LEMMA OutcomeReached ==
  ASSUME NEW o, NEW good \in SUBSET Tuner, NEW bad \in SUBSET Tuner, NEW result,
         Ended(o, good, bad, result),
         priv' = o.after.priv, stale' = o.after.stale, rc' = o.rc
  PROVE  Reached(good, bad, result)
<1>1. o.after \in Tuner
  BY DEF Ended
<1>2. Now' = o.after
  BY <1>1 DEF Now, Tuner
<1> QED
  BY <1>2 DEF Ended, Reached

\* Retuning moves the input, or leaves it and the gain alone.
LEMMA SetFreqReaches ==
  ASSUME DriverInv, NEW freq, NEW fine, NEW lock, NEW lo_freq, NEW result,
         NEW moves \in BOOLEAN,
         Takes(SetMux(lo_freq) \o SetPll(lo_freq, fine, lock).steps
                 \o (IF ~moves THEN <<>>
                     ELSE << Note("input", air_cable1_in(freq)),
                             W(5, air_cable1_in(freq), \h60) >>),
               result)
  PROVE  /\ ~moves => Reached({u \in Tuner : Same(Now, u)}, {u \in Tuner : Same(Now, u)}, result)
         /\ moves  => Reached({u \in Tuner : Turned(Now, u, air_cable1_in(freq))},
                              {u \in Tuner : \/ Same(Now, u)
                                             \/ Turned(Now, u, air_cable1_in(freq))}, result)
<1> DEFINE v == air_cable1_in(freq)
           mux == SetMux(lo_freq)
           pll == SetPll(lo_freq, fine, lock).steps
           pre == mux \o pll
           tail == << Note("input", v), W(5, v, \h60) >>
           steps == mux \o pll \o (IF ~moves THEN <<>> ELSE tail)
<1>1. PICK V1 : mux \in Seq(Calm(V1))
  BY MuxIsCalm
<1>2. PICK V2 : pll \in Seq(Calm(V2))
  BY PllIsCalm
<1> DEFINE V == V1 \cup V2
<1>3. v \in {0, \h60} /\ Now \in Tuner
  BY DEF air_cable1_in, DriverInv
<1>4. Takes(steps, result)
  OBVIOUS
<1> HIDE DEF v, mux, pll, tail, steps
<1>5. mux \in Seq(Calm(V)) /\ pll \in Seq(Calm(V))
  <2>1. Calm(V1) \subseteq Calm(V) /\ Calm(V2) \subseteq Calm(V)
    BY Wider
  <2> HIDE DEF V
  <2> QED
    BY <1>1, <1>2, <2>1, SeqWider
<1> HIDE DEF V
<1>6. pre \in Seq(Calm(V))
  BY <1>5
<1>7. PICK o \in Outcomes(Now, steps, result) :
        priv' = o.after.priv /\ stale' = o.after.stale /\ rc' = o.rc
  BY <1>4, TakesOne
<1>8. CASE ~moves
  <2>1. steps = pre
    BY <1>5, <1>8 DEF steps
  <2> DEFINE Like == {u \in Tuner : Same(Now, u)}
  <2>2. Ended(o, Like, Like, result)
    <3>1. o \in Outcomes(Now, pre, result)
      BY <1>7, <2>1
    <3> HIDE DEF pre
    <3> QED
      BY <1>3, <1>6, <3>1, CalmEnding
  <2>3. Like \in SUBSET Tuner
    OBVIOUS
  <2> HIDE DEF Like
  <2>4. Reached(Like, Like, result)
    BY <1>7, <2>2, <2>3, OutcomeReached
  <2> QED
    BY <1>8, <2>4 DEF Like
<1>9. CASE moves
  <2>1. steps = pre \o tail
    BY <1>9 DEF steps
  <2> DEFINE There == {u \in Tuner : Turned(Now, u, v)}
             Either == {u \in Tuner : Same(Now, u) \/ Turned(Now, u, v)}
  <2>2. Ended(o, There, Either, result)
    <3>1. o \in Outcomes(Now, pre \o << Note("input", v), W(5, v, \h60) >>, result)
      BY <1>7, <2>1 DEF tail
    <3> HIDE DEF pre
    <3> QED
      BY <1>3, <1>6, <3>1, TurnEnding
  <2>3. There \in SUBSET Tuner /\ Either \in SUBSET Tuner
    OBVIOUS
  <2> HIDE DEF There, Either
  <2>4. Reached(There, Either, result)
    BY <1>7, <2>2, <2>3, OutcomeReached
  <2> QED
    BY <1>9, <2>4 DEF There, Either, v
<1> QED
  BY <1>8, <1>9

LEMMA SetFreqKeeps ==
  ASSUME DriverInv, NEW freq \in Freqs, SetFreq(freq)
  PROVE  DriverInv'
<1>1. PICK fine \in Fines, lock \in Locks :
        LET lo_freq == freq + priv.int_freq
            pll == SetPll(lo_freq, fine, lock)
            moves == /\ pll.locked /\ cfg.rafael_chip = "R828D"
                     /\ air_cable1_in(freq) # priv.input
            input == IF ~moves THEN <<>>
                     ELSE << Note("input", air_cable1_in(freq)), W(5, air_cable1_in(freq), \h60) >>
            steps == SetMux(lo_freq) \o pll.steps \o input
        IN /\ Takes(steps, pll.rc)
           /\ tuned' = IF rc' = 0 /\ pll.locked THEN freq ELSE None
           /\ UNCHANGED <<cfg, ready, manual>>
  BY DEF SetFreq
<1> DEFINE lo_freq == freq + priv.int_freq
           pll == SetPll(lo_freq, fine, lock)
           v == air_cable1_in(freq)
           moves == pll.locked /\ cfg.rafael_chip = "R828D" /\ v # priv.input
           Like == {u \in Tuner : Same(Now, u)}
           There == {u \in Tuner : Turned(Now, u, v)}
           Either == {u \in Tuner : Same(Now, u) \/ Turned(Now, u, v)}
<1>2. /\ Takes(SetMux(lo_freq) \o SetPll(lo_freq, fine, lock).steps
               \o (IF ~moves THEN <<>> ELSE << Note("input", v), W(5, v, \h60) >>), pll.rc)
      /\ tuned' = IF rc' = 0 /\ pll.locked THEN freq ELSE None
      /\ cfg' = cfg /\ ready' = ready /\ manual' = manual
  BY <1>1
<1>3. moves \in BOOLEAN
  BY DEF SetPll
<1>4. /\ ~moves => Reached(Like, Like, pll.rc)
      /\ moves => Reached(There, Either, pll.rc)
  <2> HIDE DEF moves, lo_freq
  <2> QED
    BY <1>2, <1>3, SetFreqReaches
<1>5. moves <=> pll.locked /\ cfg.rafael_chip = "R828D" /\ v # priv.input
  OBVIOUS
<1> HIDE DEF moves, lo_freq, pll
<1>6. /\ Now.priv = priv /\ Now.stale = stale /\ Now'.priv = priv' /\ Now'.stale = stale'
      /\ Now \in Tuner
  BY DEF Now, DriverInv
<1>7. Now' \in Tuner /\ (Same(Now, Now') \/ Turned(Now, Now', v))
  BY <1>3, <1>4 DEF Reached
<1> HIDE DEF v
<1>8. BitsFollow'
  <2> SUFFICES ASSUME ready' = "yes" PROVE priv'.regs[1] \cap {5, 6} = Bits(priv'.input)
    BY DEF BitsFollow
  <2>1. priv.regs[1] \cap {5, 6} = Bits(priv.input)
    BY <1>2 DEF DriverInv, BitsFollow
  <2>2. CASE Same(Now, Now')
    <3>1. priv'.regs[1] = priv.regs[1] /\ priv'.input = priv.input
      BY <1>6, <2>2 DEF Same
    <3> QED
      BY <2>1, <3>1
  <2>3. CASE Turned(Now, Now', v)
    <3>1. priv'.regs[1] \cap {5, 6} = Bits(v) /\ priv'.input = v
      BY <1>6, <2>3 DEF Turned
    <3> QED
      BY <3>1
  <2> QED
    BY <1>7, <2>2, <2>3
<1>9. InputWanted'
  <2> SUFFICES ASSUME tuned' # None, cfg.rafael_chip = "R828D" PROVE priv'.input = v
    <3>1. tuned' # None => tuned' = freq
      BY <1>2
    <3> QED
      BY <1>2, <3>1 DEF InputWanted, v
  <2>1. rc' = 0 /\ pll.locked
    BY <1>2
  <2>2. CASE moves
    <3>1. Turned(Now, Now', v)
      BY <1>4, <2>1, <2>2 DEF Reached
    <3> QED
      BY <1>6, <3>1 DEF Turned
  <2>3. CASE ~moves
    <3>1. Same(Now, Now') /\ v = priv.input
      BY <1>4, <1>5, <2>1, <2>3 DEF Reached
    <3> QED
      BY <1>6, <3>1 DEF Same
  <2> QED
    BY <1>3, <2>2, <2>3
<1>10. GainSet'
  <2> DEFINE l == LnaIndex(Turns(manual))
             m == MixIndex(Turns(manual))
  <2> SUFFICES ASSUME manual # None PROVE Positions(Now', l, m)
    <3>1. manual' = manual
      BY <1>2
    <3> QED
      BY <3>1 DEF GainSet
  <2> HIDE DEF l, m
  <2>1. Positions(Now, l, m)
    BY DEF DriverInv, GainSet, l, m
  <2>2. CASE Same(Now, Now')
    BY <2>1, <2>2 DEF Positions, Same
  <2>3. CASE Turned(Now, Now', v)
    BY <2>1, <2>3 DEF Positions, Turned, Low
  <2> QED
    BY <1>7, <2>2, <2>3
<1>11. FreqNoted'
  BY <1>2, <1>6, <1>7 DEF DriverInv, FreqNoted, Same, Turned
<1> QED
  BY <1>7, <1>8, <1>9, <1>10, <1>11 DEF DriverInv

LEMMA GainKeeps ==
  ASSUME DriverInv, Now' \in Tuner, KeepsInput(Now, Now'),
         cfg' = cfg, ready' = ready, tuned' = tuned
  PROVE  BitsFollow' /\ InputWanted' /\ FreqNoted'
<1>1. /\ priv'.input = priv.input /\ priv'.int_freq = priv.int_freq
      /\ priv'.regs[1] \cap {5, 6} = priv.regs[1] \cap {5, 6}
  BY DEF KeepsInput, Now
<1>2. BitsFollow'
  BY <1>1 DEF DriverInv, BitsFollow
<1>3. InputWanted'
  BY <1>1 DEF DriverInv, InputWanted, air_cable1_in
<1>4. FreqNoted'
  BY <1>1 DEF DriverInv, FreqNoted
<1> QED
  BY <1>2, <1>3, <1>4

LEMMA ManualKeeps ==
  ASSUME DriverInv, NEW gain \in Gains, SetManualGain(gain)
  PROVE  DriverInv'
<1> DEFINE l == LnaIndex(Turns(gain))
           m == MixIndex(Turns(gain))
           Like == {u \in Tuner : KeepsInput(Now, u)}
           There == {u \in Tuner : KeepsInput(Now, u) /\ Positions(u, l, m)}
<1>1. /\ Takes(Manual(l, m), 0)
      /\ manual' = IF rc' = 0 THEN gain ELSE None
      /\ cfg' = cfg /\ ready' = ready /\ tuned' = tuned
  BY DEF SetManualGain, Manual
<1> HIDE DEF l, m
<1>2. PICK o \in Outcomes(Now, Manual(l, m), 0) :
        priv' = o.after.priv /\ stale' = o.after.stale /\ rc' = o.rc
  BY <1>1, TakesOne
<1>3. Now \in Tuner
  BY DEF DriverInv
<1>4. Ended(o, There, Like, 0)
  BY <1>2, <1>3, ManualEnding
<1>5. There \in SUBSET Tuner /\ Like \in SUBSET Tuner
  OBVIOUS
<1>6. Reached(There, Like, 0)
  <2> HIDE DEF There, Like
  <2> QED
    BY <1>2, <1>4, <1>5, OutcomeReached
<1>7. Now' \in Tuner /\ KeepsInput(Now, Now') /\ (rc' = 0 => Positions(Now', l, m))
  BY <1>6 DEF Reached
<1>8. BitsFollow' /\ InputWanted' /\ FreqNoted'
  BY <1>1, <1>7, GainKeeps
<1>9. GainSet'
  <2>1. manual' # None => manual' = gain /\ Positions(Now', l, m)
    BY <1>1, <1>7
  <2> QED
    BY <2>1 DEF GainSet, l, m
<1> QED
  BY <1>7, <1>8, <1>9 DEF DriverInv

LEMMA AutoKeeps ==
  ASSUME DriverInv, SetAutoGain
  PROVE  DriverInv'
<1> DEFINE V == {0, \h10, \h0b}
           steps == << W(5, 0, \h10), W(7, \h10, \h10), W(\h0c, \h0b, \h9f) >>
           Like == {u \in Tuner : KeepsInput(Now, u)}
<1>1. /\ Takes(steps, 0) /\ manual' = None
      /\ cfg' = cfg /\ ready' = ready /\ tuned' = tuned
  BY DEF SetAutoGain
<1>2. steps \in Seq(Mild(V))
  <2>1. W(5, 0, \h10) \in Mild(V)
    BY DEF Mild
  <2>2. W(7, \h10, \h10) \in Mild(V)
    BY DEF Mild, Regs
  <2>3. W(\h0c, \h0b, \h9f) \in Mild(V)
    BY DEF Mild, Regs
  <2> HIDE DEF V
  <2> QED
    BY <2>1, <2>2, <2>3
<1> HIDE DEF V, steps
<1>3. PICK o \in Outcomes(Now, steps, 0) :
        priv' = o.after.priv /\ stale' = o.after.stale /\ rc' = o.rc
  BY <1>1, TakesOne
<1>4. Now \in Tuner
  BY DEF DriverInv
<1>5. Ended(o, Like, Like, 0)
  BY <1>2, <1>3, <1>4, MildEnding
<1>6. Like \in SUBSET Tuner
  OBVIOUS
<1>7. Reached(Like, Like, 0)
  <2> HIDE DEF Like
  <2> QED
    BY <1>3, <1>5, <1>6, OutcomeReached
<1>8. Now' \in Tuner /\ KeepsInput(Now, Now')
  BY <1>7 DEF Reached
<1>9. BitsFollow' /\ InputWanted' /\ FreqNoted'
  BY <1>1, <1>8, GainKeeps
<1> QED
  BY <1>1, <1>8, <1>9 DEF DriverInv, GainSet

LEMMA InitialisedTyped ==
  ASSUME DriverInv, NEW chunk
  PROVE  Initialised(chunk) \in Tuner
<1> DEFINE B == SUBSET (0 .. 7)
<1>1. \A n \in 0 .. 255 : Bits(n) \in B
  BY BitsAre
<1> HIDE DEF B
<1>2. r82xx_init_array \in [1 .. 30 -> B]
  <2>1. r82xx_init_array \in Seq(B) /\ Len(r82xx_init_array) = 30
    BY <1>1 DEF r82xx_init_array
  <2>2. r82xx_init_array \in [1 .. Len(r82xx_init_array) -> B]
    BY <2>1, SeqIsFunction
  <2> QED
    BY <2>1, <2>2
<1>3. priv \in Priv
  BY DEF DriverInv, Now, Tuner
<1>4. [priv EXCEPT !.regs = r82xx_init_array] \in Priv
  BY <1>2, <1>3 DEF Priv, B
<1> QED
  BY <1>4 DEF Initialised, Tuner

LEMMA InitKeeps ==
  ASSUME DriverInv, r82xx_init
  PROVE  DriverInv'
<1>1. PICK passes \in {1, 2}, fine \in Fines, lock \in Locks, chunk \in 0 .. 5 :
        LET t == Initialised(chunk)
            standard == SetTvStandard(passes, fine, lock)
            both(first) == IF first.lost = 1 THEN {first}
                           ELSE {[o EXCEPT !.after.priv.init_done = 1] :
                                   o \in Outcomes(first.after, SysfreqSel, 0)}
        IN /\ chunk = 5 \/ failures < MaxFailures
           /\ \E o \in UNION {both(first) : first \in Outcomes(t, standard, 0)} :
                Ends(o, IF chunk < 5 THEN 1 ELSE 0)
           /\ ready' = (IF rc' = 0 THEN "yes" ELSE "no")
           /\ tuned' = None /\ manual' = None /\ UNCHANGED cfg
  BY DEF r82xx_init
<1> DEFINE t == Initialised(chunk)
           standard == SetTvStandard(passes, fine, lock)
           both(first) == IF first.lost = 1 THEN {first}
                          ELSE {[o EXCEPT !.after.priv.init_done = 1] :
                                  o \in Outcomes(first.after, SysfreqSel, 0)}
<1>2. PICK first \in Outcomes(t, standard, 0) :
        \E o \in both(first) :
          priv' = o.after.priv /\ stale' = o.after.stale /\ rc' = o.rc
  <2>1. PICK o \in UNION {both(first) : first \in Outcomes(t, standard, 0)} :
          Ends(o, IF chunk < 5 THEN 1 ELSE 0)
    BY <1>1
  <2>2. PICK first \in Outcomes(t, standard, 0) : o \in both(first)
    <3> HIDE DEF both, t, standard
    <3> QED
      BY <2>1
  <2>3. priv' = o.after.priv /\ stale' = o.after.stale /\ rc' = o.rc
    BY <2>1 DEF Ends
  <2> HIDE DEF both, t, standard
  <2> QED
    BY <2>2, <2>3
<1>3. ready' = (IF rc' = 0 THEN "yes" ELSE "no") /\ tuned' = None /\ manual' = None
  BY <1>1
<1>4. t \in Tuner
  BY InitialisedTyped
<1> DEFINE Taken(o) == priv' = o.after.priv /\ stale' = o.after.stale /\ rc' = o.rc
<1>6. Ended(first, {u \in Tuner : u.priv.int_freq = 3570}, Tuner, 0)
  <2> HIDE DEF t
  <2> QED
    BY <1>2, <1>4, StandardEnding
<1>7. /\ Now' \in Tuner
      /\ rc' = 0 => priv'.int_freq = 3570 /\ priv'.input = 0 /\ priv'.regs[1] \cap {5, 6} = {}
  <2>1. CASE first.lost = 1
    <3>1. Taken(first)
      BY <1>2, <2>1
    <3> HIDE DEF both, t, standard
    <3>2. first.after \in Tuner /\ first.rc = -1
      BY <1>6, <2>1 DEF Ended
    <3> QED
      BY <3>1, <3>2 DEF Now, Tuner
  <2>2. CASE first.lost # 1
    <3>1. PICK p \in Outcomes(first.after, SysfreqSel, 0) :
            Taken([p EXCEPT !.after.priv.init_done = 1])
      BY <1>2, <2>2
    <3> HIDE DEF both, t, standard
    <3> DEFINE o == [p EXCEPT !.after.priv.init_done = 1]
    <3>2. first.after \in Tuner /\ first.after.priv.int_freq = 3570
      BY <1>6, <2>2 DEF Ended
    <3>3. Ended(p, {u \in Tuner : Zeroed(first.after, u)}, Tuner, 0)
      BY <3>1, <3>2, SysfreqEnding
    <3>4. /\ p = [after |-> p.after, rc |-> p.rc, lost |-> p.lost] /\ p.after \in Tuner
          /\ p.rc = 0 \/ p.rc = -1
          /\ p.rc = 0 => Zeroed(first.after, p.after)
      BY <3>3 DEF Ended
    <3>5. /\ o.after = [p.after EXCEPT !.priv.init_done = 1] /\ o.rc = p.rc
      BY <3>4
    <3> HIDE DEF o
    <3>6. p.after = [priv |-> p.after.priv, stale |-> p.after.stale] /\ p.after.priv \in Priv
          /\ p.after.stale \in SUBSET Regs
      BY <3>4 DEF Tuner
    <3>7. /\ o.after.priv = [p.after.priv EXCEPT !.init_done = 1]
          /\ o.after.stale = p.after.stale
      BY <3>5, <3>6
    <3>8. /\ o.after.priv \in Priv /\ o.after.priv.input = p.after.priv.input
          /\ o.after.priv.int_freq = p.after.priv.int_freq
          /\ o.after.priv.regs = p.after.priv.regs
      <4> DEFINE old == p.after.priv
                 new == o.after.priv
      <4>1. old \in Priv /\ new = [old EXCEPT !.init_done = 1]
        BY <3>6, <3>7
      <4> HIDE DEF old, new
      <4>2. new \in Priv
        BY <4>1 DEF Priv
      <4>3. new.input = old.input /\ new.int_freq = old.int_freq /\ new.regs = old.regs
        BY <4>1 DEF Priv
      <4> QED
        BY <4>2, <4>3 DEF old, new
    <3>9. Now' \in Tuner
      BY <3>1, <3>6, <3>7, <3>8 DEF Now, Tuner, o
    <3>10. rc' = 0 => /\ priv'.int_freq = 3570 /\ priv'.input = 0
                      /\ priv'.regs[1] \cap {5, 6} = {}
      BY <3>1, <3>2, <3>4, <3>5, <3>8 DEF Zeroed, o
    <3> QED
      BY <3>9, <3>10
  <2> QED
    BY <2>1, <2>2
<1>8. BitsFollow'
  BY <1>3, <1>7, Masks DEF BitsFollow
<1> QED
  BY <1>3, <1>7, <1>8 DEF DriverInv, InputWanted, GainSet, FreqNoted

LEMMA StandbyKeeps ==
  ASSUME DriverInv, Standby
  PROVE  DriverInv'
<1> DEFINE V == {\hb1, 3, \h3a, \h40, \hc0, \h36, \h35, \h68, \hf4, \h0c}
           steps == << W(6, \hb1, All), W(5, 3, All), W(7, \h3a, All), W(8, \h40, All),
                       W(9, \hc0, All), W(\h0a, \h36, All), W(\h0c, \h35, All),
                       W(\h0f, \h68, All), W(\h11, 3, All), W(\h17, \hf4, All),
                       W(\h19, \h0c, All) >>
<1>1. /\ \/ UNCHANGED <<priv, stale>>
         \/ Takes(steps, 0)
      /\ ready' = "no" /\ tuned' = None /\ manual' = None
  BY DEF Standby
<1>2. Now' \in Tuner
  <2>1. CASE UNCHANGED <<priv, stale>>
    BY <2>1 DEF DriverInv, Now
  <2>2. CASE Takes(steps, 0)
    <3>1. /\ \hb1 \in V /\ 3 \in V /\ \h3a \in V /\ \h40 \in V /\ \hc0 \in V /\ \h36 \in V
          /\ \h35 \in V /\ \h68 \in V /\ \hf4 \in V /\ \h0c \in V
      OBVIOUS
    <3>2. /\ 5 \in Regs /\ 6 \in Regs /\ 7 \in Regs /\ 8 \in Regs /\ 9 \in Regs
          /\ \h0a \in Regs /\ \h0c \in Regs /\ \h0f \in Regs /\ \h11 \in Regs
          /\ \h17 \in Regs /\ \h19 \in Regs /\ All \in 0 .. 255
      BY DEF Regs, All
    <3> HIDE DEF V
    <3>8. /\ W(6, \hb1, All) \in Steps(V) /\ W(5, 3, All) \in Steps(V)
          /\ W(7, \h3a, All) \in Steps(V) /\ W(8, \h40, All) \in Steps(V)
      BY <3>1, <3>2, WIsStep
    <3>9. /\ W(9, \hc0, All) \in Steps(V) /\ W(\h0a, \h36, All) \in Steps(V)
          /\ W(\h0c, \h35, All) \in Steps(V) /\ W(\h0f, \h68, All) \in Steps(V)
      BY <3>1, <3>2, WIsStep
    <3>10. /\ W(\h11, 3, All) \in Steps(V) /\ W(\h17, \hf4, All) \in Steps(V)
           /\ W(\h19, \h0c, All) \in Steps(V)
      BY <3>1, <3>2, WIsStep
    <3>3. steps \in Seq(Steps(V))
      BY <3>8, <3>9, <3>10
    <3> HIDE DEF steps
    <3>4. PICK o \in Outcomes(Now, steps, 0) :
            priv' = o.after.priv /\ stale' = o.after.stale /\ rc' = o.rc
      BY <2>2, TakesOne
    <3>5. Now \in Tuner
      BY DEF DriverInv
    <3>6. Ended(o, Tuner, Tuner, 0)
      BY <3>3, <3>4, <3>5, TypedEnding
    <3>7. Reached(Tuner, Tuner, 0)
      BY <3>4, <3>6, OutcomeReached
    <3> QED
      BY <3>7 DEF Reached
  <2> QED
    BY <1>1, <2>1, <2>2
<1> QED
  BY <1>1, <1>2 DEF DriverInv, BitsFollow, InputWanted, GainSet, FreqNoted

(***************************************************************************)
(* Whatever was called and whatever failed, the driver's idea of the input *)
(* is the one its registers and the last frequency ask for, and the gain   *)
(* set by hand stands in the stages' registers.                            *)
(***************************************************************************)
THEOREM DriverInvariant == Spec => []DriverInv
<1>1. Init => DriverInv
  <2> SUFFICES ASSUME Init PROVE DriverInv
    OBVIOUS
  <2>1. Now \in Tuner
    BY DEF Init, Now, Tuner, Priv
  <2> QED
    BY <2>1 DEF Init, DriverInv, BitsFollow, InputWanted, GainSet, FreqNoted
<1>2. DriverInv /\ [Next]_vars => DriverInv'
  <2> SUFFICES ASSUME DriverInv, [Next]_vars PROVE DriverInv'
    OBVIOUS
  <2>1. CASE r82xx_init
    BY <2>1, InitKeeps
  <2>2. CASE \E freq \in Freqs : SetFreq(freq)
    BY <2>2, SetFreqKeeps
  <2>3. CASE \E gain \in Gains : SetManualGain(gain)
    BY <2>3, ManualKeeps
  <2>4. CASE SetAutoGain
    BY <2>4, AutoKeeps
  <2>5. CASE Standby
    BY <2>5, StandbyKeeps
  <2>6. CASE UNCHANGED vars
    BY <2>6 DEF vars, DriverInv, BitsFollow, InputWanted, GainSet, FreqNoted, Now
  <2> QED
    BY <2>1, <2>2, <2>3, <2>4, <2>5, <2>6 DEF Next, Use
<1> QED
  BY <1>1, <1>2, PTL DEF Spec

-----------------------------------------------------------------------------
(* What the numbers in the registers are.                                  *)

Weight(set, i, w) == IF i \in set THEN w ELSE 0
Weighed(set) == Weight(set, 0, 1) + Weight(set, 1, 2) + Weight(set, 2, 4) + Weight(set, 3, 8)
                + Weight(set, 4, 16) + Weight(set, 5, 32) + Weight(set, 6, 64)
                + Weight(set, 7, 128)

LEMMA NumberIs ==
  ASSUME NEW bits, NEW mask \in 0 .. 255
  PROVE  Number(bits, mask) = Weighed(bits \cap Bits(mask))
<1> DEFINE set == bits \cap Bits(mask)
           next == [ka \in (1 .. 8) \X Int |->
                      ka[2] + (IF ka[1] - 1 \in set THEN 2^(ka[1] - 1) ELSE 0)]
           Is(f) == f = [i \in 0 .. 8 |->
                           IF i = 0 THEN 0
                           ELSE f[i - 1] + (IF i - 1 \in set THEN 2^(i - 1) ELSE 0)]
<1>1. next \in [(1 .. 8) \X Int -> Int]
  OBVIOUS
<1>2. PICK h \in Solutions(8, Int, 0, next) : TRUE
  <2> HIDE DEF next
  <2>1. 8 \in Nat /\ 0 \in Int
    OBVIOUS
  <2>2. Solutions(8, Int, 0, next) # {}
    BY <1>1, <2>1, Recursion
  <2> QED
    BY <2>2
<1>3. /\ h \in [0 .. 8 -> Int] /\ h[0] = 0
      /\ \A k \in 1 .. 8 : h[k] = next[<<k, h[k - 1]>>]
  BY DEF Solutions
<1>4. \A k \in 1 .. 8 : h[k] = h[k - 1] + (IF k - 1 \in set THEN 2^(k - 1) ELSE 0)
  BY <1>3
<1> HIDE DEF set
<1>5. Is(h)
  BY <1>3, <1>4
<1> DEFINE from == CHOOSE f : Is(f)
<1>6. Is(from)
  BY <1>5
<1>7. Number(bits, mask) = from[8]
  BY DEF Number, set
<1> HIDE DEF from
<1> DEFINE c(i, w) == IF i \in set THEN w ELSE 0
<1>8. /\ from[0] = 0 /\ from[1] = from[0] + c(0, 2^0) /\ from[2] = from[1] + c(1, 2^1)
      /\ from[3] = from[2] + c(2, 2^2) /\ from[4] = from[3] + c(3, 2^3)
      /\ from[5] = from[4] + c(4, 2^4) /\ from[6] = from[5] + c(5, 2^5)
      /\ from[7] = from[6] + c(6, 2^6) /\ from[8] = from[7] + c(7, 2^7)
  BY <1>6
<1>9. Number(bits, mask) = c(0, 1) + c(1, 2) + c(2, 4) + c(3, 8)
                           + c(4, 16) + c(5, 32) + c(6, 64) + c(7, 128)
  BY <1>7, <1>8
<1> QED
  BY <1>9 DEF set, Weighed, Weight

LEMMA InputNumber ==
  ASSUME NEW bits, NEW v \in {0, \h60}, bits \cap {5, 6} = Bits(v)
  PROVE  Number(bits, \h60) = v
<1>1. Number(bits, \h60) = Weighed(bits \cap {5, 6})
  <2>1. \h60 \in 0 .. 255
    OBVIOUS
  <2>2. Number(bits, \h60) = Weighed(bits \cap Bits(\h60))
    BY <2>1, NumberIs
  <2> QED
    BY <2>2, Masks
<1>2. Number(bits, \h60) = (IF 5 \in bits THEN 32 ELSE 0) + (IF 6 \in bits THEN 64 ELSE 0)
  BY <1>1 DEF Weighed, Weight
<1> QED
  BY <1>2, Masks

LEMMA LowNumber ==
  ASSUME NEW bits, NEW v \in 0 .. 15, bits \cap Low = Bits(v) \cap Low
  PROVE  Number(bits, \h0f) = v
<1>1. Number(bits, \h0f) = (IF 0 \in bits THEN 1 ELSE 0) + (IF 1 \in bits THEN 2 ELSE 0)
                           + (IF 2 \in bits THEN 4 ELSE 0) + (IF 3 \in bits THEN 8 ELSE 0)
  <2>1. Number(bits, \h0f) = Weighed(bits \cap {0, 1, 2, 3})
    <3>1. \h0f \in 0 .. 255
      OBVIOUS
    <3>2. Number(bits, \h0f) = Weighed(bits \cap Bits(\h0f))
      BY <3>1, NumberIs
    <3> QED
      BY <3>2, Masks
  <2> QED
    BY <2>1 DEF Weighed, Weight
<1>2. /\ 0 \in bits <=> v % 2 = 1
      /\ 1 \in bits <=> (v \div 2) % 2 = 1
      /\ 2 \in bits <=> (v \div 4) % 2 = 1
      /\ 3 \in bits <=> (v \div 8) % 2 = 1
  BY BitsAre, SMT DEF Low
<1> QED
  BY <1>1, <1>2, SMT

\* The sums of a table are those of one function, whatever number is summed.
Sums(table, h) ==
  /\ h \in [0 .. 15 -> Int] /\ h[0] = 0
  /\ \A i \in 1 .. 15 : h[i] = h[i - 1] + table[i + 1]
  /\ \A n \in 0 .. 15 : Sum(table, n) = h[n]

LEMMA SumIs ==
  ASSUME NEW table \in [1 .. 16 -> Int]
  PROVE  \E h : Sums(table, h)
<1> DEFINE next == [ka \in (1 .. 15) \X Int |-> ka[2] + table[ka[1] + 1]]
<1>1. next \in [(1 .. 15) \X Int -> Int]
  OBVIOUS
<1>2. PICK h \in Solutions(15, Int, 0, next) : TRUE
  <2> HIDE DEF next
  <2>1. 15 \in Nat /\ 0 \in Int
    OBVIOUS
  <2>2. Solutions(15, Int, 0, next) # {}
    BY <1>1, <2>1, Recursion
  <2> QED
    BY <2>2
<1>3. /\ h \in [0 .. 15 -> Int] /\ h[0] = 0
      /\ \A k \in 1 .. 15 : h[k] = next[<<k, h[k - 1]>>]
  BY DEF Solutions
<1>4. \A k \in 1 .. 15 : h[k] = h[k - 1] + table[k + 1]
  BY <1>3
<1>5. ASSUME NEW n \in 0 .. 15 PROVE Sum(table, n) = h[n]
  <2> DEFINE Is(f) == f = [i \in 0 .. n |-> IF i = 0 THEN 0 ELSE f[i - 1] + table[i + 1]]
             g == [i \in 0 .. n |-> h[i]]
             from == CHOOSE f : Is(f)
  <2>1. Is(g)
    <3>1. ASSUME NEW i \in 0 .. n, i # 0 PROVE g[i] = g[i - 1] + table[i + 1]
      <4>1. i \in 1 .. 15 /\ i - 1 \in 0 .. n
        BY <3>1
      <4> QED
        BY <1>4, <4>1
    <3>2. g[0] = 0
      BY <1>3
    <3>3. \A i \in 0 .. n : g[i] = IF i = 0 THEN 0 ELSE g[i - 1] + table[i + 1]
      <4> HIDE DEF g
      <4> QED
        BY <3>1, <3>2
    <3> QED
      BY <3>3
  <2>2. Is(from)
    BY <2>1
  <2>3. Sum(table, n) = from[n]
    BY DEF Sum
  <2> DEFINE P == {i \in 0 .. n : from[i] = h[i]}
  <2> HIDE DEF from
  <2>4. 0 \in P /\ P \in SUBSET (0 .. n) /\ n \in Nat
    <3>1. 0 \in 0 .. n /\ n \in Nat
      OBVIOUS
    <3>2. from[0] = 0
      BY <2>2, <3>1
    <3> QED
      BY <1>3, <3>1, <3>2
  <2>5. ASSUME NEW i \in 1 .. n, i - 1 \in P PROVE i \in P
    <3>1. i \in 0 .. n /\ i # 0 /\ i \in 1 .. 15
      OBVIOUS
    <3>2. from[i] = from[i - 1] + table[i + 1]
      BY <2>2, <3>1
    <3> QED
      BY <1>4, <2>5, <3>1, <3>2
  <2> HIDE DEF P
  <2>6. P = 0 .. n
    BY <2>4, <2>5, Reaches
  <2> QED
    BY <2>3, <2>6 DEF P
<1> QED
  BY <1>3, <1>4, <1>5 DEF Sums

LEMMA LnaSums ==
  /\ Sum(r82xx_lna_gain_steps, 0) = 0 /\ Sum(r82xx_lna_gain_steps, 1) = 9
  /\ Sum(r82xx_lna_gain_steps, 2) = 22 /\ Sum(r82xx_lna_gain_steps, 3) = 62
  /\ Sum(r82xx_lna_gain_steps, 4) = 100 /\ Sum(r82xx_lna_gain_steps, 5) = 113
  /\ Sum(r82xx_lna_gain_steps, 6) = 144 /\ Sum(r82xx_lna_gain_steps, 7) = 166
  /\ Sum(r82xx_lna_gain_steps, 8) = 192 /\ Sum(r82xx_lna_gain_steps, 9) = 223
  /\ Sum(r82xx_lna_gain_steps, 10) = 249 /\ Sum(r82xx_lna_gain_steps, 11) = 263
  /\ Sum(r82xx_lna_gain_steps, 12) = 282 /\ Sum(r82xx_lna_gain_steps, 13) = 287
  /\ Sum(r82xx_lna_gain_steps, 14) = 322 /\ Sum(r82xx_lna_gain_steps, 15) = 335
<1>1. r82xx_lna_gain_steps \in [1 .. 16 -> Int]
  <2>1. r82xx_lna_gain_steps \in Seq(Int) /\ Len(r82xx_lna_gain_steps) = 16
    BY DEF r82xx_lna_gain_steps
  <2> QED
    BY <2>1, SeqIsFunction
<1>2. PICK h : Sums(r82xx_lna_gain_steps, h)
  BY <1>1, SumIs
<1>3. \A n \in 0 .. 15 : Sum(r82xx_lna_gain_steps, n) = h[n]
  BY <1>2 DEF Sums
<1>4. /\ h[0] = 0
      /\ \A i \in 1 .. 15 : h[i] = h[i - 1] + r82xx_lna_gain_steps[i + 1]
  BY <1>2 DEF Sums
<1>5. /\ h[0] = 0 /\ h[1] = 9 /\ h[2] = 22 /\ h[3] = 62 /\ h[4] = 100
      /\ h[5] = 113 /\ h[6] = 144 /\ h[7] = 166 /\ h[8] = 192 /\ h[9] = 223
      /\ h[10] = 249 /\ h[11] = 263 /\ h[12] = 282 /\ h[13] = 287 /\ h[14] = 322
      /\ h[15] = 335
  BY <1>4 DEF r82xx_lna_gain_steps
<1> QED
  BY <1>3, <1>5

LEMMA MixerSums ==
  /\ Sum(r82xx_mixer_gain_steps, 0) = 0 /\ Sum(r82xx_mixer_gain_steps, 1) = 5
  /\ Sum(r82xx_mixer_gain_steps, 2) = 15 /\ Sum(r82xx_mixer_gain_steps, 3) = 25
  /\ Sum(r82xx_mixer_gain_steps, 4) = 44 /\ Sum(r82xx_mixer_gain_steps, 5) = 53
  /\ Sum(r82xx_mixer_gain_steps, 6) = 63 /\ Sum(r82xx_mixer_gain_steps, 7) = 88
  /\ Sum(r82xx_mixer_gain_steps, 8) = 105 /\ Sum(r82xx_mixer_gain_steps, 9) = 115
  /\ Sum(r82xx_mixer_gain_steps, 10) = 123 /\ Sum(r82xx_mixer_gain_steps, 11) = 139
  /\ Sum(r82xx_mixer_gain_steps, 12) = 152 /\ Sum(r82xx_mixer_gain_steps, 13) = 158
  /\ Sum(r82xx_mixer_gain_steps, 14) = 161 /\ Sum(r82xx_mixer_gain_steps, 15) = 153
<1>1. r82xx_mixer_gain_steps \in [1 .. 16 -> Int]
  <2>1. r82xx_mixer_gain_steps \in Seq(Int) /\ Len(r82xx_mixer_gain_steps) = 16
    BY DEF r82xx_mixer_gain_steps
  <2> QED
    BY <2>1, SeqIsFunction
<1>2. PICK h : Sums(r82xx_mixer_gain_steps, h)
  BY <1>1, SumIs
<1>3. \A n \in 0 .. 15 : Sum(r82xx_mixer_gain_steps, n) = h[n]
  BY <1>2 DEF Sums
<1>4. /\ h[0] = 0
      /\ \A i \in 1 .. 15 : h[i] = h[i - 1] + r82xx_mixer_gain_steps[i + 1]
  BY <1>2 DEF Sums
<1>5. /\ h[0] = 0 /\ h[1] = 5 /\ h[2] = 15 /\ h[3] = 25 /\ h[4] = 44
      /\ h[5] = 53 /\ h[6] = 63 /\ h[7] = 88 /\ h[8] = 105 /\ h[9] = 115
      /\ h[10] = 123 /\ h[11] = 139 /\ h[12] = 152 /\ h[13] = 158 /\ h[14] = 161
      /\ h[15] = 153
  BY <1>4 DEF r82xx_mixer_gain_steps
<1> QED
  BY <1>3, <1>5

\* The gain after each number of turns.
Totals == <<0, 9, 14, 27, 37, 77, 87, 125, 144, 157, 166, 197, 207, 229, 254, 280, 297,
            328, 338, 364, 372, 386, 402, 421, 434, 439, 445, 480, 483, 496>>

LEMMA TotalIs ==
  ASSUME NEW n \in 0 .. 29
  PROVE  /\ TotalGain(n) = Totals[n + 1]
         /\ LnaIndex(n) \in 0 .. 15 /\ MixIndex(n) \in 0 .. 15
<1>1. LnaIndex(n) \in 0 .. 15 /\ MixIndex(n) \in 0 .. 15
  BY DEF LnaIndex, MixIndex
<1>2. TotalGain(n) = Totals[n + 1]
  BY LnaSums, MixerSums DEF TotalGain, LnaIndex, MixIndex, Totals
<1> QED
  BY <1>1, <1>2

LEMMA TotalsGrow ==
  ASSUME NEW i \in 0 .. 29, NEW j \in 0 .. 29, i < j
  PROVE  Totals[i + 1] < Totals[j + 1]
BY DEF Totals

LEMMA GainsAreTotals ==
  ASSUME NEW gain \in r82xx_gains
  PROVE  \E n \in 0 .. 29 : gain = Totals[n + 1]
BY DEF r82xx_gains, Totals

\* A gain that is listed is that of the turns it takes.
LEMMA TurnsGive ==
  ASSUME NEW gain \in r82xx_gains
  PROVE  Turns(gain) \in 0 .. 29 /\ TotalGain(Turns(gain)) = gain
<1>1. PICK k \in 0 .. 29 : gain = TotalGain(k)
  BY GainsAreTotals, TotalIs
<1>2. \A n \in 0 .. 29 : TotalGain(n) \in Int
  BY TotalIs DEF Totals
<1>3. \A i \in 0 .. k - 1 : TotalGain(i) < gain
  <2> SUFFICES ASSUME NEW i \in 0 .. k - 1 PROVE TotalGain(i) < gain
    OBVIOUS
  <2>1. i \in 0 .. 29 /\ i < k
    OBVIOUS
  <2>2. TotalGain(i) = Totals[i + 1] /\ TotalGain(k) = Totals[k + 1]
    BY <2>1, TotalIs
  <2> QED
    BY <1>1, <2>1, <2>2, TotalsGrow
<1> DEFINE Is(n) == TotalGain(n) >= gain /\ \A i \in 0 .. n - 1 : TotalGain(i) < gain
<1>4. k \in 0 .. 29 /\ Is(k)
  BY <1>1, <1>2, <1>3
<1>5. \A n \in 0 .. 29 : Is(n) => n = k
  <2> SUFFICES ASSUME NEW n \in 0 .. 29, Is(n), n # k PROVE FALSE
    OBVIOUS
  <2>1. CASE n < k
    <3>1. n \in 0 .. k - 1
      BY <2>1
    <3> QED
      BY <1>1, <1>2, <1>3, <3>1
  <2>2. CASE k < n
    <3>1. k \in 0 .. n - 1
      BY <2>2
    <3> QED
      BY <1>1, <1>2, <3>1
  <2> QED
    BY <2>1, <2>2
<1>6. \E n \in 0 .. 29 : TotalGain(n) >= gain
  BY <1>4
<1>7. Turns(gain) = CHOOSE n \in 0 .. 29 : Is(n)
  BY <1>6 DEF Turns
<1> HIDE DEF Is
<1>8. Turns(gain) = k
  BY <1>4, <1>5, <1>7
<1> QED
  BY <1>1, <1>8

-----------------------------------------------------------------------------
(***************************************************************************)
(* The R828D's input is the one its frequency wants.  It is not chosen     *)
(* when the tuner is retuned but when the wanted input and the one the     *)
(* driver believes in differ, and it believes before it has written.       *)
(***************************************************************************)
THEOREM ListensWhereAsked == Spec => []InputFollows
<1>1. DriverInv => InputFollows
  <2> SUFFICES ASSUME DriverInv, ready = "yes", tuned # None, cfg.rafael_chip = "R828D"
               PROVE  /\ priv.input = air_cable1_in(tuned)
                      /\ Number(Shadow(5), \h60) = priv.input
    BY DEF InputFollows
  <2>1. priv.input = air_cable1_in(tuned) /\ priv.input \in {0, \h60}
    BY DEF DriverInv, InputWanted, air_cable1_in
  <2>2. Shadow(5) \cap {5, 6} = Bits(priv.input)
    BY DEF DriverInv, BitsFollow, Shadow
  <2> QED
    BY <2>1, <2>2, InputNumber
<1> QED
  BY <1>1, DriverInvariant, PTL

(***************************************************************************)
(* A listed gain that was set is exactly the gain of the two stages, under *)
(* manual control, until it is set again or the tuner is put to sleep or   *)
(* initialised: every value of the list is one the stepwise search meets.  *)
(***************************************************************************)
THEOREM GainIsAsAsked == Spec => []GainAsAsked
<1>1. DriverInv => GainAsAsked
  <2> SUFFICES ASSUME DriverInv, manual \in r82xx_gains PROVE GainAsAsked
    BY DEF GainAsAsked
  <2> DEFINE n == Turns(manual)
  <2>1. n \in 0 .. 29 /\ TotalGain(n) = manual
    BY TurnsGive
  <2>2. LnaIndex(n) \in 0 .. 15 /\ MixIndex(n) \in 0 .. 15
    BY <2>1, TotalIs
  <2>3. manual # None
    BY DEF r82xx_gains, None
  <2>4. Positions(Now, LnaIndex(n), MixIndex(n))
    BY <2>3 DEF DriverInv, GainSet
  <2> HIDE DEF n
  <2>5. /\ 4 \in Shadow(5) /\ Shadow(5) \cap Low = Bits(LnaIndex(n)) \cap Low
        /\ 4 \notin Shadow(7) /\ Shadow(7) \cap Low = Bits(MixIndex(n)) \cap Low
        /\ 7 \notin stale
    BY <2>4 DEF Positions, Now, Shadow
  <2>6. Number(Shadow(5), \h0f) = LnaIndex(n) /\ Number(Shadow(7), \h0f) = MixIndex(n)
    BY <2>2, <2>5, LowNumber
  <2> QED
    BY <2>1, <2>5, <2>6 DEF GainAsAsked, TotalGain
<1> QED
  BY <1>1, DriverInvariant, PTL

-----------------------------------------------------------------------------
(* What the PLL was told.                                                  *)

\* The chip has the bits of the mask m in register r as the write of v made them.
Holds(u, r, v, m) ==
  u.priv.regs[r - 4] \cap Bits(m) = Bits(v) \cap Bits(m) /\ r \notin u.stale
Holding(r, v, m) == {u \in Tuner : Holds(u, r, v, m)}
Spares(step, r, m) == step.kind = "write" /\ step.reg = r => Bits(step.mask) \cap Bits(m) = {}

LEMMA SparedHolds ==
  ASSUME NEW V, NEW step \in Steps(V), NEW r \in Regs, NEW v, NEW m, Spares(step, r, m),
         NEW u \in Tuner, Holds(u, r, v, m)
  PROVE  Holds(Done(u, step), r, v, m)
<1>1. u.priv \in Priv /\ Done(u, step).priv = Store(u.priv, step)
      /\ Done(u, step).stale \subseteq u.stale
  BY DEF Tuner, Done
<1>2. CASE step = Read
  BY <1>1, <1>2 DEF Read, Store, Holds
<1>3. CASE \E w \in Int : step = Note("has_lock", w)
  <2>1. PICK w \in Int : step = Note("has_lock", w)
    BY <1>3
  <2>2. Noted(u.priv, "has_lock", w, Store(u.priv, Note("has_lock", w)))
    BY <1>1, NoteOne
  <2> QED
    BY <1>1, <2>1, <2>2 DEF Noted, Holds
<1>4. CASE \E w \in {0, \h60} : step = Note("input", w)
  <2>1. PICK w \in {0, \h60} : step = Note("input", w)
    BY <1>4
  <2>2. Noted(u.priv, "input", w, Store(u.priv, Note("input", w)))
    BY <1>1, NoteOne
  <2> QED
    BY <1>1, <2>1, <2>2 DEF Noted, Holds
<1>5. CASE \E x \in Regs, w \in V, n \in 0 .. 255 : step = W(x, w, n)
  <2>1. PICK x \in Regs, w \in V, n \in 0 .. 255 : step = W(x, w, n)
    BY <1>5
  <2>2. Wrote(u.priv, x, w, n, Store(u.priv, W(x, w, n)))
    BY <1>1, <2>1, WriteOne
  <2>3. CASE x # r
    BY <1>1, <2>1, <2>2, <2>3 DEF Wrote, Holds
  <2>4. CASE x = r
    <3>1. Bits(n) \cap Bits(m) = {}
      BY <2>1, <2>4 DEF Spares, W
    <3>2. Store(u.priv, step).regs[r - 4]
            = (u.priv.regs[r - 4] \ Bits(n)) \cup (Bits(w) \cap Bits(n))
      BY <2>1, <2>2, <2>4 DEF Wrote
    <3>3. Store(u.priv, step).regs[r - 4] \cap Bits(m) = u.priv.regs[r - 4] \cap Bits(m)
      BY <3>1, <3>2
    <3> QED
      BY <1>1, <3>3 DEF Holds
  <2> QED
    BY <2>3, <2>4
<1>6. 5 \in Regs /\ 7 \in Regs
  BY DEF Regs
<1> QED
  BY <1>2, <1>3, <1>4, <1>5, <1>6 DEF Steps, Calm

LEMMA WriteHolds ==
  ASSUME NEW u \in Tuner, NEW r \in Regs, NEW v, NEW m \in 0 .. 255
  PROVE  Done(u, W(r, v, m)) \in {w \in Tuner : Holds(w, r, v, m)}
<1>1. Written(u, r, v, m, Done(u, W(r, v, m)))
  BY WriteStep
<1>2. Done(u, W(r, v, m)).stale = u.stale \ {r}
  BY DEF Done, Touched, W
<1> QED
  BY <1>1, <1>2 DEF Written, Holds

\* The bits of a mask hold what the last write that changes them wrote.
LEMMA LastWrite ==
  ASSUME NEW V, NEW t \in Tuner, NEW steps \in Seq(Steps(V)), NEW j \in 1 .. Len(steps),
         NEW r \in Regs, NEW v, NEW m \in 0 .. 255, steps[j] = W(r, v, m),
         \A k \in (j + 1) .. Len(steps) : Spares(steps[k], r, m),
         NEW result, NEW o \in Outcomes(t, steps, result)
  PROVE  Ended(o, Holding(r, v, m), Tuner, result)
<1> DEFINE G == {u \in Tuner : Holds(u, r, v, m)}
<1>1. \A k \in 1 .. Len(steps) : steps[k] \in Steps(V)
  BY SeqElement
<1>2. ASSUME NEW u \in Tuner PROVE Done(u, steps[j]) \in G
  BY WriteHolds
<1>3. ASSUME NEW k \in (j + 1) .. Len(steps), NEW u \in G PROVE Done(u, steps[k]) \in G
  <2>1. steps[k] \in Steps(V) /\ Spares(steps[k], r, m)
    BY <1>1
  <2>2. Done(u, steps[k]) \in Tuner
    BY <2>1, StepTyped
  <2>3. Holds(Done(u, steps[k]), r, v, m)
    BY <2>1, SparedHolds
  <2> QED
    BY <2>2, <2>3
<1>4. Closed(steps) /\ G \in SUBSET Tuner
  BY AllClosed
<1> HIDE DEF G
<1>5. Ended(o, G, Tuner, result)
  BY <1>2, <1>3, <1>4, Lasting
<1> QED
  BY <1>5 DEF G, Holding

\* What r82xx_set_pll computes.
Vco(lo) == lo * MixDiv(lo)
Nint(lo) == (Vco(lo) \div (2 * cfg.pll_ref)) % 256
Fra(lo) == Vco(lo) - 2 * cfg.pll_ref * Nint(lo)
Byte14(lo) == (Ni(Nint(lo)) + 64 * Si(Nint(lo))) % 256
Integral(lo) == IF Fra(lo) = 0 THEN 8 ELSE 0
Tuned(lo, fine) == FineTuned(DivNum(MixDiv(lo)), fine)

\* What may follow when the divider has been written.
Afters == {Read, Note("has_lock", 1), W(\h12, \h60, \he0), W(\h1a, 8, 8)}
          \cup {Note("input", v) : v \in {0, \h60}} \cup {W(5, v, \h60) : v \in {0, \h60}}

\* The steps of a tuning that locks.
Described(steps, lo, fine) ==
  /\ Len(steps) \in Nat /\ Len(steps) >= 16
  /\ steps[1] = W(\h17, Range(lo)[2], \h08) /\ steps[2] = W(\h1a, Range(lo)[3], \hc3)
  /\ steps[3] = W(\h1b, Range(lo)[4], All) /\ steps[4] = W(\h10, 0, \h0b)
  /\ steps[5] = W(\h08, 0, \h3f) /\ steps[6] = W(\h09, 0, \h3f)
  /\ steps[7] = W(\h10, 0, \h10) /\ steps[8] = W(\h1a, 0, \h0c)
  /\ steps[9] = W(\h12, \h80, \he0) /\ steps[10] = Read
  /\ steps[11] = W(\h10, 32 * Tuned(lo, fine), \he0)
  /\ steps[12] = W(\h14, Byte14(lo), All) /\ steps[13] = W(\h12, Integral(lo), 8)
  /\ steps[14] = W(\h16, Sdm(Fra(lo)) \div 256, All)
  /\ steps[15] = W(\h15, Sdm(Fra(lo)) % 256, All) /\ steps[16] = Read
  /\ \A k \in 17 .. Len(steps) : steps[k] \in Afters
  /\ \E k \in 17 .. Len(steps) : steps[k] = Note("has_lock", 1)

\* The parts of those of the PLL.
PllBegin(lo, fine) == << W(\h10, 0, \h10), W(\h1a, 0, \h0c), W(\h12, \h80, \he0), Read,
                         W(\h10, 32 * Tuned(lo, fine), \he0) >>
PllSet(lo) == << W(\h14, Byte14(lo), All), W(\h12, Integral(lo), 8),
                 W(\h16, Sdm(Fra(lo)) \div 256, All), W(\h15, Sdm(Fra(lo)) % 256, All), Read >>
PllAgain(lock) == IF lock = "first" THEN <<>> ELSE << W(\h12, \h60, \he0), Read >>
PllEnd == << Note("has_lock", 1), W(\h1a, 8, 8) >>

LEMMA PllLocks ==
  ASSUME NEW lo, NEW fine, NEW lock, SetPll(lo, fine, lock).locked
  PROVE  /\ SetPll(lo, fine, lock).steps
              = PllBegin(lo, fine) \o (PllSet(lo) \o PllAgain(lock) \o PllEnd)
         /\ SetPll(lo, fine, lock).rc = 0
<1> DEFINE nint == Nint(lo)
           valid == nint <= (128 \div VcoPowerRef) - 1
           end == IF lock = "no" THEN << Note("has_lock", 0) >>
                  ELSE << Note("has_lock", 1), W(\h1a, 8, 8) >>
           steps == PllBegin(lo, fine)
                      \o (IF valid THEN PllSet(lo) \o PllAgain(lock) \o end ELSE <<>>)
<1>1. SetPll(lo, fine, lock)
        = [steps |-> steps, rc |-> IF valid THEN 0 ELSE -1, locked |-> valid /\ lock # "no"]
  BY DEF SetPll, Vco, Nint, Fra, Byte14, Integral, Tuned, PllBegin, PllSet, PllAgain
<1> HIDE DEF steps
<1>2. valid \in BOOLEAN
  OBVIOUS
<1> DEFINE locked == valid /\ lock # "no"
<1> HIDE DEF locked, valid
<1>3. /\ SetPll(lo, fine, lock).steps = steps
      /\ SetPll(lo, fine, lock).rc = IF valid THEN 0 ELSE -1
      /\ SetPll(lo, fine, lock).locked = locked
  <2>1. SetPll(lo, fine, lock)
          = [steps |-> steps, rc |-> IF valid THEN 0 ELSE -1, locked |-> locked]
    BY <1>1 DEF locked
  <2> QED
    BY <2>1
<1>4. valid /\ lock # "no"
  BY <1>2, <1>3 DEF locked
<1> QED
  BY <1>3, <1>4 DEF steps, PllEnd

Regroups(s, u, w) == (s \o u) \o w = s \o (u \o w)
LEMMA Regroup ==
  ASSUME NEW A, NEW s \in Seq(A), NEW u \in Seq(A), NEW w \in Seq(A)
  PROVE  Regroups(s, u, w)
BY DEF Regroups

\* Writes of V's values include those of the tuning.
TuningIn(V, lo, a, b, c, d, e) ==
  /\ W(\h17, Range(lo)[2], \h08) \in Steps(V) /\ W(\h1a, Range(lo)[3], \hc3) \in Steps(V)
  /\ W(\h1b, Range(lo)[4], All) \in Steps(V) /\ W(\h10, 0, \h0b) \in Steps(V)
  /\ W(\h08, 0, \h3f) \in Steps(V) /\ W(\h09, 0, \h3f) \in Steps(V)
  /\ W(\h10, 0, \h10) \in Steps(V) /\ W(\h1a, 0, \h0c) \in Steps(V)
  /\ W(\h12, \h80, \he0) \in Steps(V) /\ W(\h10, a, \he0) \in Steps(V)
  /\ W(\h14, b, All) \in Steps(V) /\ W(\h12, c, 8) \in Steps(V)
  /\ W(\h16, d, All) \in Steps(V) /\ W(\h15, e, All) \in Steps(V)
  /\ Read \in Steps(V) /\ Afters \subseteq Steps(V)

LEMMA TuningWrites ==
  ASSUME NEW lo, NEW a, NEW b, NEW c, NEW d, NEW e
  PROVE  \E V : TuningIn(V, lo, a, b, c, d, e)
<1> DEFINE V == {0, \h80, \h60, 8, a, b, c, d, e, Range(lo)[2], Range(lo)[3], Range(lo)[4]}
           A == Steps(V)
<1> DEFINE at == Range(lo)
<1>8. /\ 0 \in V /\ \h80 \in V /\ \h60 \in V /\ 8 \in V /\ a \in V /\ b \in V /\ c \in V /\ d \in V
      /\ e \in V /\ at[2] \in V /\ at[3] \in V /\ at[4] \in V
  OBVIOUS
<1> HIDE DEF V, at
<1>9. /\ 5 \in Regs /\ 8 \in Regs /\ 9 \in Regs /\ \h10 \in Regs /\ \h12 \in Regs
      /\ \h14 \in Regs /\ \h15 \in Regs /\ \h16 \in Regs /\ \h17 \in Regs
      /\ \h1a \in Regs /\ \h1b \in Regs /\ All \in 0 .. 255
  BY DEF Regs, All
<1>1. /\ W(\h17, Range(lo)[2], \h08) \in A /\ W(\h1a, Range(lo)[3], \hc3) \in A
      /\ W(\h1b, Range(lo)[4], All) \in A /\ W(\h10, 0, \h0b) \in A
      /\ W(\h08, 0, \h3f) \in A /\ W(\h09, 0, \h3f) \in A
  BY <1>8, <1>9, WIsStep DEF at
<1>2. /\ W(\h10, 0, \h10) \in A /\ W(\h1a, 0, \h0c) \in A /\ W(\h12, \h80, \he0) \in A
      /\ W(\h10, a, \he0) \in A
  BY <1>8, <1>9, WIsStep
<1>3. /\ W(\h14, b, All) \in A /\ W(\h12, c, 8) \in A /\ W(\h16, d, All) \in A
      /\ W(\h15, e, All) \in A
  <2>1. W(\h14, b, All) \in A
    BY <1>8, <1>9, WIsStep
  <2>3. W(\h12, c, 8) \in A
    <3>1. 8 \in 0 .. 255
      OBVIOUS
    <3> QED
      BY <1>8, <1>9, <3>1, WIsStep
  <2>2. W(\h16, d, All) \in A /\ W(\h15, e, All) \in A
    BY <1>8, <1>9, WIsStep
  <2> QED
    BY <2>1, <2>2, <2>3
<1>4. /\ W(\h12, \h60, \he0) \in A /\ W(\h1a, 8, 8) \in A /\ W(5, 0, \h60) \in A
      /\ W(5, \h60, \h60) \in A
  BY <1>8, <1>9, WIsStep
<1>5. Read \in A /\ Note("has_lock", 1) \in A
  BY OthersAreCalm DEF Steps
<1>6. Note("input", 0) \in A /\ Note("input", \h60) \in A
  BY DEF Steps
<1> HIDE DEF A
<1>7. Afters \subseteq A
  BY <1>4, <1>5, <1>6 DEF Afters
<1> QED
  BY <1>1, <1>2, <1>3, <1>5, <1>7 DEF A, TuningIn

\* A tuning that locks is a sequence of steps that is known one by one.
LEMMA TuningSteps ==
  ASSUME NEW lo, NEW fine, NEW lock, NEW input \in Seq(Afters),
         SetPll(lo, fine, lock).locked
  PROVE  \E V : LET steps == SetMux(lo) \o SetPll(lo, fine, lock).steps \o input
                IN  steps \in Seq(Steps(V)) /\ Described(steps, lo, fine)
<1> DEFINE a == 32 * Tuned(lo, fine)
           b == Byte14(lo)
           c == Integral(lo)
           d == Sdm(Fra(lo)) \div 256
           e == Sdm(Fra(lo)) % 256
           mux == SetMux(lo)
           begin == PllBegin(lo, fine)
           set == PllSet(lo)
           again == PllAgain(lock)
           end == PllEnd
           tail == again \o end \o input
           steps == mux \o (begin \o (set \o tail))
<1>1. PICK V : TuningIn(V, lo, a, b, c, d, e)
  <2> HIDE DEF a, b, c, d, e
  <2> QED
    BY TuningWrites
<1> DEFINE A == Steps(V)
<1> HIDE DEF A
<1>2. /\ mux \in Seq(A) /\ Len(mux) = 6
      /\ mux[1] = W(\h17, Range(lo)[2], \h08) /\ mux[2] = W(\h1a, Range(lo)[3], \hc3)
      /\ mux[3] = W(\h1b, Range(lo)[4], All) /\ mux[4] = W(\h10, 0, \h0b)
      /\ mux[5] = W(\h08, 0, \h3f) /\ mux[6] = W(\h09, 0, \h3f)
  <2> HIDE DEF a, b, c, d, e
  <2> QED
    BY <1>1 DEF SetMux, A, TuningIn
<1>3. /\ begin \in Seq(A) /\ Len(begin) = 5
      /\ begin[1] = W(\h10, 0, \h10) /\ begin[2] = W(\h1a, 0, \h0c)
      /\ begin[3] = W(\h12, \h80, \he0) /\ begin[4] = Read /\ begin[5] = W(\h10, a, \he0)
  <2>1. begin = << W(\h10, 0, \h10), W(\h1a, 0, \h0c), W(\h12, \h80, \he0), Read,
                   W(\h10, a, \he0) >>
    BY DEF PllBegin
  <2> HIDE DEF a, b, c, d, e, begin
  <2> QED
    BY <1>1, <2>1 DEF A, TuningIn
<1>4. /\ set \in Seq(A) /\ Len(set) = 5
      /\ set[1] = W(\h14, b, All) /\ set[2] = W(\h12, c, 8) /\ set[3] = W(\h16, d, All)
      /\ set[4] = W(\h15, e, All) /\ set[5] = Read
  <2>1. set = << W(\h14, b, All), W(\h12, c, 8), W(\h16, d, All), W(\h15, e, All), Read >>
    BY DEF PllSet
  <2> HIDE DEF a, b, c, d, e, set
  <2> QED
    BY <1>1, <2>1 DEF A, TuningIn
<1>5. again \in Seq(Afters) /\ end \in Seq(Afters) /\ Len(end) = 2 /\ end[1] = Note("has_lock", 1)
  <2>1. /\ Read \in Afters /\ Note("has_lock", 1) \in Afters
        /\ W(\h12, \h60, \he0) \in Afters /\ W(\h1a, 8, 8) \in Afters
    BY DEF Afters
  <2>2. << W(\h12, \h60, \he0), Read >> \in Seq(Afters)
    BY <2>1
  <2>3. /\ PllEnd \in Seq(Afters) /\ Len(PllEnd) = 2 /\ PllEnd[1] = Note("has_lock", 1)
    BY <2>1 DEF PllEnd
  <2>4. <<>> \in Seq(Afters)
    OBVIOUS
  <2> QED
    BY <2>2, <2>3, <2>4 DEF PllAgain
<1> HIDE DEF a, b, c, d, e, mux, begin, set, again, end
<1>6. /\ tail \in Seq(Afters) /\ Len(tail) \in Nat
      /\ \A k \in 1 .. Len(tail) : tail[k] \in Afters
      /\ \E k \in 1 .. Len(tail) : tail[k] = Note("has_lock", 1)
  <2>1. Joins(Afters, again, end)
    BY <1>5, Join
  <2>2. again \o end \in Seq(Afters)
    BY <2>1 DEF Joins
  <2>3. Joins(Afters, again \o end, input)
    BY <2>2, Join
  <2>4. /\ tail[Len(again) + 1] = Note("has_lock", 1) /\ Len(again) + 1 \in 1 .. Len(tail)
    BY <1>5, <2>1, <2>3 DEF Joins
  <2>5. tail \in Seq(Afters)
    BY <2>3 DEF Joins
  <2> HIDE DEF tail
  <2> QED
    BY <2>4, <2>5, SeqElement
<1>7. tail \in Seq(A)
  <2> HIDE DEF tail
  <2> QED
    BY <1>1, <1>6, SeqWider DEF A, TuningIn
<1>8. SetMux(lo) \o SetPll(lo, fine, lock).steps \o input = steps
  <2>1. SetPll(lo, fine, lock).steps = begin \o (set \o again \o end)
    BY PllLocks DEF begin, set, again, end
  <2>2. again \in Seq(A) /\ end \in Seq(A) /\ input \in Seq(A)
    BY <1>1, <1>5, SeqWider DEF A, TuningIn
  <2>3. (mux \o (begin \o (set \o again \o end))) \o input
          = mux \o (begin \o (set \o (again \o end \o input)))
    <3> DEFINE ends == set \o again \o end
    <3>1. ends \o input = set \o tail
      <4>1. set \o again \o end = set \o (again \o end)
        <5>1. Regroups(set, again, end)
          BY <1>4, <2>2, Regroup
        <5> QED
          BY <5>1 DEF Regroups
      <4>2. again \o end \in Seq(A)
        BY <2>2
      <4> DEFINE both == again \o end
      <4> HIDE DEF both
      <4>3. (set \o both) \o input = set \o (both \o input)
        <5>1. Regroups(set, both, input)
          BY <1>4, <2>2, <4>2, Regroup DEF both
        <5> QED
          BY <5>1 DEF Regroups
      <4> QED
        BY <4>1, <4>3 DEF both
    <3>2. ends \in Seq(A)
      BY <1>4, <2>2
    <3> HIDE DEF ends, tail
    <3>3. (begin \o ends) \o input = begin \o (ends \o input)
      <4>1. Regroups(begin, ends, input)
        BY <1>3, <2>2, <3>2, Regroup
      <4> QED
        BY <4>1 DEF Regroups
    <3>4. begin \o ends \in Seq(A)
      BY <1>3, <3>2
    <3> DEFINE whole == begin \o ends
    <3> HIDE DEF whole
    <3>5. (mux \o whole) \o input = mux \o (whole \o input)
      <4>1. Regroups(mux, whole, input)
        BY <1>2, <2>2, <3>4, Regroup DEF whole
      <4> QED
        BY <4>1 DEF Regroups
    <3> QED
      BY <3>1, <3>3, <3>5 DEF whole, ends, tail
  <2> QED
    BY <2>1, <2>3 DEF mux
<1> HIDE DEF tail
<1> DEFINE last == set \o tail
           pll == begin \o last
<1>9. /\ last \in Seq(A) /\ Len(last) = 5 + Len(tail)
      /\ \A k \in 1 .. 5 : last[k] = set[k]
      /\ \A k \in 1 .. Len(tail) : last[5 + k] = tail[k]
  <2>1. Joins(A, set, tail)
    BY <1>4, <1>7, Join
  <2> QED
    BY <1>4, <2>1 DEF Joins
<1> HIDE DEF last
<1>10. /\ pll \in Seq(A) /\ Len(pll) = 5 + Len(last)
       /\ \A k \in 1 .. 5 : pll[k] = begin[k]
       /\ \A k \in 1 .. Len(last) : pll[5 + k] = last[k]
  <2>1. Joins(A, begin, last)
    BY <1>3, <1>9, Join
  <2> QED
    BY <1>3, <2>1 DEF Joins
<1> HIDE DEF pll
<1>11. /\ steps \in Seq(A) /\ Len(steps) = 6 + Len(pll)
       /\ \A k \in 1 .. 6 : steps[k] = mux[k]
       /\ \A k \in 1 .. Len(pll) : steps[6 + k] = pll[k]
  <2>1. Joins(A, mux, pll)
    BY <1>2, <1>10, Join
  <2> QED
    BY <1>2, <2>1 DEF Joins, pll, last
<1> HIDE DEF steps
<1>12. /\ Len(steps) = 16 + Len(tail)
       /\ \A k \in 1 .. 5 : steps[6 + k] = begin[k] /\ steps[11 + k] = set[k]
       /\ \A k \in 1 .. Len(tail) : steps[16 + k] = tail[k]
  <2>1. \A k \in 1 .. 5 : k \in 1 .. Len(pll) /\ k \in 1 .. Len(last) /\ 5 + k \in 1 .. Len(pll)
    <3>1. Len(last) = 5 + Len(tail) /\ Len(pll) = 10 + Len(tail) /\ Len(tail) \in Nat
      BY <1>6, <1>9, <1>10
    <3> QED
      BY <3>1
  <2>2. \A k \in 1 .. 5 : steps[6 + k] = begin[k] /\ steps[6 + (5 + k)] = set[k]
    BY <1>9, <1>10, <1>11, <2>1
  <2>3. ASSUME NEW k \in 1 .. Len(tail) PROVE steps[16 + k] = tail[k]
    <3>1. 5 + k \in 1 .. Len(last) /\ 5 + (5 + k) \in 1 .. Len(pll)
      BY <1>6, <1>9, <1>10
    <3>2. steps[6 + (5 + (5 + k))] = tail[k]
      BY <1>9, <1>10, <1>11, <3>1, ZenonT(30)
    <3> QED
      BY <1>6, <3>2
  <2> QED
    BY <1>6, <1>9, <1>10, <1>11, <2>2, <2>3
<1>13. Described(steps, lo, fine)
  <2>1. ASSUME NEW k \in 17 .. Len(steps) PROVE steps[k] \in Afters
    <3>1. k - 16 \in 1 .. Len(tail) /\ k = 16 + (k - 16)
      BY <1>6, <1>12
    <3> QED
      BY <1>6, <1>12, <3>1
  <2>2. \E k \in 17 .. Len(steps) : steps[k] = Note("has_lock", 1)
    <3>1. PICK k \in 1 .. Len(tail) : tail[k] = Note("has_lock", 1)
      BY <1>6
    <3>2. 16 + k \in 17 .. Len(steps)
      BY <1>6, <1>12
    <3> QED
      BY <1>12, <3>1, <3>2
  <2>3. Len(steps) \in Nat /\ Len(steps) >= 16
    BY <1>6, <1>12
  <2>4. \A k \in 1 .. 6 : steps[k] = mux[k]
    BY <1>11
  <2>5. /\ steps[7] = begin[1] /\ steps[8] = begin[2] /\ steps[9] = begin[3]
        /\ steps[10] = begin[4] /\ steps[11] = begin[5]
        /\ steps[12] = set[1] /\ steps[13] = set[2] /\ steps[14] = set[3]
        /\ steps[15] = set[4] /\ steps[16] = set[5]
    BY <1>12
  <2> QED
    <3>1. /\ steps[1] = W(\h17, Range(lo)[2], \h08) /\ steps[2] = W(\h1a, Range(lo)[3], \hc3)
          /\ steps[3] = W(\h1b, Range(lo)[4], All) /\ steps[4] = W(\h10, 0, \h0b)
          /\ steps[5] = W(\h08, 0, \h3f) /\ steps[6] = W(\h09, 0, \h3f)
      BY <1>2, <2>4
    <3>2. /\ steps[7] = W(\h10, 0, \h10) /\ steps[8] = W(\h1a, 0, \h0c)
          /\ steps[9] = W(\h12, \h80, \he0) /\ steps[10] = Read
          /\ steps[11] = W(\h10, a, \he0)
      BY <1>3, <2>5
    <3>3. /\ steps[12] = W(\h14, b, All) /\ steps[13] = W(\h12, c, 8)
          /\ steps[14] = W(\h16, d, All) /\ steps[15] = W(\h15, e, All) /\ steps[16] = Read
      BY <1>4, <2>5
    <3> QED
      BY <2>1, <2>2, <2>3, <3>1, <3>2, <3>3, Zenon DEF Described, a, b, c, d, e
<1> QED
  BY <1>8, <1>11, <1>13 DEF A
LEMMA MoreMasks ==
  /\ Bits(\hc3) = {0, 1, 6, 7} /\ Bits(\h0c) = {2, 3} /\ Bits(8) = {3}
  /\ Bits(\he0) = {5, 6, 7} /\ Bits(All) = 0 .. 7
<1>1. Bits(\hc3) = {0, 1, 6, 7}
  BY BitsAre, SMT
<1>2. Bits(\h0c) = {2, 3}
  BY BitsAre, SMT
<1>3. Bits(8) = {3}
  BY BitsAre, SMT
<1>4. Bits(\he0) = {5, 6, 7}
  BY BitsAre, SMT
<1>5. Bits(All) = 0 .. 7
  BY BitsAre, SMT DEF All
<1> QED
  BY <1>1, <1>2, <1>3, <1>4, <1>5

\* What the registers of the filter and of the PLL are told, and that it locked.
Programmed(u, filter, div, b, c, sdm) ==
  /\ u.priv.has_lock = 1
  /\ Holds(u, \h1a, filter[3], \hc3) /\ Holds(u, \h1b, filter[4], All)
  /\ Holds(u, \h10, 32 * div, \he0) /\ Holds(u, \h14, b, All) /\ Holds(u, \h12, c, 8)
  /\ Holds(u, \h16, sdm \div 256, All) /\ Holds(u, \h15, sdm % 256, All)

LEMMA AfterSpares ==
  ASSUME NEW step \in Afters
  PROVE  /\ Spares(step, \h1a, \hc3) /\ Spares(step, \h1b, All) /\ Spares(step, \h10, \he0)
         /\ Spares(step, \h14, All) /\ Spares(step, \h12, 8) /\ Spares(step, \h16, All)
         /\ Spares(step, \h15, All)
<1>1. CASE step.kind # "write"
  BY <1>1 DEF Spares
<1>2. CASE step \in {W(5, v, \h60) : v \in {0, \h60}}
  BY <1>2 DEF Spares, W
<1>3. CASE step = W(\h12, \h60, \he0)
  BY <1>3, MoreMasks DEF Spares, W
<1>4. CASE step = W(\h1a, 8, 8)
  BY <1>4, MoreMasks DEF Spares, W
<1> QED
  BY <1>1, <1>2, <1>3, <1>4 DEF Afters, Read, Note

\* The register a step writes, or 0.
Target(step) == IF step.kind = "write" THEN step.reg ELSE 0

LEMMA TargetIs ==
  /\ \A r, v, m : Target(W(r, v, m)) = r
  /\ Target(Read) = 0
  /\ \A step, r, m : Target(step) # r => Spares(step, r, m)
BY DEF Target, W, Read, Spares

LEMMA Targets ==
  ASSUME NEW steps, NEW lo, NEW fine, Described(steps, lo, fine)
  PROVE  /\ Target(steps[3]) = \h1b /\ Target(steps[4]) = \h10 /\ Target(steps[5]) = 8
         /\ Target(steps[6]) = 9 /\ Target(steps[7]) = \h10 /\ Target(steps[8]) = \h1a
         /\ Target(steps[9]) = \h12 /\ Target(steps[10]) = 0 /\ Target(steps[11]) = \h10
         /\ Target(steps[12]) = \h14 /\ Target(steps[13]) = \h12 /\ Target(steps[14]) = \h16
         /\ Target(steps[15]) = \h15 /\ Target(steps[16]) = 0
<1> DEFINE a == 32 * Tuned(lo, fine)
           b == Byte14(lo)
           c == Integral(lo)
           d == Sdm(Fra(lo)) \div 256
           e == Sdm(Fra(lo)) % 256
           f == Range(lo)[4]
<1>1. /\ steps[3] = W(\h1b, f, All) /\ steps[4] = W(\h10, 0, \h0b)
      /\ steps[5] = W(\h08, 0, \h3f) /\ steps[6] = W(\h09, 0, \h3f)
      /\ steps[7] = W(\h10, 0, \h10) /\ steps[8] = W(\h1a, 0, \h0c)
      /\ steps[9] = W(\h12, \h80, \he0) /\ steps[10] = Read
      /\ steps[11] = W(\h10, a, \he0)
      /\ steps[12] = W(\h14, b, All) /\ steps[13] = W(\h12, c, 8)
      /\ steps[14] = W(\h16, d, All) /\ steps[15] = W(\h15, e, All) /\ steps[16] = Read
  BY Zenon DEF Described
<1> HIDE DEF a, b, c, d, e, f
<1> QED
  BY <1>1, TargetIs

LEMMA LockNoted ==
  ASSUME NEW V, NEW t \in Tuner, NEW steps \in Seq(Steps(V)), NEW lo, NEW fine,
         Described(steps, lo, fine), NEW result, NEW o \in Outcomes(t, steps, result)
  PROVE  Ended(o, {u \in Tuner : u.priv.has_lock = 1}, Tuner, result)
<1> DEFINE G == {u \in Tuner : u.priv.has_lock = 1}
           note == Note("has_lock", 1)
<1>1. PICK j \in 17 .. Len(steps) : steps[j] = note
  BY DEF Described
<1>2. j \in 1 .. Len(steps) /\ \A k \in (j + 1) .. Len(steps) : steps[k] \in Afters
  BY SMTT(30) DEF Described
<1>3. \A k \in 1 .. Len(steps) : steps[k] \in Steps(V)
  BY SeqElement
<1>4. ASSUME NEW u \in Tuner PROVE Done(u, note) \in Tuner => Done(u, note) \in G
  <2>1. Noted(u.priv, "has_lock", 1, Store(u.priv, Note("has_lock", 1)))
    BY NoteOne DEF Tuner
  <2> QED
    BY <2>1 DEF Noted, Done
<1>5. ASSUME NEW step \in Afters, NEW u \in G PROVE Done(u, step).priv.has_lock = 1
  <2>1. u.priv \in Priv /\ u \in Tuner /\ Done(u, step).priv = Store(u.priv, step)
    BY DEF Tuner, Done
  <2>2. CASE step = Read
    BY <2>1, <2>2 DEF Read, Store
  <2>3. CASE step = note
    <3>1. Noted(u.priv, "has_lock", 1, Store(u.priv, Note("has_lock", 1)))
      BY <2>1, NoteOne
    <3> QED
      BY <2>1, <2>3, <3>1 DEF Noted
  <2>4. CASE \E v \in {0, \h60} : step = Note("input", v)
    <3>1. PICK v \in {0, \h60} : step = Note("input", v)
      BY <2>4
    <3>2. Noted(u.priv, "input", v, Store(u.priv, Note("input", v)))
      BY <2>1, NoteOne
    <3> QED
      BY <2>1, <3>1, <3>2 DEF Noted
  <2>5. CASE \E r \in Regs, v \in {0, 8, \h60}, m \in 0 .. 255 : step = W(r, v, m)
    <3>1. PICK r \in Regs, v \in {0, 8, \h60}, m \in 0 .. 255 : step = W(r, v, m)
      BY <2>5
    <3>2. Wrote(u.priv, r, v, m, Store(u.priv, W(r, v, m)))
      BY <2>1, WriteOne, SMTT(30)
    <3> QED
      BY <2>1, <3>1, <3>2 DEF Wrote
  <2>6. \h12 \in Regs /\ \h1a \in Regs /\ 5 \in Regs
    BY DEF Regs
  <2> QED
    BY <2>2, <2>3, <2>4, <2>5, <2>6 DEF Afters
<1>6. Closed(steps) /\ G \in SUBSET Tuner
  BY AllClosed
<1>7. \A u \in Tuner : Done(u, steps[j]) \in G
  <2>1. \A u \in Tuner : Done(u, steps[j]) \in Tuner
    BY <1>2, <1>6 DEF Closed
  <2> QED
    BY <1>1, <1>4, <2>1
<1>8. ASSUME NEW k \in (j + 1) .. Len(steps), NEW u \in G PROVE Done(u, steps[k]) \in G
  <2>1. k \in 1 .. Len(steps) /\ u \in Tuner
    BY <1>2
  <2>2. Done(u, steps[k]) \in Tuner
    BY <1>6, <2>1 DEF Closed
  <2> QED
    BY <1>2, <1>5, <2>2
<1> HIDE DEF G
<1>9. Ended(o, G, Tuner, result)
  BY <1>2, <1>6, <1>7, <1>8, Lasting
<1> QED
  BY <1>9 DEF G

\* Step j is the last to write these bits.
WritesLast(steps, j, r, v, m) ==
  /\ j \in 1 .. 16 /\ r \in Regs /\ m \in 0 .. 255 /\ steps[j] = W(r, v, m)
  /\ \A k \in (j + 1) .. 16 : Spares(steps[k], r, m)
  /\ \A step \in Afters : Spares(step, r, m)
Ran(V, t, steps, lo, fine, o) ==
  /\ t \in Tuner /\ steps \in Seq(Steps(V)) /\ Described(steps, lo, fine)
  /\ o \in Outcomes(t, steps, 0) /\ o.rc = 0

LEMMA LastOf ==
  ASSUME NEW V, NEW t, NEW steps, NEW lo, NEW fine, NEW o, Ran(V, t, steps, lo, fine, o),
         NEW j, NEW r, NEW v, NEW m, WritesLast(steps, j, r, v, m)
  PROVE  Holds(o.after, r, v, m)
<1>1. /\ Len(steps) \in Nat /\ Len(steps) >= 16
      /\ \A k \in 17 .. Len(steps) : steps[k] \in Afters
  BY DEF Described, Ran
<1>2. ASSUME NEW k \in (j + 1) .. Len(steps) PROVE Spares(steps[k], r, m)
  <2>1. CASE k >= 17
    BY <1>1, <2>1 DEF WritesLast
  <2>2. CASE k <= 16
    BY <1>1, <2>2 DEF WritesLast
  <2> QED
    BY <1>1, <2>1, <2>2 DEF WritesLast
<1>3. Ended(o, Holding(r, v, m), Tuner, 0)
  <2>1. /\ t \in Tuner /\ steps \in Seq(Steps(V)) /\ o \in Outcomes(t, steps, 0)
        /\ j \in 1 .. Len(steps) /\ r \in Regs /\ m \in 0 .. 255 /\ steps[j] = W(r, v, m)
    BY <1>1 DEF Ran, WritesLast
  <2> QED
    BY <1>2, <2>1, LastWrite
<1> QED
  BY <1>3 DEF Ended, Ran, Holding

\* No step but those undoes the last write of each.
NothingAfter(steps) ==
  /\ \A k \in 3 .. 16 : Spares(steps[k], \h1a, \hc3)
  /\ \A k \in 4 .. 16 : Spares(steps[k], \h1b, All)
  /\ \A k \in 12 .. 16 : Spares(steps[k], \h10, \he0)
  /\ \A k \in 13 .. 16 : Spares(steps[k], \h14, All)
  /\ \A k \in 14 .. 16 : Spares(steps[k], \h12, 8)
  /\ \A k \in 15 .. 16 : Spares(steps[k], \h16, All)
  /\ \A k \in 16 .. 16 : Spares(steps[k], \h15, All)

LEMMA NoneAfter ==
  ASSUME NEW steps, NEW lo, NEW fine, Described(steps, lo, fine)
  PROVE  NothingAfter(steps)
<1>1. /\ Target(steps[3]) = \h1b /\ Target(steps[4]) = \h10 /\ Target(steps[5]) = 8
      /\ Target(steps[6]) = 9 /\ Target(steps[7]) = \h10 /\ Target(steps[8]) = \h1a
      /\ Target(steps[9]) = \h12 /\ Target(steps[10]) = 0 /\ Target(steps[11]) = \h10
      /\ Target(steps[12]) = \h14 /\ Target(steps[13]) = \h12 /\ Target(steps[14]) = \h16
      /\ Target(steps[15]) = \h15 /\ Target(steps[16]) = 0
  BY Targets
<1>2. steps[8] = W(\h1a, 0, \h0c)
  BY Zenon DEF Described
<1>3. Spares(steps[8], \h1a, \hc3)
  BY <1>2, MoreMasks DEF Spares, W
<1>4. ASSUME NEW k \in 3 .. 16 PROVE Spares(steps[k], \h1a, \hc3)
  <2>1. /\ Spares(steps[3], \h1a, \hc3) /\ Spares(steps[4], \h1a, \hc3)
        /\ Spares(steps[5], \h1a, \hc3) /\ Spares(steps[6], \h1a, \hc3)
        /\ Spares(steps[7], \h1a, \hc3) /\ Spares(steps[9], \h1a, \hc3)
        /\ Spares(steps[10], \h1a, \hc3) /\ Spares(steps[11], \h1a, \hc3)
        /\ Spares(steps[12], \h1a, \hc3) /\ Spares(steps[13], \h1a, \hc3)
        /\ Spares(steps[14], \h1a, \hc3) /\ Spares(steps[15], \h1a, \hc3)
        /\ Spares(steps[16], \h1a, \hc3)
    BY <1>1, TargetIs
  <2>2. \/ k = 3 \/ k = 4 \/ k = 5 \/ k = 6 \/ k = 7 \/ k = 8 \/ k = 9 \/ k = 10
        \/ k = 11 \/ k = 12 \/ k = 13 \/ k = 14 \/ k = 15 \/ k = 16
    OBVIOUS
  <2> QED
    BY <1>3, <2>1, <2>2
<1>5. ASSUME NEW k \in 4 .. 16 PROVE Spares(steps[k], \h1b, All)
  <2>1. /\ Spares(steps[4], \h1b, All) /\ Spares(steps[5], \h1b, All)
        /\ Spares(steps[6], \h1b, All) /\ Spares(steps[7], \h1b, All)
        /\ Spares(steps[8], \h1b, All) /\ Spares(steps[9], \h1b, All)
        /\ Spares(steps[10], \h1b, All) /\ Spares(steps[11], \h1b, All)
        /\ Spares(steps[12], \h1b, All) /\ Spares(steps[13], \h1b, All)
        /\ Spares(steps[14], \h1b, All) /\ Spares(steps[15], \h1b, All)
        /\ Spares(steps[16], \h1b, All)
    BY <1>1, TargetIs
  <2>2. \/ k = 4 \/ k = 5 \/ k = 6 \/ k = 7 \/ k = 8 \/ k = 9 \/ k = 10 \/ k = 11
        \/ k = 12 \/ k = 13 \/ k = 14 \/ k = 15 \/ k = 16
    OBVIOUS
  <2> QED
    BY <2>1, <2>2
<1>6. ASSUME NEW k \in 12 .. 16 PROVE Spares(steps[k], \h10, \he0)
  <2>1. /\ Spares(steps[12], \h10, \he0) /\ Spares(steps[13], \h10, \he0)
        /\ Spares(steps[14], \h10, \he0) /\ Spares(steps[15], \h10, \he0)
        /\ Spares(steps[16], \h10, \he0)
    BY <1>1, TargetIs
  <2>2. \/ k = 12 \/ k = 13 \/ k = 14 \/ k = 15 \/ k = 16
    OBVIOUS
  <2> QED
    BY <2>1, <2>2
<1>7. ASSUME NEW k \in 13 .. 16 PROVE Spares(steps[k], \h14, All)
  <2>1. /\ Spares(steps[13], \h14, All) /\ Spares(steps[14], \h14, All)
        /\ Spares(steps[15], \h14, All) /\ Spares(steps[16], \h14, All)
    BY <1>1, TargetIs
  <2>2. \/ k = 13 \/ k = 14 \/ k = 15 \/ k = 16
    OBVIOUS
  <2> QED
    BY <2>1, <2>2
<1>8. ASSUME NEW k \in 14 .. 16 PROVE Spares(steps[k], \h12, 8)
  <2>1. /\ Spares(steps[14], \h12, 8) /\ Spares(steps[15], \h12, 8)
        /\ Spares(steps[16], \h12, 8)
    BY <1>1, TargetIs
  <2>2. \/ k = 14 \/ k = 15 \/ k = 16
    OBVIOUS
  <2> QED
    BY <2>1, <2>2
<1>9. ASSUME NEW k \in 15 .. 16 PROVE Spares(steps[k], \h16, All)
  <2>1. /\ Spares(steps[15], \h16, All) /\ Spares(steps[16], \h16, All)
    BY <1>1, TargetIs
  <2>2. \/ k = 15 \/ k = 16
    OBVIOUS
  <2> QED
    BY <2>1, <2>2
<1>10. ASSUME NEW k \in 16 .. 16 PROVE Spares(steps[k], \h15, All)
  <2>1. /\ Spares(steps[16], \h15, All)
    BY <1>1, TargetIs
  <2>2. \/ k = 16
    OBVIOUS
  <2> QED
    BY <2>1, <2>2
<1> QED
  BY <1>4, <1>5, <1>6, <1>7, <1>8, <1>9, <1>10 DEF NothingAfter

LEMMA Programmes ==
  ASSUME NEW V, NEW t \in Tuner, NEW steps \in Seq(Steps(V)), NEW lo, NEW fine,
         Described(steps, lo, fine), NEW o \in Outcomes(t, steps, 0), o.rc = 0
  PROVE  Programmed(o.after, Range(lo), Tuned(lo, fine), Byte14(lo), Integral(lo), Sdm(Fra(lo)))
<1>1. Ran(V, t, steps, lo, fine, o)
  BY DEF Ran
<1>2. \h15 \in Regs /\ \h16 \in Regs /\ \h14 \in Regs /\ \h12 \in Regs /\ \h10 \in Regs
      /\ \h1a \in Regs /\ \h1b \in Regs
  BY DEF Regs
<1>3. All \in 0 .. 255 /\ NothingAfter(steps)
  BY NoneAfter DEF All
<1>4. Holds(o.after, \h1a, Range(lo)[3], \hc3)
  <2> DEFINE v == Range(lo)[3]
  <2>1. steps[2] = W(\h1a, v, \hc3)
    BY Zenon DEF Described
  <2> HIDE DEF v
  <2>2. \A step \in Afters : Spares(step, \h1a, \hc3)
    BY AfterSpares
  <2>3. 2 \in 1 .. 16 /\ \hc3 \in 0 .. 255 /\ 2 + 1 = 3
    BY <1>3
  <2>4. \A k \in 3 .. 16 : Spares(steps[k], \h1a, \hc3)
    BY <1>3 DEF NothingAfter
  <2>5. WritesLast(steps, 2, \h1a, v, \hc3)
    BY <1>2, <2>1, <2>2, <2>3, <2>4 DEF WritesLast
  <2>6. Holds(o.after, \h1a, v, \hc3)
    BY <1>1, <2>5, LastOf
  <2> QED
    BY <2>6 DEF v
<1>5. Holds(o.after, \h1b, Range(lo)[4], All)
  <2> DEFINE v == Range(lo)[4]
  <2>1. steps[3] = W(\h1b, v, All)
    BY Zenon DEF Described
  <2> HIDE DEF v
  <2>2. \A step \in Afters : Spares(step, \h1b, All)
    BY AfterSpares
  <2>3. 3 \in 1 .. 16 /\ All \in 0 .. 255 /\ 3 + 1 = 4
    BY <1>3
  <2>4. \A k \in 4 .. 16 : Spares(steps[k], \h1b, All)
    BY <1>3 DEF NothingAfter
  <2>5. WritesLast(steps, 3, \h1b, v, All)
    BY <1>2, <2>1, <2>2, <2>3, <2>4 DEF WritesLast
  <2>6. Holds(o.after, \h1b, v, All)
    BY <1>1, <2>5, LastOf
  <2> QED
    BY <2>6 DEF v
<1>6. Holds(o.after, \h10, 32 * Tuned(lo, fine), \he0)
  <2> DEFINE v == 32 * Tuned(lo, fine)
  <2>1. steps[11] = W(\h10, v, \he0)
    BY Zenon DEF Described
  <2> HIDE DEF v
  <2>2. \A step \in Afters : Spares(step, \h10, \he0)
    BY AfterSpares
  <2>3. 11 \in 1 .. 16 /\ \he0 \in 0 .. 255 /\ 11 + 1 = 12
    BY <1>3
  <2>4. \A k \in 12 .. 16 : Spares(steps[k], \h10, \he0)
    BY <1>3 DEF NothingAfter
  <2>5. WritesLast(steps, 11, \h10, v, \he0)
    BY <1>2, <2>1, <2>2, <2>3, <2>4 DEF WritesLast
  <2>6. Holds(o.after, \h10, v, \he0)
    BY <1>1, <2>5, LastOf
  <2> QED
    BY <2>6 DEF v
<1>7. Holds(o.after, \h14, Byte14(lo), All)
  <2> DEFINE v == Byte14(lo)
  <2>1. steps[12] = W(\h14, v, All)
    BY Zenon DEF Described
  <2> HIDE DEF v
  <2>2. \A step \in Afters : Spares(step, \h14, All)
    BY AfterSpares
  <2>3. 12 \in 1 .. 16 /\ All \in 0 .. 255 /\ 12 + 1 = 13
    BY <1>3
  <2>4. \A k \in 13 .. 16 : Spares(steps[k], \h14, All)
    BY <1>3 DEF NothingAfter
  <2>5. WritesLast(steps, 12, \h14, v, All)
    BY <1>2, <2>1, <2>2, <2>3, <2>4 DEF WritesLast
  <2>6. Holds(o.after, \h14, v, All)
    BY <1>1, <2>5, LastOf
  <2> QED
    BY <2>6 DEF v
<1>8. Holds(o.after, \h12, Integral(lo), 8)
  <2> DEFINE v == Integral(lo)
  <2>1. steps[13] = W(\h12, v, 8)
    BY Zenon DEF Described
  <2> HIDE DEF v
  <2>2. \A step \in Afters : Spares(step, \h12, 8)
    BY AfterSpares
  <2>3. 13 \in 1 .. 16 /\ 8 \in 0 .. 255 /\ 13 + 1 = 14
    BY <1>3
  <2>4. \A k \in 14 .. 16 : Spares(steps[k], \h12, 8)
    BY <1>3 DEF NothingAfter
  <2>5. WritesLast(steps, 13, \h12, v, 8)
    BY <1>2, <2>1, <2>2, <2>3, <2>4 DEF WritesLast
  <2>6. Holds(o.after, \h12, v, 8)
    BY <1>1, <2>5, LastOf
  <2> QED
    BY <2>6 DEF v
<1>9. Holds(o.after, \h16, Sdm(Fra(lo)) \div 256, All)
  <2> DEFINE v == Sdm(Fra(lo)) \div 256
  <2>1. steps[14] = W(\h16, v, All)
    BY Zenon DEF Described
  <2> HIDE DEF v
  <2>2. \A step \in Afters : Spares(step, \h16, All)
    BY AfterSpares
  <2>3. 14 \in 1 .. 16 /\ All \in 0 .. 255 /\ 14 + 1 = 15
    BY <1>3
  <2>4. \A k \in 15 .. 16 : Spares(steps[k], \h16, All)
    BY <1>3 DEF NothingAfter
  <2>5. WritesLast(steps, 14, \h16, v, All)
    BY <1>2, <2>1, <2>2, <2>3, <2>4 DEF WritesLast
  <2>6. Holds(o.after, \h16, v, All)
    BY <1>1, <2>5, LastOf
  <2> QED
    BY <2>6 DEF v
<1>10. Holds(o.after, \h15, Sdm(Fra(lo)) % 256, All)
  <2> DEFINE v == Sdm(Fra(lo)) % 256
  <2>1. steps[15] = W(\h15, v, All)
    BY Zenon DEF Described
  <2> HIDE DEF v
  <2>2. \A step \in Afters : Spares(step, \h15, All)
    BY AfterSpares
  <2>3. 15 \in 1 .. 16 /\ All \in 0 .. 255 /\ 15 + 1 = 16
    BY <1>3
  <2>4. \A k \in 16 .. 16 : Spares(steps[k], \h15, All)
    BY <1>3 DEF NothingAfter
  <2>5. WritesLast(steps, 15, \h15, v, All)
    BY <1>2, <2>1, <2>2, <2>3, <2>4 DEF WritesLast
  <2>6. Holds(o.after, \h15, v, All)
    BY <1>1, <2>5, LastOf
  <2> QED
    BY <2>6 DEF v
<1>11. o.after.priv.has_lock = 1
  <2>1. Ended(o, {u \in Tuner : u.priv.has_lock = 1}, Tuner, 0)
    BY LockNoted
  <2> QED
    BY <2>1 DEF Ended
<1> QED
  BY <1>4, <1>5, <1>6, <1>7, <1>8, <1>9, <1>10, <1>11 DEF Programmed

-----------------------------------------------------------------------------
(* The arithmetic of the PLL.                                              *)

\* k rounds leave fra of F, and the bits sdm; H was the last half, and Q its bit.
Close(D, F, k, H, Q, fra, sdm) ==
  /\ fra \in Nat /\ sdm \in Nat /\ fra <= H + k /\ sdm + Q <= 65536
  /\ 0 <= D * sdm - 65536 * (F - fra) /\ D * sdm - 65536 * (F - fra) <= 65536 * k
\* H is half of the half before, and Q the bit that stands for it.
Halves(D, H, Q, before, twice) ==
  /\ H \in Nat /\ before \in Nat /\ Q \in Nat /\ before <= 2 * H + 1 /\ twice = 2 * Q
  /\ 0 <= D * Q - 65536 * H /\ D * Q - 65536 * H <= 65536

LEMMA Round ==
  ASSUME NEW D \in Nat, NEW F \in Int, NEW k \in 1 .. 15, NEW H, NEW before, NEW Q, NEW twice,
         Halves(D, H, Q, before, twice), NEW fra, NEW sdm,
         Close(D, F, k - 1, before, twice, fra, sdm)
  PROVE  /\ fra > 1 /\ fra > H => Close(D, F, k, H, Q, fra - H, sdm + Q)
         /\ ~(fra > 1 /\ fra > H) => Close(D, F, k, H, Q, fra, sdm)
<1>1. /\ H \in Nat /\ before \in Nat /\ Q \in Nat /\ before <= 2 * H + 1 /\ twice = 2 * Q
      /\ 0 <= D * Q - 65536 * H /\ D * Q - 65536 * H <= 65536
  BY DEF Halves
<1>2. /\ fra \in Nat /\ sdm \in Nat /\ fra <= before + (k - 1) /\ sdm + 2 * Q <= 65536
      /\ 0 <= D * sdm - 65536 * (F - fra)
      /\ D * sdm - 65536 * (F - fra) <= 65536 * (k - 1)
  BY <1>1 DEF Close
<1>3. CASE fra > 1 /\ fra > H
  <2>1. D * (sdm + Q) = D * sdm + D * Q /\ D * sdm \in Int /\ D * Q \in Int
    BY <1>1, <1>2
  <2>2. fra - H \in Nat /\ sdm + Q \in Nat /\ fra - H <= H + k /\ (sdm + Q) + Q <= 65536
    BY <1>1, <1>2, <1>3
  <2>3. D * (sdm + Q) - 65536 * (F - (fra - H))
          = (D * sdm - 65536 * (F - fra)) + (D * Q - 65536 * H)
    BY <1>1, <1>2, <2>1
  <2> QED
    BY <1>1, <1>2, <1>3, <2>1, <2>2, <2>3 DEF Close
<1>4. CASE ~(fra > 1 /\ fra > H)
  BY <1>1, <1>2, <1>4 DEF Close
<1> QED
  BY <1>3, <1>4

LEMMA HalvesAre ==
  ASSUME NEW D \in Nat
  PROVE  /\ Halves(D, D \div 2, 32768, D, 65536)
         /\ Halves(D, D \div 4, 16384, D \div 2, 32768)
         /\ Halves(D, D \div 8, 8192, D \div 4, 16384)
         /\ Halves(D, D \div 16, 4096, D \div 8, 8192)
         /\ Halves(D, D \div 32, 2048, D \div 16, 4096)
         /\ Halves(D, D \div 64, 1024, D \div 32, 2048)
         /\ Halves(D, D \div 128, 512, D \div 64, 1024)
         /\ Halves(D, D \div 256, 256, D \div 128, 512)
         /\ Halves(D, D \div 512, 128, D \div 256, 256)
         /\ Halves(D, D \div 1024, 64, D \div 512, 128)
         /\ Halves(D, D \div 2048, 32, D \div 1024, 64)
         /\ Halves(D, D \div 4096, 16, D \div 2048, 32)
         /\ Halves(D, D \div 8192, 8, D \div 4096, 16)
         /\ Halves(D, D \div 16384, 4, D \div 8192, 8)
         /\ Halves(D, D \div 32768, 2, D \div 16384, 4)
<1>1. Halves(D, D \div 2, 32768, D, 65536)
  BY DEF Halves
<1>2. Halves(D, D \div 4, 16384, D \div 2, 32768)
  BY DEF Halves
<1>3. Halves(D, D \div 8, 8192, D \div 4, 16384)
  BY DEF Halves
<1>4. Halves(D, D \div 16, 4096, D \div 8, 8192)
  BY DEF Halves
<1>5. Halves(D, D \div 32, 2048, D \div 16, 4096)
  BY DEF Halves
<1>6. Halves(D, D \div 64, 1024, D \div 32, 2048)
  BY DEF Halves
<1>7. Halves(D, D \div 128, 512, D \div 64, 1024)
  BY DEF Halves
<1>8. Halves(D, D \div 256, 256, D \div 128, 512)
  BY DEF Halves
<1>9. Halves(D, D \div 512, 128, D \div 256, 256)
  BY DEF Halves
<1>10. Halves(D, D \div 1024, 64, D \div 512, 128)
  BY DEF Halves
<1>11. Halves(D, D \div 2048, 32, D \div 1024, 64)
  BY DEF Halves
<1>12. Halves(D, D \div 4096, 16, D \div 2048, 32)
  BY DEF Halves
<1>13. Halves(D, D \div 8192, 8, D \div 4096, 16)
  BY DEF Halves
<1>14. Halves(D, D \div 16384, 4, D \div 8192, 8)
  BY DEF Halves
<1>15. Halves(D, D \div 32768, 2, D \div 16384, 4)
  BY DEF Halves
<1> QED
  BY <1>1, <1>2, <1>3, <1>4, <1>5, <1>6, <1>7, <1>8, <1>9, <1>10, <1>11, <1>12, <1>13, <1>14, <1>15

\* What dividing v by D leaves, when they are such that the quotient is a counter's.
LEMMA Division ==
  ASSUME NEW v \in Nat, NEW D \in Nat, 1770000 <= v, v <= 3539999, 13830 <= D, D <= 65534
  PROVE  /\ (v \div D) % 256 = v \div D /\ v \div D \in 27 .. 255
         /\ v - D * (v \div D) \in 0 .. (D - 1) /\ v = D * (v \div D) + (v - D * (v \div D))
<1> DEFINE q == v \div D
           r == v % D
<1>1. v = D * q + r
  BY SMT
<1>2. q \in Nat
  BY SMT
<1>3. r \in Nat /\ r < D
  BY SMT
<1> HIDE DEF q, r
<1>4. D * q \in Int
  BY <1>2, SMT
<1>5. q <= 255
  <2> SUFFICES ASSUME q >= 256 PROVE FALSE
    BY <1>2, SMT
  <2>1. D * q >= 13830 * q
    BY <1>2, SMT
  <2> QED
    BY <1>1, <1>2, <1>3, <1>4, <2>1, SMT
<1>6. q >= 27
  <2> SUFFICES ASSUME q <= 26 PROVE FALSE
    BY <1>2, SMT
  <2>1. D * q <= 65534 * q
    BY <1>2, SMT
  <2> QED
    BY <1>1, <1>2, <1>3, <1>4, <2>1, SMT
<1>7. v - D * q = r /\ v = D * q + (v - D * q)
  BY <1>1, <1>2, <1>3, <1>4, SMT
<1>8. q % 256 = q
  BY <1>2, <1>5, SMT
<1>9. r \in 0 .. (D - 1) /\ q \in 27 .. 255
  BY <1>2, <1>3, <1>5, <1>6, SMT
<1> QED
  BY <1>7, <1>8, <1>9 DEF q

\* The clocks, in kHz, with which the counter of the PLL is a byte and the rest of
\* the fraction stays small.  Sticks have 16000 or 28800, corrected by their ppm.
Clocks == {k \in Nat : 6915 <= k /\ k <= 32767}
UsualClocks == \A k \in Sticks : k.pll_ref \in Clocks

\* What the oscillator may run at, and the steps of 2 * pll_ref it is counted in.
Oscillates == {x \in Nat : vco_min <= x /\ x < 2 * vco_min}
Combs == {x \in Nat : 13830 <= x /\ x <= 65534}
LEMMA Octave ==
  ASSUME NEW x \in Nat, x >= vco_min, x < 2 * vco_min
  PROVE  x \in Oscillates
BY DEF Oscillates

LEMMA DividerFits ==
  ASSUME NEW lo \in Nat, MixDiv(lo) # 128
  PROVE  MixDiv(lo) \in Dividers /\ Vco(lo) \in Oscillates
<1>1. \E m \in Dividers : Fits(lo, m)
  BY DEF MixDiv
<1>2. PICK m : m = MixDiv(lo) /\ m \in Dividers /\ Fits(lo, m)
  BY <1>1 DEF MixDiv
<1>3. lo * m \in Nat
  BY <1>2, SMT DEF Dividers
<1>4. lo * m >= vco_min /\ lo * m < 2 * vco_min
  BY <1>2, Zenon DEF Fits
<1>5. lo * m \in Oscillates
  BY <1>3, <1>4, Octave
<1> QED
  BY <1>2, <1>5, Zenon DEF Vco

\* The division as one of numbers.
Divides(v, D, q, r) == q = (v \div D) % 256 /\ r = v - D * q
LEMMA DividesInto ==
  ASSUME NEW v \in Oscillates, NEW D \in Combs, NEW q, NEW r, Divides(v, D, q, r)
  PROVE  q \in 27 .. 255 /\ r \in 0 .. (D - 1) /\ v = D * q + r
<1>1. v \in Nat /\ 1770000 <= v /\ v <= 3539999
  BY SMT DEF Oscillates, vco_min
<1>2. D \in Nat /\ 13830 <= D /\ D <= 65534
  BY SMT DEF Combs
<1>3. /\ (v \div D) % 256 = v \div D /\ v \div D \in 27 .. 255
      /\ v - D * (v \div D) \in 0 .. (D - 1) /\ v = D * (v \div D) + (v - D * (v \div D))
  BY <1>1, <1>2, Division, SMT
<1> QED
  BY <1>3, SMT DEF Divides

\* The step of the oscillator for the clock p.
Comb(p) == 2 * p
LEMMA CombIs ==
  ASSUME NEW p \in Clocks
  PROVE  Comb(p) \in Combs /\ Comb(p) \in Nat /\ Comb(p) <= 65534 /\ p \in Nat
<1>1. Comb(p) \in Combs
  BY SMT DEF Clocks, Combs, Comb
<1>2. Comb(p) \in Nat /\ p \in Nat
  BY SMT DEF Clocks, Comb
<1>3. Comb(p) <= 65534
  BY SMT DEF Clocks, Comb
<1> QED
  BY <1>1, <1>2, <1>3

LEMMA NintIs ==
  ASSUME NEW lo \in Nat, MixDiv(lo) # 128, cfg.pll_ref \in Clocks
  PROVE  LET D == Comb(cfg.pll_ref) IN
         /\ Nint(lo) \in 27 .. 255 /\ Fra(lo) \in 0 .. (D - 1)
         /\ Vco(lo) = D * Nint(lo) + Fra(lo)
<1>1. Vco(lo) \in Oscillates
  BY DividerFits
<1>2. Comb(cfg.pll_ref) \in Combs
  BY CombIs
<1>3. Divides(Vco(lo), Comb(cfg.pll_ref), Nint(lo), Fra(lo))
  BY Zenon DEF Divides, Nint, Fra, Comb
<1> QED
  BY <1>1, <1>2, <1>3, DividesInto

LEMMA CounterIs ==
  ASSUME NEW q \in 27 .. 255
  PROVE  /\ Ni(q) \in 0 .. 63 /\ Si(q) \in 0 .. 3 /\ 4 * Ni(q) + Si(q) + 13 = q
         /\ (Ni(q) + 64 * Si(q)) % 256 = Ni(q) + 64 * Si(q)
BY DEF Ni, Si, TruncDiv

-----------------------------------------------------------------------------
(* The fraction.                                                           *)

\* The rounds of the loop of r82xx_set_pll that makes up the fraction.
Half(k) == Comb(cfg.pll_ref) \div 2^k
Rest == [fra : Int, sdm : Int]
After(k, x) == IF x.fra > 1 /\ x.fra > Half(k)
               THEN [fra |-> x.fra - Half(k), sdm |-> x.sdm + 2^(16 - k)] ELSE x
Rounds(g, F) == /\ g[0] = [fra |-> F, sdm |-> 0]
                /\ \A k \in 1 .. 15 : g[k] = After(k, g[k - 1])

LEMMA Powers ==
  /\ 2^1 = 2 /\ 2^2 = 4 /\ 2^3 = 8 /\ 2^4 = 16 /\ 2^5 = 32 /\ 2^6 = 64 /\ 2^7 = 128
  /\ 2^8 = 256 /\ 2^9 = 512 /\ 2^10 = 1024 /\ 2^11 = 2048 /\ 2^12 = 4096
  /\ 2^13 = 8192 /\ 2^14 = 16384 /\ 2^15 = 32768
OBVIOUS

LEMMA PowerIs ==
  ASSUME NEW k \in 1 .. 15
  PROVE  2^k \in Nat /\ 2^k > 0
<1>2. \/ k = 1 \/ k = 2 \/ k = 3 \/ k = 4 \/ k = 5 \/ k = 6 \/ k = 7 \/ k = 8
      \/ k = 9 \/ k = 10 \/ k = 11 \/ k = 12 \/ k = 13 \/ k = 14 \/ k = 15
  OBVIOUS
<1>3. k = 1 => 2^k \in Nat /\ 2^k > 0
  BY Powers, SMT
<1>4. k = 2 => 2^k \in Nat /\ 2^k > 0
  BY Powers, SMT
<1>5. k = 3 => 2^k \in Nat /\ 2^k > 0
  BY Powers, SMT
<1>6. k = 4 => 2^k \in Nat /\ 2^k > 0
  BY Powers, SMT
<1>7. k = 5 => 2^k \in Nat /\ 2^k > 0
  BY Powers, SMT
<1>8. k = 6 => 2^k \in Nat /\ 2^k > 0
  BY Powers, SMT
<1>9. k = 7 => 2^k \in Nat /\ 2^k > 0
  BY Powers, SMT
<1>10. k = 8 => 2^k \in Nat /\ 2^k > 0
  BY Powers, SMT
<1>11. k = 9 => 2^k \in Nat /\ 2^k > 0
  BY Powers, SMT
<1>12. k = 10 => 2^k \in Nat /\ 2^k > 0
  BY Powers, SMT
<1>13. k = 11 => 2^k \in Nat /\ 2^k > 0
  BY Powers, SMT
<1>14. k = 12 => 2^k \in Nat /\ 2^k > 0
  BY Powers, SMT
<1>15. k = 13 => 2^k \in Nat /\ 2^k > 0
  BY Powers, SMT
<1>16. k = 14 => 2^k \in Nat /\ 2^k > 0
  BY Powers, SMT
<1>17. k = 15 => 2^k \in Nat /\ 2^k > 0
  BY Powers, SMT
<1> QED
  BY <1>2, <1>3, <1>4, <1>5, <1>6, <1>7, <1>8, <1>9, <1>10, <1>11, <1>12,
     <1>13, <1>14, <1>15, <1>16, <1>17

LEMMA HalvesTyped ==
  ASSUME NEW k \in 1 .. 15, cfg.pll_ref \in Clocks
  PROVE  Half(k) \in Int /\ 2^(16 - k) \in Int
<1>1. Comb(cfg.pll_ref) \in Nat
  BY CombIs
<1>2. 2^(16 - k) \in Int
  OBVIOUS
<1>3. PICK D \in Nat : D = Comb(cfg.pll_ref)
  BY <1>1
<1>4. PICK n \in Nat : n = 2^k /\ n > 0
  BY PowerIs
<1>5. D \div n \in Int
  BY <1>4, SMT
<1> QED
  BY <1>2, <1>3, <1>4, <1>5, Zenon DEF Half

LEMMA AfterTyped ==
  ASSUME NEW k \in 1 .. 15, cfg.pll_ref \in Clocks, NEW x \in Rest
  PROVE  After(k, x) \in Rest
<1>1. Half(k) \in Int /\ 2^(16 - k) \in Int
  BY HalvesTyped
<1>2. PICK w \in Int : w = 2^(16 - k)
  BY <1>1
<1>3. x.fra - Half(k) \in Int /\ x.sdm + w \in Int
  BY <1>1 DEF Rest
<1> QED
  BY <1>2, <1>3 DEF After, Rest

LEMMA SdmRounds ==
  ASSUME NEW F \in Int, cfg.pll_ref \in Clocks
  PROVE  \E g : Rounds(g, F) /\ Sdm(F) = g[15].sdm
<1> DEFINE next == [ka \in (1 .. 15) \X Rest |-> After(ka[1], ka[2])]
           a == [fra |-> F, sdm |-> 0]
           half(k) == (2 * cfg.pll_ref) \div 2^k
           Is(f) == f = [k \in 0 .. 15 |->
                           IF k = 0 THEN [fra |-> F, sdm |-> 0]
                           ELSE LET p == f[k-1] IN
                             IF p.fra > 1 /\ p.fra > half(k)
                             THEN [fra |-> p.fra - half(k), sdm |-> p.sdm + 2^(16 - k)] ELSE p]
<1>1. next \in [(1 .. 15) \X Rest -> Rest]
  BY AfterTyped
<1>2. PICK h \in Solutions(15, Rest, a, next) : TRUE
  <2> HIDE DEF next
  <2>1. 15 \in Nat /\ a \in Rest
    BY DEF Rest
  <2> HIDE DEF a
  <2>2. Solutions(15, Rest, a, next) # {}
    BY <1>1, <2>1, Recursion
  <2> QED
    BY <2>2
<1>3. /\ h \in [0 .. 15 -> Rest] /\ h[0] = a
      /\ \A k \in 1 .. 15 : h[k] = next[<<k, h[k - 1]>>]
  BY DEF Solutions
<1>4. \A k \in 1 .. 15 : h[k] = After(k, h[k - 1])
  BY <1>3
<1>5. Is(h)
  <2>1. h = [k \in 0 .. 15 |-> IF k = 0 THEN a ELSE After(k, h[k - 1])]
    BY <1>3, <1>4
  <2> QED
    BY <2>1, Zenon DEF After, Half, Comb
<1> DEFINE from == CHOOSE f : Is(f)
<1>6. Is(from)
  BY <1>5
<1>7. Sdm(F) = from[15].sdm
  BY DEF Sdm
<1> HIDE DEF from
<1>8. from[0] = a /\ \A k \in 1 .. 15 : from[k] = After(k, from[k - 1])
  <2>1. from = [k \in 0 .. 15 |-> IF k = 0 THEN a ELSE After(k, from[k - 1])]
    BY <1>6, Zenon DEF After, Half, Comb
  <2>2. \A k \in 1 .. 15 : k \in 0 .. 15 /\ k # 0
    OBVIOUS
  <2>3. 0 \in 0 .. 15
    OBVIOUS
  <2> HIDE DEF a
  <2> QED
    BY <2>1, <2>2, <2>3
<1> QED
  BY <1>7, <1>8 DEF Rounds

LEMMA RoundOf ==
  ASSUME NEW D \in Nat, NEW F \in Int, NEW k \in 1 .. 15, NEW H, NEW Q, NEW before, NEW twice,
         Halves(D, H, Q, before, twice), H = Half(k), Q = 2^(16 - k),
         NEW x, Close(D, F, k - 1, before, twice, x.fra, x.sdm)
  PROVE  Close(D, F, k, H, Q, After(k, x).fra, After(k, x).sdm)
<1>1. CASE x.fra > 1 /\ x.fra > H
  <2>1. After(k, x).fra = x.fra - H /\ After(k, x).sdm = x.sdm + Q
    BY <1>1, Zenon DEF After
  <2> QED
    BY <1>1, <2>1, Round
<1>2. CASE ~(x.fra > 1 /\ x.fra > H)
  <2>1. After(k, x) = x
    BY <1>2, Zenon DEF After
  <2> QED
    BY <1>2, <2>1, Round
<1> QED
  BY <1>1, <1>2

\* Where round k of g is.
Went(g, D, F, k, H, Q) == Close(D, F, k, H, Q, g[k].fra, g[k].sdm)

LEMMA RoundOn ==
  ASSUME NEW D \in Nat, NEW F \in Int, NEW g, Rounds(g, F), NEW k \in 1 .. 15, NEW j, j = k - 1,
         NEW H, NEW Q, NEW before, NEW twice, Halves(D, H, Q, before, twice),
         H = Half(k), Q = 2^(16 - k), Went(g, D, F, j, before, twice)
  PROVE  Went(g, D, F, k, H, Q)
<1>1. g[k] = After(k, g[k - 1])
  BY DEF Rounds
<1>2. Close(D, F, k - 1, before, twice, g[k - 1].fra, g[k - 1].sdm)
  BY DEF Went
<1>3. Close(D, F, k, H, Q, After(k, g[k - 1]).fra, After(k, g[k - 1]).sdm)
  BY <1>2, RoundOf
<1> QED
  BY <1>1, <1>3 DEF Went

LEMMA SdmIsClose ==
  ASSUME NEW D \in Nat, D = Comb(cfg.pll_ref), cfg.pll_ref \in Clocks, NEW F \in Nat, F <= D
  PROVE  \E fra : Close(D, F, 15, D \div 32768, 2, fra, Sdm(F))
<1>1. PICK g : Rounds(g, F) /\ Sdm(F) = g[15].sdm
  BY SdmRounds
<1>2. Went(g, D, F, 0, D, 65536)
  <2>1. g[0].fra = F /\ g[0].sdm = 0
    BY <1>1 DEF Rounds
  <2> QED
    BY <2>1 DEF Went, Close
<1>3. Went(g, D, F, 1, D \div 2, 32768)
  <2>1. Half(1) = D \div 2 /\ 2^(16 - 1) = 32768 /\ 1 - 1 = 0
    BY Powers, SMT DEF Half
  <2>2. Halves(D, D \div 2, 32768, D, 65536)
    BY HalvesAre
  <2> QED
    BY <1>1, <1>2, <2>1, <2>2, RoundOn
<1>4. Went(g, D, F, 2, D \div 4, 16384)
  <2>1. Half(2) = D \div 4 /\ 2^(16 - 2) = 16384 /\ 2 - 1 = 1
    BY Powers, SMT DEF Half
  <2>2. Halves(D, D \div 4, 16384, D \div 2, 32768)
    BY HalvesAre
  <2> QED
    BY <1>1, <1>3, <2>1, <2>2, RoundOn
<1>5. Went(g, D, F, 3, D \div 8, 8192)
  <2>1. Half(3) = D \div 8 /\ 2^(16 - 3) = 8192 /\ 3 - 1 = 2
    BY Powers, SMT DEF Half
  <2>2. Halves(D, D \div 8, 8192, D \div 4, 16384)
    BY HalvesAre
  <2> QED
    BY <1>1, <1>4, <2>1, <2>2, RoundOn
<1>6. Went(g, D, F, 4, D \div 16, 4096)
  <2>1. Half(4) = D \div 16 /\ 2^(16 - 4) = 4096 /\ 4 - 1 = 3
    BY Powers, SMT DEF Half
  <2>2. Halves(D, D \div 16, 4096, D \div 8, 8192)
    BY HalvesAre
  <2> QED
    BY <1>1, <1>5, <2>1, <2>2, RoundOn
<1>7. Went(g, D, F, 5, D \div 32, 2048)
  <2>1. Half(5) = D \div 32 /\ 2^(16 - 5) = 2048 /\ 5 - 1 = 4
    BY Powers, SMT DEF Half
  <2>2. Halves(D, D \div 32, 2048, D \div 16, 4096)
    BY HalvesAre
  <2> QED
    BY <1>1, <1>6, <2>1, <2>2, RoundOn
<1>8. Went(g, D, F, 6, D \div 64, 1024)
  <2>1. Half(6) = D \div 64 /\ 2^(16 - 6) = 1024 /\ 6 - 1 = 5
    BY Powers, SMT DEF Half
  <2>2. Halves(D, D \div 64, 1024, D \div 32, 2048)
    BY HalvesAre
  <2> QED
    BY <1>1, <1>7, <2>1, <2>2, RoundOn
<1>9. Went(g, D, F, 7, D \div 128, 512)
  <2>1. Half(7) = D \div 128 /\ 2^(16 - 7) = 512 /\ 7 - 1 = 6
    BY Powers, SMT DEF Half
  <2>2. Halves(D, D \div 128, 512, D \div 64, 1024)
    BY HalvesAre
  <2> QED
    BY <1>1, <1>8, <2>1, <2>2, RoundOn
<1>10. Went(g, D, F, 8, D \div 256, 256)
  <2>1. Half(8) = D \div 256 /\ 2^(16 - 8) = 256 /\ 8 - 1 = 7
    BY Powers, SMT DEF Half
  <2>2. Halves(D, D \div 256, 256, D \div 128, 512)
    BY HalvesAre
  <2> QED
    BY <1>1, <1>9, <2>1, <2>2, RoundOn
<1>11. Went(g, D, F, 9, D \div 512, 128)
  <2>1. Half(9) = D \div 512 /\ 2^(16 - 9) = 128 /\ 9 - 1 = 8
    BY Powers, SMT DEF Half
  <2>2. Halves(D, D \div 512, 128, D \div 256, 256)
    BY HalvesAre
  <2> QED
    BY <1>1, <1>10, <2>1, <2>2, RoundOn
<1>12. Went(g, D, F, 10, D \div 1024, 64)
  <2>1. Half(10) = D \div 1024 /\ 2^(16 - 10) = 64 /\ 10 - 1 = 9
    BY Powers, SMT DEF Half
  <2>2. Halves(D, D \div 1024, 64, D \div 512, 128)
    BY HalvesAre
  <2> QED
    BY <1>1, <1>11, <2>1, <2>2, RoundOn
<1>13. Went(g, D, F, 11, D \div 2048, 32)
  <2>1. Half(11) = D \div 2048 /\ 2^(16 - 11) = 32 /\ 11 - 1 = 10
    BY Powers, SMT DEF Half
  <2>2. Halves(D, D \div 2048, 32, D \div 1024, 64)
    BY HalvesAre
  <2> QED
    BY <1>1, <1>12, <2>1, <2>2, RoundOn
<1>14. Went(g, D, F, 12, D \div 4096, 16)
  <2>1. Half(12) = D \div 4096 /\ 2^(16 - 12) = 16 /\ 12 - 1 = 11
    BY Powers, SMT DEF Half
  <2>2. Halves(D, D \div 4096, 16, D \div 2048, 32)
    BY HalvesAre
  <2> QED
    BY <1>1, <1>13, <2>1, <2>2, RoundOn
<1>15. Went(g, D, F, 13, D \div 8192, 8)
  <2>1. Half(13) = D \div 8192 /\ 2^(16 - 13) = 8 /\ 13 - 1 = 12
    BY Powers, SMT DEF Half
  <2>2. Halves(D, D \div 8192, 8, D \div 4096, 16)
    BY HalvesAre
  <2> QED
    BY <1>1, <1>14, <2>1, <2>2, RoundOn
<1>16. Went(g, D, F, 14, D \div 16384, 4)
  <2>1. Half(14) = D \div 16384 /\ 2^(16 - 14) = 4 /\ 14 - 1 = 13
    BY Powers, SMT DEF Half
  <2>2. Halves(D, D \div 16384, 4, D \div 8192, 8)
    BY HalvesAre
  <2> QED
    BY <1>1, <1>15, <2>1, <2>2, RoundOn
<1>17. Went(g, D, F, 15, D \div 32768, 2)
  <2>1. Half(15) = D \div 32768 /\ 2^(16 - 15) = 2 /\ 15 - 1 = 14
    BY Powers, SMT DEF Half
  <2>2. Halves(D, D \div 32768, 2, D \div 16384, 4)
    BY HalvesAre
  <2> QED
    BY <1>1, <1>16, <2>1, <2>2, RoundOn
<1> QED
  BY <1>1, <1>17 DEF Went

-----------------------------------------------------------------------------
(* The registers as numbers of the PLL.                                    *)

\* What the two bytes of the fraction hold, and what that is of the clock p.
Words == {x \in Nat : x <= 65535}
LEMMA WordIs ==
  ASSUME NEW s \in Nat, s <= 65534
  PROVE  s \in Words
BY SMT DEF Words

Share(p, sdm) == (p * sdm) \div 32768
\* The fraction those bits make of the comparison frequency p is F, almost.
Makes(p, sdm, F) ==
  sdm \in Words /\ \E y \in Int : y = Share(p, sdm) /\ y - F \in -16 .. 15

LEMMA FractionOf ==
  ASSUME NEW p \in Nat, NEW D \in Nat, D = 2 * p, D <= 65534, NEW F \in Nat, NEW fra, NEW sdm,
         Close(D, F, 15, D \div 32768, 2, fra, sdm)
  PROVE  Makes(p, sdm, F)
<1>1. D \div 32768 <= 1 /\ D \div 32768 \in Nat
  OBVIOUS
<1>2. /\ fra \in Nat /\ sdm \in Nat /\ fra <= 16 /\ sdm <= 65534
      /\ 0 <= D * sdm - 65536 * (F - fra) /\ D * sdm - 65536 * (F - fra) <= 65536 * 15
  BY <1>1 DEF Close
<1>3. PICK P \in Int : P = p * sdm
  BY <1>2
<1>4. D * sdm = 2 * P
  BY <1>2, <1>3
<1>5. 32768 * (F - fra) <= P /\ P <= 32768 * (F - fra) + 32768 * 15
  BY <1>2, <1>4
<1>6. P \div 32768 \in Int /\ P \div 32768 - F \in -16 .. 15
  BY <1>2, <1>5
<1>7. sdm \in Words
  BY <1>2, WordIs
<1>8. P \div 32768 = Share(p, sdm)
  BY <1>3, SMT DEF Share
<1>9. Share(p, sdm) \in Int /\ Share(p, sdm) - F \in -16 .. 15
  BY <1>6, <1>8
<1> QED
  BY <1>7, <1>9 DEF Makes

\* The fraction the chip adds, unless the bit of c tells it not to.
Fraction(p, c, sdm) == IF c = 8 THEN 0 ELSE Share(p, sdm)
\* The byte b counts q.
Counted(b, q) == \E ni \in 0 .. 63, si \in 0 .. 3 : b = ni + 64 * si /\ q = 4 * ni + si + 13
\* The registers of the PLL, as numbers, put it where lo wants it.
AsAsked(p, lo, div, b, c, sdm) ==
  /\ \E q \in Nat : Counted(b, q) /\ Near(Comb(p) * q + Fraction(p, c, sdm), Vco(lo))
  /\ c \in {0, 8} /\ sdm \in Words
  /\ div \in 0 .. 7 /\ div - DivNum(MixDiv(lo)) \in {-1, 0, 1, 7}

LEMMA ByteCounts ==
  ASSUME NEW q \in 27 .. 255
  PROVE  Counted((Ni(q) + 64 * Si(q)) % 256, q)
BY CounterIs, ZenonT(30) DEF Counted

LEMMA DivNumIs ==
  ASSUME NEW m \in Dividers
  PROVE  DivNum(m) \in 0 .. 5
<1>1. \E n \in 0 .. 5 : 2^(n + 1) = m
  <2>1. 0 + 1 = 1 /\ 1 + 1 = 2 /\ 2 + 1 = 3 /\ 3 + 1 = 4 /\ 4 + 1 = 5 /\ 5 + 1 = 6
    OBVIOUS
  <2>2. 2^(0+1) = 2 /\ 2^(1+1) = 4 /\ 2^(2+1) = 8 /\ 2^(3+1) = 16 /\ 2^(4+1) = 32 /\ 2^(5+1) = 64
    BY <2>1, Powers
  <2>3. 0 \in 0 .. 5 /\ 1 \in 0 .. 5 /\ 2 \in 0 .. 5 /\ 3 \in 0 .. 5 /\ 4 \in 0 .. 5 /\ 5 \in 0 .. 5
    OBVIOUS
  <2>4. m = 2 \/ m = 4 \/ m = 8 \/ m = 16 \/ m = 32 \/ m = 64
    BY DEF Dividers
  <2> QED
    BY <2>2, <2>3, <2>4, ZenonT(30)
<1>2. m # 128
  BY DEF Dividers
<1> QED
  BY <1>1, <1>2 DEF DivNum

LEMMA FineTunes ==
  ASSUME NEW n \in 0 .. 5, NEW fine
  PROVE  FineTuned(n, fine) \in 0 .. 7 /\ FineTuned(n, fine) - n \in {-1, 0, 1, 7}
<1>1. /\ (n - 1) % 8 \in 0 .. 7 /\ ((n - 1) % 8) - n \in {-1, 7}
      /\ (n + 1) % 8 \in 0 .. 7 /\ ((n + 1) % 8) - n = 1
      /\ n % 8 = n
  OBVIOUS
<1> QED
  BY <1>1 DEF FineTuned

LEMMA TunesAsAsked ==
  ASSUME NEW lo \in Nat, MixDiv(lo) # 128, cfg.pll_ref \in Clocks, NEW fine
  PROVE  AsAsked(cfg.pll_ref, lo, Tuned(lo, fine), Byte14(lo), Integral(lo), Sdm(Fra(lo)))
<1>1. PICK D \in Nat : D = Comb(cfg.pll_ref) /\ D \in Combs
  BY CombIs
<1>2. Nint(lo) \in 27 .. 255 /\ Fra(lo) \in 0 .. (D - 1) /\ Vco(lo) = D * Nint(lo) + Fra(lo)
  BY <1>1, NintIs
<1>3. PICK q \in 27 .. 255 : q = Nint(lo)
  BY <1>2
<1>4. PICK F \in Nat : F = Fra(lo) /\ F <= D
  BY <1>1, <1>2
<1>5. Counted(Byte14(lo), q)
  BY <1>3, ByteCounts DEF Byte14
<1>6. Makes(cfg.pll_ref, Sdm(F), F)
  <2>1. D <= 65534 /\ cfg.pll_ref \in Nat /\ D \in Nat
    BY <1>1, CombIs
  <2>2. PICK p \in Nat : p = cfg.pll_ref
    BY <2>1
  <2>3. D = 2 * p
    BY <1>1, <2>2 DEF Comb
  <2>4. PICK fra : Close(D, F, 15, D \div 32768, 2, fra, Sdm(F))
    BY <1>1, <1>4, <2>1, SdmIsClose
  <2>5. Makes(p, Sdm(F), F)
    BY <2>1, <2>3, <2>4, FractionOf
  <2> QED
    BY <2>2, <2>5
<1>7. Near(D * q + Fraction(cfg.pll_ref, Integral(lo), Sdm(F)), Vco(lo))
  <2>1. PICK x \in Int : x = D * q
    BY <1>3
  <2>2. Vco(lo) = x + F
    BY <1>2, <1>3, <1>4, <2>1
  <2>3. CASE F = 0
    <3>1. Integral(lo) = 8
      BY <1>4, <2>3 DEF Integral
    <3>2. Fraction(cfg.pll_ref, Integral(lo), Sdm(F)) = 0
      BY <3>1 DEF Fraction
    <3>3. x + 0 - (x + F) \in -16 .. 16
      BY <2>3
    <3> QED
      BY <2>1, <2>2, <3>2, <3>3 DEF Near
  <2>4. CASE F # 0
    <3>1. Integral(lo) = 0
      BY <1>4, <2>4 DEF Integral
    <3>2. Fraction(cfg.pll_ref, Integral(lo), Sdm(F)) = Share(cfg.pll_ref, Sdm(F))
      BY <3>1 DEF Fraction
    <3>3. PICK y \in Int : y = Share(cfg.pll_ref, Sdm(F)) /\ y - F \in -16 .. 15
      BY <1>6 DEF Makes
    <3>4. x + y - (x + F) \in -16 .. 16
      BY <3>3
    <3> QED
      BY <2>1, <2>2, <3>2, <3>3, <3>4 DEF Near
  <2> QED
    BY <2>3, <2>4
<1>8. MixDiv(lo) \in Dividers
  BY DividerFits
<1>9. Tuned(lo, fine) \in 0 .. 7 /\ Tuned(lo, fine) - DivNum(MixDiv(lo)) \in {-1, 0, 1, 7}
  BY <1>8, DivNumIs, FineTunes DEF Tuned
<1>10. Integral(lo) \in {0, 8}
  BY DEF Integral
<1>11. q \in Nat
  BY <1>3
<1>12. Sdm(F) \in Words
  BY <1>6 DEF Makes
<1> QED
  BY <1>1, <1>4, <1>5, <1>7, <1>9, <1>10, <1>11, <1>12, Zenon DEF AsAsked

-----------------------------------------------------------------------------
(* Bytes.                                                                  *)

LEMMA LessMasks ==
  /\ Bits(\h3f) = 0 .. 5 /\ Bits(\hc0) = {6, 7}
<1>1. Bits(\h3f) = 0 .. 5
  BY BitsAre, SMT
<1>2. Bits(\hc0) = {6, 7}
  BY BitsAre, SMT
<1> QED
  BY <1>1, <1>2

\* x and v have the same bits of m; and those of v alone.
Agree(x, v, m) == x \cap Bits(m) = Bits(v) \cap Bits(m)
Masked(v, m) == Weighed(Bits(v) \cap Bits(m))

LEMMA Reads ==
  ASSUME NEW x, NEW v, NEW m \in 0 .. 255, Agree(x, v, m)
  PROVE  Number(x, m) = Masked(v, m)
<1>1. Number(x, m) = Weighed(x \cap Bits(m))
  BY NumberIs
<1> QED
  BY <1>1, Zenon DEF Agree, Masked

\* The bit of v of weight w, weighed.
Part(v, w) == IF (v \div w) % 2 = 1 THEN w ELSE 0

LEMMA Parts ==
  ASSUME NEW v \in 0 .. 255
  PROVE  /\ Part(v, 1) + Part(v, 2) + Part(v, 4) + Part(v, 8) + Part(v, 16) + Part(v, 32) = v % 64
         /\ Part(v, 64) + Part(v, 128) = 64 * (v \div 64)
         /\ Part(v, 32) + Part(v, 64) + Part(v, 128) = 32 * (v \div 32)
         /\ (v % 64) + 64 * (v \div 64) = v
<1>1. /\ Part(v, 1) = v % 2 /\ Part(v, 2) = 2 * ((v \div 2) % 2)
      /\ Part(v, 4) = 4 * ((v \div 4) % 2) /\ Part(v, 8) = 8 * ((v \div 8) % 2)
      /\ Part(v, 16) = 16 * ((v \div 16) % 2) /\ Part(v, 32) = 32 * ((v \div 32) % 2)
      /\ Part(v, 64) = 64 * ((v \div 64) % 2) /\ Part(v, 128) = 128 * ((v \div 128) % 2)
  BY DEF Part
<1>2. (v % 2) + 2 * ((v \div 2) % 2) + 4 * ((v \div 4) % 2) + 8 * ((v \div 8) % 2)
        + 16 * ((v \div 16) % 2) + 32 * ((v \div 32) % 2) = v % 64
  OBVIOUS
<1>3. 64 * ((v \div 64) % 2) + 128 * ((v \div 128) % 2) = 64 * (v \div 64)
  OBVIOUS
<1>4. 32 * ((v \div 32) % 2) + 64 * ((v \div 64) % 2) + 128 * ((v \div 128) % 2) = 32 * (v \div 32)
  OBVIOUS
<1>5. (v % 64) + 64 * (v \div 64) = v
  OBVIOUS
<1> QED
  BY <1>1, <1>2, <1>3, <1>4, <1>5

LEMMA Weights ==
  ASSUME NEW v \in 0 .. 255
  PROVE  /\ Weight(Bits(v), 0, 1) = Part(v, 1) /\ Weight(Bits(v), 1, 2) = Part(v, 2)
         /\ Weight(Bits(v), 2, 4) = Part(v, 4) /\ Weight(Bits(v), 3, 8) = Part(v, 8)
         /\ Weight(Bits(v), 4, 16) = Part(v, 16) /\ Weight(Bits(v), 5, 32) = Part(v, 32)
         /\ Weight(Bits(v), 6, 64) = Part(v, 64) /\ Weight(Bits(v), 7, 128) = Part(v, 128)
BY BitsAre DEF Weight, Part

LEMMA Reading ==
  ASSUME NEW v \in 0 .. 255
  PROVE  /\ Masked(v, \h3f) = v % 64
         /\ Masked(v, \hc0) = 64 * (v \div 64)
         /\ Masked(v, \he0) = 32 * (v \div 32)
         /\ Masked(v, All) = v
<1> DEFINE w(i, k) == Weight(Bits(v), i, k)
<1>1. /\ w(0, 1) \in Int /\ w(1, 2) \in Int /\ w(2, 4) \in Int /\ w(3, 8) \in Int
      /\ w(4, 16) \in Int /\ w(5, 32) \in Int /\ w(6, 64) \in Int /\ w(7, 128) \in Int
  BY DEF Weight
<1>2. Masked(v, \h3f) = w(0, 1) + w(1, 2) + w(2, 4) + w(3, 8) + w(4, 16) + w(5, 32)
  BY LessMasks DEF Masked, Weighed, Weight
<1>3. Masked(v, \hc0) = w(6, 64) + w(7, 128)
  BY LessMasks DEF Masked, Weighed, Weight
<1>4. Masked(v, \he0) = w(5, 32) + w(6, 64) + w(7, 128)
  BY MoreMasks DEF Masked, Weighed, Weight
<1>5. Masked(v, All) = w(0, 1) + w(1, 2) + w(2, 4) + w(3, 8) + w(4, 16) + w(5, 32)
                                        + w(6, 64) + w(7, 128)
  BY MoreMasks DEF Masked, Weighed, Weight
<1>6. /\ w(0, 1) = Part(v, 1) /\ w(1, 2) = Part(v, 2) /\ w(2, 4) = Part(v, 4)
      /\ w(3, 8) = Part(v, 8)
      /\ w(4, 16) = Part(v, 16) /\ w(5, 32) = Part(v, 32) /\ w(6, 64) = Part(v, 64)
      /\ w(7, 128) = Part(v, 128)
  BY Weights
<1>7. /\ Part(v, 1) + Part(v, 2) + Part(v, 4) + Part(v, 8) + Part(v, 16) + Part(v, 32) = v % 64
      /\ Part(v, 64) + Part(v, 128) = 64 * (v \div 64)
      /\ Part(v, 32) + Part(v, 64) + Part(v, 128) = 32 * (v \div 32)
      /\ (v % 64) + 64 * (v \div 64) = v /\ v % 64 \in Int /\ 64 * (v \div 64) \in Int
  BY Parts
<1> HIDE DEF w
<1> QED
  BY <1>1, <1>2, <1>3, <1>4, <1>5, <1>6, <1>7

LEMMA FilterNumber ==
  ASSUME NEW x, NEW v \in {2, \h40, \h41}, Agree(x, v, \hc3)
  PROVE  Number(x, \hc3) = v
<1>1. Number(x, \hc3) = Masked(v, \hc3)
  <2>1. \hc3 \in 0 .. 255
    OBVIOUS
  <2> QED
    BY <2>1, Reads
<1>2. Bits(2) = {1} /\ Bits(\h40) = {6} /\ Bits(\h41) = {0, 6}
  <2>1. Bits(2) = {1}
    BY BitsAre, SMT
  <2>2. Bits(\h40) = {6}
    BY BitsAre, SMT
  <2>3. Bits(\h41) = {0, 6}
    BY BitsAre, SMT
  <2> QED
    BY <2>1, <2>2, <2>3
<1>3. CASE v = 2
  BY <1>1, <1>2, <1>3, MoreMasks DEF Masked, Weighed, Weight
<1>4. CASE v = \h40
  BY <1>1, <1>2, <1>4, MoreMasks DEF Masked, Weighed, Weight
<1>5. CASE v = \h41
  BY <1>1, <1>2, <1>5, MoreMasks DEF Masked, Weighed, Weight
<1> QED
  BY <1>3, <1>4, <1>5

LEMMA CounterNumber ==
  ASSUME NEW x, NEW b, NEW q, Counted(b, q), Agree(x, b, All)
  PROVE  4 * Number(x, \h3f) + (Number(x, \hc0) \div 64) + 13 = q
<1>1. PICK ni \in 0 .. 63, si \in 0 .. 3 : b = ni + 64 * si /\ q = 4 * ni + si + 13
  BY DEF Counted
<1>2. b \in 0 .. 255 /\ b % 64 = ni /\ b \div 64 = si
  BY <1>1
<1>3. Agree(x, b, \h3f) /\ Agree(x, b, \hc0)
  BY LessMasks, MoreMasks DEF Agree
<1>4. Number(x, \h3f) = ni
  <2>1. \h3f \in 0 .. 255
    OBVIOUS
  <2>2. Number(x, \h3f) = Masked(b, \h3f)
    BY <1>3, <2>1, Reads
  <2> QED
    BY <1>2, <2>2, Reading
<1>5. Number(x, \hc0) = 64 * si
  <2>1. \hc0 \in 0 .. 255
    OBVIOUS
  <2>2. Number(x, \hc0) = Masked(b, \hc0)
    BY <1>3, <2>1, Reads
  <2> QED
    BY <1>2, <2>2, Reading
<1> QED
  BY <1>1, <1>4, <1>5

-----------------------------------------------------------------------------
\* The filters.  Every frequency is in a row of the table.
Row(i) == freq_ranges[i]
LEMMA RowsAre ==
  ASSUME NEW i \in 1 .. 21
  PROVE  Row(i)[1] \in Nat /\ Row(i)[3] \in {2, \h40, \h41} /\ Row(i)[4] \in 0 .. 255
<1>1. \/ i = 1 \/ i = 2 \/ i = 3 \/ i = 4 \/ i = 5 \/ i = 6 \/ i = 7 \/ i = 8 \/ i = 9
      \/ i = 10 \/ i = 11 \/ i = 12 \/ i = 13 \/ i = 14 \/ i = 15 \/ i = 16 \/ i = 17
      \/ i = 18 \/ i = 19 \/ i = 20 \/ i = 21
  OBVIOUS
<1> QED
  BY <1>1, SMTT(60) DEF Row, freq_ranges

LEMMA FirstRow ==
  Len(freq_ranges) = 21 /\ DOMAIN freq_ranges = 1 .. 21 /\ Row(1)[1] = 0
BY DEF freq_ranges, Row

LEMMA InARow ==
  ASSUME NEW f \in Nat
  PROVE  \E i \in 1 .. 21 : Row(i)[1] <= f /\ (i = 21 \/ f < Row(i + 1)[1])
<1> SUFFICES ASSUME \A i \in 1 .. 21 : ~(Row(i)[1] <= f /\ (i = 21 \/ f < Row(i + 1)[1]))
             PROVE  FALSE
  OBVIOUS
<1> DEFINE P == {k \in 0 .. 20 : Row(k + 1)[1] <= f}
<1>1. 0 \in P
  BY FirstRow
<1>2. ASSUME NEW k \in 1 .. 20, k - 1 \in P PROVE k \in P
  <2>1. (k - 1) + 1 = k /\ k \in 1 .. 21 /\ k # 21 /\ k + 1 \in 1 .. 21
    OBVIOUS
  <2>2. Row(k)[1] <= f
    BY <1>2, <2>1
  <2>3. ~(f < Row(k + 1)[1]) /\ Row(k + 1)[1] \in Nat
    BY <2>1, <2>2, RowsAre
  <2> QED
    BY <2>3
<1>3. P \in SUBSET (0 .. 20)
  OBVIOUS
<1> HIDE DEF P
<1>4. P = 0 .. 20
  BY <1>1, <1>2, <1>3, Reaches
<1>5. 20 \in P
  BY <1>4
<1>6. Row(21)[1] <= f
  BY <1>5 DEF P
<1> QED
  BY <1>6

LEMMA RangeIs ==
  ASSUME NEW lo \in Nat
  PROVE  Range(lo)[3] \in {2, \h40, \h41} /\ Range(lo)[4] \in 0 .. 255
<1> DEFINE f == lo \div 1000
           In(i) == Row(i)[1] <= f /\ (i = 21 \/ f < Row(i + 1)[1])
           last == CHOOSE i \in 1 .. 21 : In(i)
<1>1. f \in Nat
  OBVIOUS
<1>2. Range(lo) = Row(last)
  <2> DEFINE At(n, i) == /\ freq_ranges[i][1] <= f
                         /\ i = n \/ f < freq_ranges[i + 1][1]
  <2>1. Range(lo) = freq_ranges[CHOOSE i \in DOMAIN freq_ranges : At(Len(freq_ranges), i)]
    BY DEF Range
  <2> HIDE DEF f
  <2>2. Range(lo) = freq_ranges[CHOOSE i \in 1 .. 21 : At(21, i)]
    BY <2>1, FirstRow, Zenon
  <2> QED
    BY <2>2, Zenon DEF Row
<1> HIDE DEF f
<1>3. \E i \in 1 .. 21 : In(i)
  BY <1>1, InARow
<1> HIDE DEF In
<1>4. last \in 1 .. 21
  BY <1>3
<1> HIDE DEF last
<1> QED
  BY <1>2, <1>4, RowsAre

-----------------------------------------------------------------------------
(* What was programmed is what was asked.                                  *)

\* The registers a tuning leaves written.
Fresh == {\h10, \h12, \h14, \h15, \h16, \h1a, \h1b}

LEMMA HeldBits ==
  ASSUME NEW r, NEW v, NEW m, Holds(Now, r, v, m)
  PROVE  Agree(Shadow(r), v, m) /\ r \notin stale
BY Zenon DEF Holds, Now, Shadow, Agree

LEMMA IntegralBit ==
  ASSUME NEW x, NEW c \in {0, 8}, Agree(x, c, 8)
  PROVE  3 \in x <=> c = 8
BY Masks, MoreMasks DEF Agree

LEMMA WordNumber ==
  ASSUME NEW x, NEW y, NEW s \in Words, Agree(x, s \div 256, All), Agree(y, s % 256, All)
  PROVE  256 * Number(x, All) + Number(y, All) = s
<1>1. s \in Nat /\ s <= 65535
  BY DEF Words
<1>2. s \div 256 \in 0 .. 255 /\ s % 256 \in 0 .. 255 /\ 256 * (s \div 256) + (s % 256) = s
  BY <1>1
<1>3. All \in 0 .. 255
  BY DEF All
<1>4. Number(x, All) = s \div 256
  <2>1. Number(x, All) = Masked(s \div 256, All)
    BY <1>3, Reads
  <2> QED
    BY <1>2, <2>1, Reading
<1>5. Number(y, All) = s % 256
  <2>1. Number(y, All) = Masked(s % 256, All)
    BY <1>3, Reads
  <2> QED
    BY <1>2, <2>1, Reading
<1> QED
  BY <1>2, <1>4, <1>5

LEMMA WhereAsked ==
  ASSUME NEW lo \in Nat, NEW div, NEW b, NEW c, NEW sdm,
         Programmed(Now, Range(lo), div, b, c, sdm), AsAsked(cfg.pll_ref, lo, div, b, c, sdm)
  PROVE  /\ priv.has_lock = 1 /\ Near(VcoIs, Vco(lo))
         /\ (Number(Shadow(\h10), \he0) \div 32) - DivNum(MixDiv(lo)) \in {-1, 0, 1, 7}
         /\ Number(Shadow(\h1b), All) = Range(lo)[4]
         /\ Number(Shadow(\h1a), \hc3) = Range(lo)[3]
         /\ stale \cap Fresh = {}
<1>1. /\ Now.priv.has_lock = 1
      /\ Holds(Now, \h1a, Range(lo)[3], \hc3) /\ Holds(Now, \h1b, Range(lo)[4], All)
      /\ Holds(Now, \h10, 32 * div, \he0) /\ Holds(Now, \h14, b, All) /\ Holds(Now, \h12, c, 8)
      /\ Holds(Now, \h16, sdm \div 256, All) /\ Holds(Now, \h15, sdm % 256, All)
  BY Zenon DEF Programmed
<1>2. PICK q \in Nat :
        /\ Counted(b, q)
        /\ Near(Comb(cfg.pll_ref) * q + Fraction(cfg.pll_ref, c, sdm), Vco(lo))
  BY DEF AsAsked
<1>3. /\ c \in {0, 8} /\ sdm \in Words
      /\ div \in 0 .. 7 /\ div - DivNum(MixDiv(lo)) \in {-1, 0, 1, 7}
  BY DEF AsAsked
<1>4. All \in 0 .. 255 /\ \he0 \in 0 .. 255
  BY DEF All
<1>5. priv.has_lock = 1
  BY <1>1 DEF Now
<1>6. Near(VcoIs, Vco(lo))
  <2>1. N = q
    <3>1. Agree(Shadow(\h14), b, All)
      BY <1>1, HeldBits
    <3> QED
      BY <1>2, <3>1, CounterNumber DEF N
  <2>2. SdmIs = sdm
    <3>1. Agree(Shadow(\h16), sdm \div 256, All) /\ Agree(Shadow(\h15), sdm % 256, All)
      BY <1>1, HeldBits
    <3> QED
      BY <1>3, <3>1, WordNumber DEF SdmIs
  <2>3. 3 \in Shadow(\h12) <=> c = 8
    <3>1. Agree(Shadow(\h12), c, 8)
      BY <1>1, HeldBits
    <3> QED
      BY <1>3, <3>1, IntegralBit
  <2>4. VcoIs = Comb(cfg.pll_ref) * N
                + (IF 3 \in Shadow(\h12) THEN 0 ELSE Share(cfg.pll_ref, SdmIs))
    BY DEF VcoIs, Comb, Share
  <2>5. VcoIs = Comb(cfg.pll_ref) * q + Fraction(cfg.pll_ref, c, sdm)
    BY <2>1, <2>2, <2>3, <2>4, Zenon DEF Fraction
  <2> QED
    BY <1>2, <2>5
<1>7. (Number(Shadow(\h10), \he0) \div 32) - DivNum(MixDiv(lo)) \in {-1, 0, 1, 7}
  <2>1. Agree(Shadow(\h10), 32 * div, \he0)
    BY <1>1, HeldBits
  <2>2. /\ 32 * div \in 0 .. 255 /\ (32 * div) \div 32 = div
        /\ (32 * ((32 * div) \div 32)) \div 32 = div
    BY <1>3
  <2>3. Number(Shadow(\h10), \he0) = Masked(32 * div, \he0)
    BY <1>4, <2>1, Reads
  <2>4. Masked(32 * div, \he0) = 32 * ((32 * div) \div 32)
    BY <2>2, Reading
  <2>5. Number(Shadow(\h10), \he0) \div 32 = div
    BY <2>2, <2>3, <2>4
  <2> QED
    BY <1>3, <2>5
<1>8. Range(lo)[3] \in {2, \h40, \h41} /\ Range(lo)[4] \in 0 .. 255
  BY RangeIs
<1>9. Number(Shadow(\h1b), All) = Range(lo)[4]
  <2>1. Agree(Shadow(\h1b), Range(lo)[4], All)
    BY <1>1, HeldBits
  <2>2. Number(Shadow(\h1b), All) = Masked(Range(lo)[4], All)
    BY <1>4, <2>1, Reads
  <2> QED
    BY <1>8, <2>2, Reading
<1>10. Number(Shadow(\h1a), \hc3) = Range(lo)[3]
  <2>1. Agree(Shadow(\h1a), Range(lo)[3], \hc3)
    BY <1>1, HeldBits
  <2> QED
    BY <1>8, <2>1, FilterNumber
<1>11. stale \cap Fresh = {}
  <2>1. /\ \h1a \notin stale /\ \h1b \notin stale /\ \h10 \notin stale /\ \h14 \notin stale
        /\ \h12 \notin stale /\ \h16 \notin stale /\ \h15 \notin stale
    BY <1>1, HeldBits
  <2> QED
    BY <2>1 DEF Fresh
<1> QED
  BY <1>5, <1>6, <1>7, <1>9, <1>10, <1>11

-----------------------------------------------------------------------------
(* What the other operations leave of it.                                  *)

\* The tuner u was told to be at lo.
Told(p, u, lo) == \E div, b, c, sdm :
  Programmed(u, Range(lo), div, b, c, sdm) /\ AsAsked(p, lo, div, b, c, sdm)
\* Inductive together with DriverInv.
TuneInv ==
  /\ cfg \in Sticks /\ tuned \in Freqs \cup {None}
  /\ ready = "yes" /\ tuned # None /\ MixDiv(tuned + 3570) # 128 =>
       Told(cfg.pll_ref, Now, tuned + 3570)

\* Steps that leave alone what a tuning wrote.
KeepsTuning(t, u) ==
  /\ u.priv.has_lock = t.priv.has_lock
  /\ \A r \in Fresh : u.priv.regs[r - 4] = t.priv.regs[r - 4] /\ (r \in u.stale <=> r \in t.stale)
Aside(V) == {Read} \cup {W(r, v, m) : r \in {5, 7, \h0c}, v \in V, m \in 0 .. 255}

LEMMA AsideStep ==
  ASSUME NEW V, NEW u \in Tuner, NEW step \in Aside(V)
  PROVE  /\ Done(u, step) \in Tuner /\ Lost(u, step) \in Tuner
         /\ KeepsTuning(u, Done(u, step)) /\ KeepsTuning(u, Lost(u, step))
<1>1. CASE step = Read
  BY <1>1 DEF Read, Done, Lost, Store, Touched, KeepsTuning, Tuner
<1>2. CASE \E r \in {5, 7, \h0c}, v \in V, m \in 0 .. 255 : step = W(r, v, m)
  <2>1. PICK r \in {5, 7, \h0c}, v \in V, m \in 0 .. 255 : step = W(r, v, m)
    BY <1>2
  <2>2. r \in Regs /\ r \notin Fresh /\ Fresh \subseteq Regs
    BY DEF Regs, Fresh
  <2>3. Written(u, r, v, m, Done(u, step)) /\ Written(u, r, v, m, Lost(u, step))
    BY <2>1, <2>2, WriteStep
  <2>4. Done(u, step).stale = u.stale \ {r} /\ Lost(u, step).stale = u.stale \cup {r}
    BY <2>1 DEF Done, Lost, Touched, W
  <2> QED
    BY <2>2, <2>3, <2>4 DEF Written, KeepsTuning
<1> QED
  BY <1>1, <1>2 DEF Aside

LEMMA AsideIsStep == \A V : Aside(V) \subseteq Steps(V)
<1> SUFFICES ASSUME NEW V PROVE Aside(V) \subseteq Steps(V)
  OBVIOUS
<1>1. Read \in Steps(V)
  BY DEF Steps, Calm
<1>2. \A r \in Regs, v \in V, m \in 0 .. 255 : W(r, v, m) \in Steps(V)
  BY WIsStep
<1>3. 5 \in Regs /\ 7 \in Regs /\ \h0c \in Regs
  BY DEF Regs
<1> QED
  BY <1>1, <1>2, <1>3 DEF Aside

LEMMA AsideEnding ==
  ASSUME NEW V, NEW t \in Tuner, NEW steps \in Seq(Aside(V)),
         NEW result, NEW o \in Outcomes(t, steps, result)
  PROVE  Ended(o, {u \in Tuner : KeepsTuning(t, u)}, {u \in Tuner : KeepsTuning(t, u)}, result)
<1> DEFINE Like == {u \in Tuner : KeepsTuning(t, u)}
           S == [k \in Nat |-> Like]
<1>1. \A k \in 1 .. Len(steps) : steps[k] \in Aside(V)
  OBVIOUS
<1>2. Leads(steps, S, Like)
  <2> SUFFICES ASSUME NEW k \in 1 .. Len(steps), NEW u \in Like
               PROVE  Done(u, steps[k]) \in Like /\ Lost(u, steps[k]) \in Like
    BY DEF Leads
  <2>1. /\ Done(u, steps[k]) \in Tuner /\ Lost(u, steps[k]) \in Tuner
        /\ KeepsTuning(u, Done(u, steps[k])) /\ KeepsTuning(u, Lost(u, steps[k]))
    BY <1>1, AsideStep
  <2> QED
    BY <2>1 DEF KeepsTuning
<1>3. Closed(steps)
  <2>1. steps \in Seq(Steps(V))
    BY AsideIsStep, SeqWider
  <2> QED
    BY <2>1, AllClosed
<1>4. t \in S[0] /\ S[Len(steps)] = Like
  BY DEF KeepsTuning
<1> HIDE DEF S, Like
<1>5. Ended(o, S[Len(steps)], Like, result)
  BY <1>2, <1>3, <1>4, Ending
<1> QED
  BY <1>4, <1>5 DEF Like

LEMMA KeptProgram ==
  ASSUME NEW p, NEW t, NEW u, KeepsTuning(t, u), NEW lo, Told(p, t, lo)
  PROVE  Told(p, u, lo)
<1>1. PICK div, b, c, sdm :
        Programmed(t, Range(lo), div, b, c, sdm) /\ AsAsked(p, lo, div, b, c, sdm)
  BY DEF Told
<1>2. ASSUME NEW r \in Fresh, NEW v, NEW m, Holds(t, r, v, m) PROVE Holds(u, r, v, m)
  BY <1>2 DEF KeepsTuning, Holds
<1>3. /\ \h1a \in Fresh /\ \h1b \in Fresh /\ \h10 \in Fresh /\ \h14 \in Fresh
      /\ \h12 \in Fresh /\ \h16 \in Fresh /\ \h15 \in Fresh
  BY DEF Fresh
<1>4. u.priv.has_lock = t.priv.has_lock
  BY DEF KeepsTuning
<1>5. Programmed(u, Range(lo), div, b, c, sdm)
  BY <1>1, <1>2, <1>3, <1>4, ZenonT(30) DEF Programmed
<1> QED
  BY <1>1, <1>5, Zenon DEF Told

LEMMA AsideTunes ==
  ASSUME TuneInv, DriverInv, NEW V, NEW steps \in Seq(Aside(V)), NEW result, Takes(steps, result),
         cfg' = cfg, ready' = ready, tuned' = tuned
  PROVE  TuneInv'
<1> DEFINE Like == {u \in Tuner : KeepsTuning(Now, u)}
<1>1. PICK o \in Outcomes(Now, steps, result) :
        priv' = o.after.priv /\ stale' = o.after.stale /\ rc' = o.rc
  BY TakesOne
<1>2. Now \in Tuner
  BY DEF DriverInv
<1>3. Ended(o, Like, Like, result)
  BY <1>1, <1>2, AsideEnding
<1>4. Like \in SUBSET Tuner
  OBVIOUS
<1>5. Reached(Like, Like, result)
  <2> HIDE DEF Like
  <2> QED
    BY <1>1, <1>3, <1>4, OutcomeReached
<1>6. KeepsTuning(Now, Now')
  BY <1>5 DEF Reached
<1>7. ASSUME ready' = "yes", tuned' # None, MixDiv(tuned' + 3570) # 128
      PROVE  Told(cfg'.pll_ref, Now', tuned' + 3570)
  <2>1. Told(cfg.pll_ref, Now, tuned + 3570)
    BY <1>7 DEF TuneInv
  <2>2. Told(cfg.pll_ref, Now', tuned + 3570)
    BY <1>6, <2>1, KeptProgram
  <2> QED
    BY <2>2
<1>8. cfg' \in Sticks /\ tuned' \in Freqs \cup {None}
  BY DEF TuneInv
<1> QED
  BY <1>7, <1>8 DEF TuneInv

LEMMA ManualTunes ==
  ASSUME TuneInv, DriverInv, NEW gain \in Gains, SetManualGain(gain)
  PROVE  TuneInv'
<1> DEFINE l == LnaIndex(Turns(gain))
           m == MixIndex(Turns(gain))
           V == {0, \h10, 8, l, m}
           steps == << W(5, \h10, \h10), W(7, 0, \h10), Read, W(\h0c, 8, \h9f),
                       W(5, l, \h0f), W(7, m, \h0f) >>
<1>1. Takes(steps, 0) /\ cfg' = cfg /\ ready' = ready /\ tuned' = tuned
  BY DEF SetManualGain
<1> HIDE DEF l, m
<1>2. /\ W(5, \h10, \h10) \in Aside(V) /\ W(7, 0, \h10) \in Aside(V) /\ Read \in Aside(V)
      /\ W(\h0c, 8, \h9f) \in Aside(V)
  BY DEF Aside
<1>3. W(5, l, \h0f) \in Aside(V) /\ W(7, m, \h0f) \in Aside(V)
  BY DEF Aside
<1> HIDE DEF V
<1>4. steps \in Seq(Aside(V))
  BY <1>2, <1>3
<1> HIDE DEF steps
<1> QED
  BY <1>1, <1>4, AsideTunes

LEMMA AutoTunes ==
  ASSUME TuneInv, DriverInv, SetAutoGain
  PROVE  TuneInv'
<1> DEFINE V == {0, \h10, \h0b}
           steps == << W(5, 0, \h10), W(7, \h10, \h10), W(\h0c, \h0b, \h9f) >>
<1>1. Takes(steps, 0) /\ cfg' = cfg /\ ready' = ready /\ tuned' = tuned
  BY DEF SetAutoGain
<1>2. /\ W(5, 0, \h10) \in Aside(V) /\ W(7, \h10, \h10) \in Aside(V)
      /\ W(\h0c, \h0b, \h9f) \in Aside(V)
  BY DEF Aside
<1> HIDE DEF V
<1>3. steps \in Seq(Aside(V))
  BY <1>2
<1> HIDE DEF steps
<1> QED
  BY <1>1, <1>3, AsideTunes

-----------------------------------------------------------------------------
(* The tuning.                                                             *)

\* A tuning that locked, all of whose transfers were done, programmes what was asked.
LEMMA LockTells ==
  ASSUME cfg.pll_ref \in Clocks, Now \in Tuner, NEW lo \in Nat, MixDiv(lo) # 128,
         NEW fine, NEW lock, SetPll(lo, fine, lock).locked, NEW input \in Seq(Afters),
         Takes(SetMux(lo) \o SetPll(lo, fine, lock).steps \o input, 0), rc' = 0
  PROVE  Told(cfg.pll_ref, Now', lo)
<1> DEFINE steps == SetMux(lo) \o SetPll(lo, fine, lock).steps \o input
<1>1. PICK V : steps \in Seq(Steps(V)) /\ Described(steps, lo, fine)
  BY TuningSteps, Zenon
<1>2. Takes(steps, 0)
  OBVIOUS
<1> HIDE DEF steps
<1>3. PICK o \in Outcomes(Now, steps, 0) :
        priv' = o.after.priv /\ stale' = o.after.stale /\ rc' = o.rc
  BY <1>2, TakesOne
<1>4. o.after = Now'
  <2>1. Ended(o, Tuner, Tuner, 0)
    BY <1>1, <1>3, TypedEnding
  <2>2. o.after \in Tuner
    BY <2>1 DEF Ended
  <2> QED
    BY <1>3, <2>2 DEF Now, Tuner
<1>5. Programmed(o.after, Range(lo), Tuned(lo, fine), Byte14(lo), Integral(lo), Sdm(Fra(lo)))
  BY <1>1, <1>3, Programmes
<1>6. AsAsked(cfg.pll_ref, lo, Tuned(lo, fine), Byte14(lo), Integral(lo), Sdm(Fra(lo)))
  BY TunesAsAsked
<1> QED
  BY <1>4, <1>5, <1>6, Zenon DEF Told

LEMMA FreqTunes ==
  ASSUME UsualClocks, TuneInv, DriverInv, NEW freq \in Freqs, SetFreq(freq)
  PROVE  TuneInv'
<1>1. PICK fine \in Fines, lock \in Locks :
        LET lo_freq == freq + priv.int_freq
            pll == SetPll(lo_freq, fine, lock)
            moves == /\ pll.locked /\ cfg.rafael_chip = "R828D"
                     /\ air_cable1_in(freq) # priv.input
            input == IF ~moves THEN <<>>
                     ELSE << Note("input", air_cable1_in(freq)), W(5, air_cable1_in(freq), \h60) >>
            steps == SetMux(lo_freq) \o pll.steps \o input
        IN /\ Takes(steps, pll.rc)
           /\ tuned' = IF rc' = 0 /\ pll.locked THEN freq ELSE None
           /\ UNCHANGED <<cfg, ready, manual>>
  BY DEF SetFreq
<1> DEFINE lo_freq == freq + priv.int_freq
           pll == SetPll(lo_freq, fine, lock)
           v == air_cable1_in(freq)
           moves == pll.locked /\ cfg.rafael_chip = "R828D" /\ v # priv.input
           input == IF ~moves THEN <<>> ELSE << Note("input", v), W(5, v, \h60) >>
<1>2. /\ Takes(SetMux(lo_freq) \o SetPll(lo_freq, fine, lock).steps \o input, pll.rc)
      /\ tuned' = IF rc' = 0 /\ pll.locked THEN freq ELSE None
      /\ cfg' = cfg /\ ready' = ready
  BY <1>1
<1>3. input \in Seq(Afters)
  <2>1. v \in {0, \h60}
    BY DEF air_cable1_in
  <2> HIDE DEF v, moves
  <2>2. Note("input", v) \in Afters /\ W(5, v, \h60) \in Afters
    BY <2>1 DEF Afters
  <2>3. << Note("input", v), W(5, v, \h60) >> \in Seq(Afters) /\ <<>> \in Seq(Afters)
    BY <2>2
  <2> QED
    BY <2>3
<1> HIDE DEF input, moves, v
<1>4. ASSUME ready' = "yes", tuned' # None, MixDiv(tuned' + 3570) # 128
      PROVE  Told(cfg'.pll_ref, Now', tuned' + 3570)
  <2>1. rc' = 0 /\ pll.locked /\ tuned' = freq
    BY <1>2, <1>4
  <2>2. lo_freq = freq + 3570
    BY <1>2, <1>4 DEF DriverInv, FreqNoted
  <2>3. lo_freq \in Nat
    BY <2>2, R82xxAssumption
  <2>4. cfg.pll_ref \in Clocks
    BY DEF TuneInv, UsualClocks
  <2>5. pll.rc = 0
    <3> HIDE DEF lo_freq
    <3> QED
      BY <2>1, PllLocks
  <2>6. Now \in Tuner
    BY DEF DriverInv
  <2>7. MixDiv(lo_freq) # 128 /\ tuned' + 3570 = lo_freq
    BY <1>4, <2>1, <2>2
  <2> HIDE DEF lo_freq
  <2>8. Takes(SetMux(lo_freq) \o SetPll(lo_freq, fine, lock).steps \o input, 0)
    BY <1>2, <2>5
  <2>9. SetPll(lo_freq, fine, lock).locked
    BY <2>1
  <2>10. Told(cfg.pll_ref, Now', lo_freq)
    BY <1>3, <2>1, <2>3, <2>4, <2>6, <2>7, <2>8, <2>9, LockTells
  <2> QED
    BY <1>2, <2>7, <2>10
<1>5. cfg' \in Sticks /\ tuned' \in Freqs \cup {None}
  BY <1>2 DEF TuneInv
<1> QED
  BY <1>4, <1>5 DEF TuneInv

(***************************************************************************)
(* With the clocks sticks have, a frequency that was set with success and  *)
(* within the chip's range is the one that the registers of the chip ask   *)
(* for, to 16 kHz at the oscillator, in the filters of its band; whatever  *)
(* else was called since, and whatever failed before.                      *)
(***************************************************************************)
THEOREM TunesWhereAsked == ASSUME UsualClocks PROVE Spec => []TunedAsAsked
<1>1. Init => TuneInv
  BY DEF Init, TuneInv
<1>2. DriverInv /\ TuneInv /\ [Next]_vars => TuneInv'
  <2> SUFFICES ASSUME DriverInv, TuneInv, [Next]_vars PROVE TuneInv'
    OBVIOUS
  <2>1. CASE r82xx_init
    <3>1. tuned' = None /\ cfg' = cfg
      BY <2>1 DEF r82xx_init
    <3> QED
      BY <3>1 DEF TuneInv
  <2>2. CASE \E freq \in Freqs : SetFreq(freq)
    BY <2>2, FreqTunes
  <2>3. CASE \E gain \in Gains : SetManualGain(gain)
    BY <2>3, ManualTunes
  <2>4. CASE SetAutoGain
    BY <2>4, AutoTunes
  <2>5. CASE Standby
    <3>1. tuned' = None /\ cfg' = cfg
      BY <2>5 DEF Standby
    <3> QED
      BY <3>1 DEF TuneInv
  <2>6. CASE UNCHANGED vars
    BY <2>6 DEF vars, TuneInv, Now
  <2> QED
    BY <2>1, <2>2, <2>3, <2>4, <2>5, <2>6 DEF Next, Use
<1>3. DriverInv /\ TuneInv => TunedAsAsked
  <2> DEFINE low == tuned + 3570
             Right(lo) ==
               /\ priv.has_lock = 1 /\ Near(VcoIs, Vco(lo))
               /\ (Number(Shadow(\h10), \he0) \div 32) - DivNum(MixDiv(lo)) \in {-1, 0, 1, 7}
               /\ Number(Shadow(\h1b), All) = Range(lo)[4]
               /\ Number(Shadow(\h1a), \hc3) = Range(lo)[3]
               /\ stale \cap Fresh = {}
  <2> SUFFICES ASSUME DriverInv, TuneInv, ready = "yes", tuned # None, MixDiv(low) # 128
               PROVE  Right(low)
    BY DEF TunedAsAsked, Vco, Fresh
  <2>1. PICK lo \in Nat : lo = low
    BY R82xxAssumption DEF TuneInv
  <2>2. PICK div, b, c, sdm : /\ Programmed(Now, Range(lo), div, b, c, sdm)
                              /\ AsAsked(cfg.pll_ref, lo, div, b, c, sdm)
    BY <2>1 DEF TuneInv, Told
  <2> HIDE DEF low
  <2>3. Right(lo)
    BY <2>2, WhereAsked
  <2> HIDE DEF Right
  <2> QED
    BY <2>1, <2>3
<1> QED
  BY <1>1, <1>2, <1>3, DriverInvariant, PTL DEF Spec
=============================================================================
