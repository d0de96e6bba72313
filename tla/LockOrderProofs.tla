-------------------------- MODULE LockOrderProofs ---------------------------
(***************************************************************************)
(* The locks of the payment paths, for any number of threads of each kind. *)
(***************************************************************************)
EXTENDS LockOrder, SequenceTheorems, TLAPS

Steps == [op : {"lock", "try", "unlock"}, lock : Locks, skip : Nat]

\* How often a thread is inside each lock.  It enters the pool's only inside
\* cs_main.
Depths == {d \in [Locks -> 0 .. MaxDepth] : d["mempool.cs"] > 0 => d["cs_main"] > 0}

Outside == [l \in Locks |-> 0]
Inner(d, l) == [d EXCEPT ![l] = @ + 1]
Outer(d, l) == [d EXCEPT ![l] = @ - 1]

\* The order of the locks.  The pool's has no place in it: cs_main guards it.
Rank == [l \in Locks |-> CASE l = "cs_main"        -> 0
                           [] l = "mnodeman.cs"    -> 1
                           [] l = "cs_vNodes"      -> 2
                           [] l = "cs_vSend"       -> 3
                           [] l = "voteTracker.cs" -> 4
                           [] l = "mempool.cs"     -> 5]

Ascends(d, l) ==
  l # "mempool.cs" /\ \A k \in Locks : d[k] > 0 /\ k # "mempool.cs" => Rank[k] < Rank[l]

\* What LOCK does: enter again, enter the guarded pool, go up in the order, or
\* one of the two entries against it, which nobody makes who has the tracker's.
Allowed(d, l) ==
  \/ d[l] > 0
  \/ l = "mempool.cs" /\ d["cs_main"] > 0
  \/ Ascends(d, l)
  \/ /\ d["voteTracker.cs"] = 0
     /\ \/ d["mnodeman.cs"] > 0 /\ l = "cs_main"
        \/ d["cs_vSend"] > 0 /\ l = "cs_vNodes"

\* Step a, taken rather than skipped, leads from depth d to depth e.
Moves(a, d, e) ==
  /\ a.op = "lock" => Allowed(d, a.lock)
  /\ a.op # "unlock" => e = Inner(d, a.lock)
  /\ a.op = "unlock" => d[a.lock] > 0 /\ e = Outer(d, a.lock)

\* h says how deep a thread is before each step of s and after the last; a block
\* that is skipped would have led back to the depth before it.
Follows(s, h) ==
  /\ s \in Seq(Steps) /\ h \in [1 .. Len(s) + 1 -> Depths]
  /\ \A i \in 1 .. Len(s) :
       /\ Moves(s[i], h[i], h[i + 1])
       /\ s[i].op = "try" => i + s[i].skip <= Len(s) /\ h[i + s[i].skip + 1] = h[i]

\* A thread that goes through s from depth d stays in order and ends at e.
Leads(s, d, e) == \E h : Follows(s, h) /\ h[1] = d /\ h[Len(s) + 1] = e
Returns(s, d) == Leads(s, d, d)

-----------------------------------------------------------------------------
\* Blocks put together.

\* What Follows says of its arguments.
LEMMA FollowsTypes ==
  ASSUME NEW s, NEW h, Follows(s, h)
  PROVE  /\ s \in Seq(Steps) /\ Len(s) \in Nat
         /\ h \in [1 .. Len(s) + 1 -> Depths]
         /\ \A i \in 1 .. Len(s) : s[i] \in Steps /\ s[i].skip \in Nat /\ s[i].lock \in Locks
<1>1. s \in Seq(Steps) /\ h \in [1 .. Len(s) + 1 -> Depths]
  BY DEF Follows
<1>2. Len(s) \in Nat
  BY <1>1, LenProperties
<1>3. \A i \in 1 .. Len(s) : s[i] \in Steps
  BY <1>1, ElementOfSeq
<1>4. \A a \in Steps : a.skip \in Nat /\ a.lock \in Locks
  BY DEF Steps
<1> QED  BY <1>1, <1>2, <1>3, <1>4

\* An empty block.
LEMMA ReturnsNothing ==
  ASSUME NEW d \in Depths
  PROVE  Returns(Nothing, d)
<1> DEFINE h == [i \in 1 .. 1 |-> d]
<1>1. <<>> \in Seq(Steps) /\ Len(<<>>) = 0
  BY EmptySeq
<1>2. h \in [1 .. Len(<<>>) + 1 -> Depths] /\ h[1] = d /\ h[Len(<<>>) + 1] = d
  BY <1>1
<1> HIDE DEF h
<1>3. Follows(<<>>, h)
  BY <1>1, <1>2 DEF Follows
<1> QED  BY <1>2, <1>3 DEF Returns, Leads, Nothing

\* One block after another.
LEMMA ReturnsThen ==
  ASSUME NEW d, NEW s, NEW r, Returns(s, d), Returns(r, d)
  PROVE  Returns(s \o r, d)
<1> DEFINE m == Len(s)
           n == Len(r)
           q == s \o r
<1>1. PICK g : Follows(s, g) /\ g[1] = d /\ g[m + 1] = d
  BY DEF Returns, Leads
<1>2. PICK k : Follows(r, k) /\ k[1] = d /\ k[n + 1] = d
  BY DEF Returns, Leads
<1>3. /\ s \in Seq(Steps) /\ r \in Seq(Steps) /\ m \in Nat /\ n \in Nat
      /\ g \in [1 .. m + 1 -> Depths] /\ k \in [1 .. n + 1 -> Depths]
      /\ \A i \in 1 .. m : s[i].skip \in Nat
      /\ \A i \in 1 .. n : r[i].skip \in Nat
  BY <1>1, <1>2, FollowsTypes
<1>4. /\ q \in Seq(Steps) /\ Len(q) = m + n
      /\ \A i \in 1 .. m + n : q[i] = IF i <= m THEN s[i] ELSE r[i - m]
  BY <1>3, ConcatProperties
<1>5. \A i \in 1 .. m :
        /\ Moves(s[i], g[i], g[i + 1])
        /\ s[i].op = "try" => i + s[i].skip <= m /\ g[i + s[i].skip + 1] = g[i]
  BY <1>1 DEF Follows
<1>6. \A i \in 1 .. n :
        /\ Moves(r[i], k[i], k[i + 1])
        /\ r[i].op = "try" => i + r[i].skip <= n /\ k[i + r[i].skip + 1] = k[i]
  BY <1>2 DEF Follows
<1> HIDE DEF m, n, q
<1> DEFINE h == [i \in 1 .. m + n + 1 |-> IF i <= m THEN g[i] ELSE k[i - m]]
<1>7. \A i \in 1 .. m + n + 1 :
        h[i] \in Depths /\ (i <= m + 1 => h[i] = g[i]) /\ (i > m => h[i] = k[i - m])
  <2> SUFFICES ASSUME NEW i \in 1 .. m + n + 1
               PROVE  h[i] \in Depths /\ (i <= m + 1 => h[i] = g[i]) /\ (i > m => h[i] = k[i - m])
    OBVIOUS
  <2>1. CASE i <= m
    <3>1. h[i] = g[i] /\ i \in 1 .. m + 1 /\ ~(i > m)
      BY <1>3, <2>1
    <3> QED  BY <1>3, <3>1
  <2>2. CASE i > m
    <3>1. h[i] = k[i - m] /\ i - m \in 1 .. n + 1
      BY <1>3, <2>2
    <3>2. i <= m + 1 => i = m + 1 /\ i - m = 1
      BY <1>3, <2>2
    <3> QED  BY <1>1, <1>2, <1>3, <3>1, <3>2
  <2> QED  BY <1>3, <2>1, <2>2
<1>8. h = [i \in 1 .. m + n + 1 |-> h[i]]
  OBVIOUS
<1> HIDE DEF h
<1>9. h \in [1 .. Len(q) + 1 -> Depths]
  BY <1>4, <1>7, <1>8
<1>10. ASSUME NEW i \in 1 .. m + n
       PROVE  /\ Moves(q[i], h[i], h[i + 1])
              /\ q[i].op = "try" => i + q[i].skip <= m + n /\ h[i + q[i].skip + 1] = h[i]
  <2>1. CASE i <= m
    <3>1. /\ i \in 1 .. m /\ i \in 1 .. m + n + 1 /\ i + 1 \in 1 .. m + n + 1
          /\ i <= m + 1 /\ i + 1 <= m + 1
      BY <1>3, <2>1
    <3>2. q[i] = s[i] /\ h[i] = g[i] /\ h[i + 1] = g[i + 1]
      BY <1>4, <1>7, <2>1, <3>1
    <3>3. ASSUME s[i].op = "try"
          PROVE  i + s[i].skip <= m + n /\ h[i + s[i].skip + 1] = h[i]
      <4> DEFINE b == s[i].skip
      <4>1. i + b <= m /\ g[i + b + 1] = g[i] /\ b \in Nat
        BY <1>3, <1>5, <3>1, <3>3
      <4> HIDE DEF b
      <4>2. i + b + 1 \in 1 .. m + n + 1 /\ i + b + 1 <= m + 1 /\ i + b <= m + n
        BY <1>3, <3>1, <4>1
      <4>3. h[i + b + 1] = h[i]
        BY <1>7, <3>2, <4>1, <4>2
      <4> QED  BY <4>2, <4>3 DEF b
    <3> QED  BY <1>5, <3>1, <3>2, <3>3
  <2>2. CASE i > m
    <3> DEFINE j == i - m
    <3>1. /\ j \in 1 .. n /\ i = m + j /\ ~(i <= m) /\ i \in 1 .. m + n + 1
          /\ i + 1 \in 1 .. m + n + 1 /\ (i + 1) - m = j + 1 /\ i + 1 > m
      BY <1>3, <2>2
    <3>2. q[i] = r[j] /\ h[i] = k[j] /\ h[i + 1] = k[j + 1]
      BY <1>4, <1>7, <2>2, <3>1
    <3> HIDE DEF j
    <3>3. ASSUME r[j].op = "try"
          PROVE  i + r[j].skip <= m + n /\ h[i + r[j].skip + 1] = h[i]
      <4> DEFINE b == r[j].skip
      <4>1. j + b <= n /\ k[j + b + 1] = k[j] /\ b \in Nat
        BY <1>3, <1>6, <3>1, <3>3
      <4> HIDE DEF b
      <4>2. /\ i + b + 1 \in 1 .. m + n + 1 /\ i + b + 1 > m
            /\ (i + b + 1) - m = j + b + 1 /\ i + b <= m + n
        <5>1. m \in Nat /\ n \in Nat /\ j \in Nat /\ j >= 1 /\ i = m + j /\ b \in Nat /\ j + b <= n
          BY <1>3, <3>1, <4>1
        <5> QED  BY ONLY <5>1
      <4>3. h[i + b + 1] = h[i]
        BY <1>7, <3>2, <4>1, <4>2
      <4> QED  BY <4>2, <4>3 DEF b
    <3> QED  BY <1>6, <3>1, <3>2, <3>3
  <2> QED  BY <1>3, <2>1, <2>2
<1>11. Follows(q, h)
  BY <1>4, <1>9, <1>10 DEF Follows
<1>12. h[1] = d /\ h[Len(q) + 1] = d
  <2>1. /\ 1 \in 1 .. m + n + 1 /\ 1 <= m + 1 /\ m + n + 1 \in 1 .. m + n + 1 /\ m + n + 1 > m
        /\ (m + n + 1) - m = n + 1
    BY <1>3
  <2> QED  BY <1>1, <1>2, <1>4, <1>7, <2>1
<1> QED  BY <1>11, <1>12 DEF Returns, Leads, q

\* A block inside a lock, entered by LOCK or by TRY_LOCK.
LEMMA ReturnsAround ==
  ASSUME NEW d \in Depths, NEW s, NEW a \in Steps, Returns(s, Inner(d, a.lock)),
         Inner(d, a.lock) \in Depths,
         \/ a.op = "lock" /\ Allowed(d, a.lock)
         \/ a.op = "try" /\ a.skip = Len(s) + 1
  PROVE  Returns(<<a>> \o s \o <<Step("unlock", a.lock, 0)>>, d)
<1> DEFINE n == Len(s)
           l == a.lock
           z == Step("unlock", l, 0)
           q == <<a>> \o s \o <<z>>
           e == Inner(d, l)
<1>1. PICK g : Follows(s, g) /\ g[1] = e /\ g[n + 1] = e
  BY DEF Returns, Leads
<1>2. /\ s \in Seq(Steps) /\ n \in Nat /\ g \in [1 .. n + 1 -> Depths] /\ l \in Locks
      /\ \A i \in 1 .. n : s[i].skip \in Nat
  <2>1. l \in Locks
    BY DEF Steps
  <2> QED  BY <1>1, <2>1, FollowsTypes
<1>3. z \in Steps /\ z.op = "unlock" /\ z.lock = l
  BY <1>2 DEF Steps, Step
<1> HIDE DEF z
<1>4. /\ q \in Seq(Steps) /\ Len(q) = n + 2 /\ q[1] = a /\ q[n + 2] = z
      /\ \A i \in 1 .. n : q[i + 1] = s[i]
  <2> DEFINE u == <<a>>
             v == <<z>>
             w == u \o s
  <2>1. u \in Seq(Steps) /\ v \in Seq(Steps) /\ Len(u) = 1 /\ Len(v) = 1 /\ u[1] = a /\ v[1] = z
    BY <1>3
  <2> HIDE DEF u, v
  <2>2. /\ w \in Seq(Steps) /\ Len(w) = 1 + n
        /\ \A i \in 1 .. 1 + n : w[i] = IF i <= 1 THEN u[i] ELSE s[i - 1]
    <3>1. /\ w \in Seq(Steps) /\ Len(w) = Len(u) + Len(s)
          /\ \A i \in 1 .. Len(u) + Len(s) : w[i] = IF i <= Len(u) THEN u[i] ELSE s[i - Len(u)]
      <4>1. s \in Seq(Steps) /\ u \in Seq(Steps)
        BY <1>2, <2>1
      <4> HIDE DEF q, n, e, l
      <4>2. /\ u \o s \in Seq(Steps) /\ Len(u \o s) = Len(u) + Len(s)
            /\ \A i \in 1 .. Len(u) + Len(s) : (u \o s)[i] = IF i <= Len(u) THEN u[i] ELSE s[i - Len(u)]
        BY ONLY <4>1, ConcatProperties
      <4> QED  BY <4>2
    <3> QED  BY <2>1, <3>1
  <2> HIDE DEF w
  <2>3. /\ w \o v \in Seq(Steps) /\ Len(w \o v) = 1 + n + 1
        /\ \A i \in 1 .. 1 + n + 1 : (w \o v)[i] = IF i <= 1 + n THEN w[i] ELSE v[i - (1 + n)]
    <3>1. /\ w \o v \in Seq(Steps) /\ Len(w \o v) = Len(w) + Len(v)
          /\ \A i \in 1 .. Len(w) + Len(v) : (w \o v)[i] = IF i <= Len(w) THEN w[i] ELSE v[i - Len(w)]
      BY <2>1, <2>2, ConcatProperties
    <3> HIDE DEF n
    <3> QED  BY <2>1, <2>2, <3>1
  <2>4. q = w \o v
    BY DEF u, v, w
  <2> HIDE DEF q, n
  <2>5. Len(q) = n + 2
    BY <1>2, <2>3, <2>4
  <2>6. q[1] = a
    BY <1>2, <2>1, <2>2, <2>3, <2>4
  <2>7. q[n + 2] = z
    <3>1. n + 2 \in 1 .. 1 + n + 1 /\ ~(n + 2 <= 1 + n) /\ (n + 2) - (1 + n) = 1
      BY <1>2
    <3> QED  BY <2>1, <2>3, <2>4, <3>1
  <2>8. ASSUME NEW i \in 1 .. n PROVE q[i + 1] = s[i]
    <3>1. /\ i + 1 \in 1 .. 1 + n + 1 /\ i + 1 \in 1 .. 1 + n /\ i + 1 <= 1 + n /\ ~(i + 1 <= 1)
          /\ (i + 1) - 1 = i
      BY <1>2
    <3> QED  BY <2>2, <2>3, <2>4, <3>1
  <2> QED  BY <2>3, <2>4, <2>5, <2>6, <2>7, <2>8
<1>5. \A i \in 1 .. n :
        /\ Moves(s[i], g[i], g[i + 1])
        /\ s[i].op = "try" => i + s[i].skip <= n /\ g[i + s[i].skip + 1] = g[i]
  BY <1>1 DEF Follows
<1>6. e[l] > 0 /\ Outer(e, l) = d /\ e \in Depths
  <2>1. d \in [Locks -> Int]
    BY LockConstants DEF Depths
  <2> HIDE DEF l
  <2>2. e = [d EXCEPT ![l] = d[l] + 1]
    BY DEF Inner
  <2>3. e \in Depths
    BY DEF l
  <2> HIDE DEF e
  <2>4. e \in [Locks -> Int] /\ e[l] = d[l] + 1 /\ \A k \in Locks \ {l} : e[k] = d[k]
    BY <1>2, <2>1, <2>2
  <2>5. d[l] >= 0
    BY <1>2, LockConstants DEF Depths
  <2>6. [e EXCEPT ![l] = e[l] - 1] = d
    BY <1>2, <2>1, <2>4
  <2> QED  BY <1>2, <2>1, <2>3, <2>4, <2>5, <2>6 DEF Outer
<1>7. a.op # "unlock" /\ (a.op = "lock" => Allowed(d, l)) /\ (a.op = "try" => a.skip = n + 1)
  OBVIOUS
<1> HIDE DEF n, q, l
<1> DEFINE h == [i \in 1 .. n + 3 |-> IF i = 1 \/ i = n + 3 THEN d ELSE g[i - 1]]
<1>8. /\ h[1] = d /\ h[n + 3] = d
      /\ \A i \in 1 .. n + 1 : h[i + 1] = g[i]
      /\ \A i \in 1 .. n + 3 : h[i] \in Depths
  <2>1. h[1] = d /\ h[n + 3] = d
    BY <1>2
  <2>2. ASSUME NEW i \in 1 .. n + 1 PROVE h[i + 1] = g[i]
    <3>1. i + 1 \in 1 .. n + 3 /\ i + 1 # 1 /\ i + 1 # n + 3 /\ (i + 1) - 1 = i
      BY <1>2
    <3> QED  BY <3>1
  <2>3. ASSUME NEW i \in 1 .. n + 3 PROVE h[i] \in Depths
    <3>1. i = 1 \/ i = n + 3 \/ i - 1 \in 1 .. n + 1
      BY <1>2
    <3> QED  BY <1>2, <3>1
  <2> QED  BY <2>1, <2>2, <2>3
<1>9. h = [i \in 1 .. n + 3 |-> h[i]]
  OBVIOUS
<1> HIDE DEF h, e
<1>10. h \in [1 .. Len(q) + 1 -> Depths]
  <2>1. Len(q) + 1 = n + 3
    BY <1>2, <1>4
  <2> QED  BY <1>8, <1>9, <2>1
<1>11. ASSUME NEW i \in 1 .. n + 2
       PROVE  /\ Moves(q[i], h[i], h[i + 1])
              /\ q[i].op = "try" => i + q[i].skip <= n + 2 /\ h[i + q[i].skip + 1] = h[i]
  <2>1. CASE i = 1
    <3>1. h[i] = d /\ q[i] = a /\ h[i + 1] = e
      <4>1. 1 \in 1 .. n + 1
        BY <1>2
      <4> QED  BY <1>1, <1>4, <1>8, <2>1, <4>1
    <3>2. 1 + (n + 1) + 1 = n + 3 /\ 1 + (n + 1) <= n + 2
      BY <1>2
    <3>3. e = Inner(d, a.lock)
      BY DEF e, l
    <3> QED  BY <1>7, <1>8, <2>1, <3>1, <3>2, <3>3 DEF l, Moves
  <2>2. CASE i = n + 2
    <3>1. n + 1 \in 1 .. n + 1 /\ (n + 1) + 1 = n + 2 /\ i + 1 = n + 3
      BY <1>2, <2>2
    <3>2. q[i] = z /\ h[i] = e /\ h[i + 1] = d
      BY <1>1, <1>4, <1>8, <2>2, <3>1
    <3> QED  BY <1>3, <1>6, <3>2 DEF Moves
  <2>3. CASE i # 1 /\ i # n + 2
    <3> DEFINE j == i - 1
    <3>1. j \in 1 .. n /\ i = j + 1 /\ j \in 1 .. n + 1 /\ j + 1 \in 1 .. n + 1
      BY <1>2, <2>3
    <3> HIDE DEF j
    <3>2. q[i] = s[j] /\ h[i] = g[j] /\ h[i + 1] = g[j + 1]
      BY <1>4, <1>8, <3>1
    <3>3. ASSUME s[j].op = "try" PROVE i + s[j].skip <= n + 2 /\ h[i + s[j].skip + 1] = h[i]
      <4> DEFINE b == s[j].skip
      <4>1. j + b <= n /\ g[j + b + 1] = g[j] /\ b \in Nat
        BY <1>2, <1>5, <3>1, <3>3
      <4> HIDE DEF b
      <4>2. /\ j + b + 1 \in 1 .. n + 1 /\ i + b <= n + 2
            /\ i + b + 1 = (j + b + 1) + 1
        <5>1. n \in Nat /\ j \in Nat /\ j >= 1 /\ i = j + 1 /\ b \in Nat /\ j + b <= n
          BY <1>2, <3>1, <4>1
        <5> QED  BY ONLY <5>1
      <4>3. h[i + b + 1] = h[i]
        BY <1>8, <3>2, <4>1, <4>2
      <4> QED  BY <4>2, <4>3 DEF b
    <3> QED  BY <1>5, <3>1, <3>2, <3>3
  <2> QED  BY <2>1, <2>2, <2>3
<1>12. Follows(q, h)
  BY <1>4, <1>10, <1>11 DEF Follows
<1>13. h[1] = d /\ h[Len(q) + 1] = d
  <2>1. Len(q) + 1 = n + 3
    BY <1>2, <1>4
  <2> QED  BY <1>8, <2>1
<1>14. Returns(q, d)
  BY <1>12, <1>13 DEF Returns, Leads
<1> QED  BY <1>14 DEF q, z, l

-----------------------------------------------------------------------------
\* What is left of a path after a step, or after a skipped block.

\* The end of a path, from position k on, leads from the depth before it.
LEMMA LeadsFrom ==
  ASSUME NEW s, NEW h, Follows(s, h), NEW k \in 1 .. Len(s) + 1
  PROVE  Leads(SubSeq(s, k, Len(s)), h[k], h[Len(s) + 1])
<1> DEFINE n == Len(s)
           r == SubSeq(s, k, n)
           m == n - k + 1
<1>1. /\ s \in Seq(Steps) /\ n \in Nat /\ h \in [1 .. n + 1 -> Depths]
      /\ \A i \in 1 .. n : s[i] \in Steps /\ s[i].skip \in Nat
  BY FollowsTypes
<1>2. /\ k \in Int /\ n \in Int /\ 1 <= k /\ k <= n + 1 /\ m \in Nat
      /\ \A i \in k .. n : i \in 1 .. n
  BY <1>1
<1>3. \A i \in 1 .. n : /\ Moves(s[i], h[i], h[i + 1])
                        /\ s[i].op = "try" => i + s[i].skip <= n /\ h[i + s[i].skip + 1] = h[i]
  BY DEF Follows
<1> HIDE DEF n
<1>4. /\ r \in Seq(Steps) /\ Len(r) = (IF k <= n THEN m ELSE 0)
      /\ \A i \in 1 .. m : r[i] = s[k + i - 1]
  <2>1. \A i \in k .. n : s[i] \in Steps
    BY <1>1, <1>2
  <2> QED  BY <1>2, <2>1, SubSeqProperties
<1>5. Len(r) = m
  BY <1>2, <1>4
<1> HIDE DEF r
<1> DEFINE g == [i \in 1 .. m + 1 |-> h[k + i - 1]]
<1>6. /\ g \in [1 .. Len(r) + 1 -> Depths]
      /\ \A i \in 1 .. m + 1 : g[i] = h[k + i - 1]
  <2>1. \A i \in 1 .. m + 1 : k + i - 1 \in 1 .. n + 1
    BY <1>1, <1>2
  <2> QED  BY <1>1, <1>5, <2>1
<1>7. g[1] = h[k] /\ g[Len(r) + 1] = h[n + 1]
  <2>1. k + 1 - 1 = k /\ k + (m + 1) - 1 = n + 1 /\ 1 \in 1 .. m + 1 /\ m + 1 \in 1 .. m + 1
    BY <1>1, <1>2
  <2> HIDE DEF g
  <2> QED  BY <1>5, <1>6, <2>1
<1> HIDE DEF g, m
<1>8. ASSUME NEW i \in 1 .. m
      PROVE  /\ Moves(r[i], g[i], g[i + 1])
             /\ r[i].op = "try" => i + r[i].skip <= m /\ g[i + r[i].skip + 1] = g[i]
  <2> DEFINE j == k + i - 1
  <2>1. /\ j \in 1 .. n /\ i \in 1 .. m + 1 /\ i + 1 \in 1 .. m + 1
        /\ k + (i + 1) - 1 = j + 1 /\ j = k + i - 1
    BY <1>1, <1>2 DEF m
  <2>2. r[i] = s[j] /\ g[i] = h[j] /\ g[i + 1] = h[j + 1]
    <3>1. r[i] = s[k + i - 1]
      BY <1>4
    <3>2. g[i] = h[k + i - 1]
      BY <1>6, <2>1
    <3>3. g[i + 1] = h[k + (i + 1) - 1]
      BY <1>6, <2>1
    <3> QED  BY <2>1, <3>1, <3>2, <3>3
  <2> HIDE DEF j
  <2>3. ASSUME s[j].op = "try"
        PROVE  i + s[j].skip <= m /\ g[i + s[j].skip + 1] = g[i]
    <3> DEFINE b == s[j].skip
    <3>1. j + b <= n /\ h[j + b + 1] = h[j] /\ b \in Nat
      BY <1>1, <1>3, <2>1, <2>3
    <3> HIDE DEF b
    <3>2. i + b <= m /\ i + b + 1 \in 1 .. m + 1 /\ k + (i + b + 1) - 1 = j + b + 1
      <4>1. /\ k \in Int /\ n \in Nat /\ i \in Nat /\ i >= 1 /\ b \in Nat
            /\ j + b <= n /\ j = k + i - 1 /\ m = n - k + 1 /\ m \in Nat
        BY <1>1, <1>2, <2>1, <3>1 DEF m
      <4> QED  BY ONLY <4>1
    <3>3. g[i + b + 1] = g[i]
      BY <1>6, <2>2, <3>1, <3>2
    <3> QED  BY <3>2, <3>3 DEF b
  <2> QED  BY <1>3, <2>1, <2>2, <2>3
<1>9. Follows(r, g)
  BY <1>4, <1>5, <1>6, <1>8 DEF Follows
<1>10. Leads(r, h[k], h[n + 1])
  BY <1>7, <1>9 DEF Leads
<1> QED  BY <1>10 DEF r, n

\* A thread with nothing left is where its path ends.
LEMMA LeadsNowhere ==
  ASSUME NEW d, NEW e, Leads(Nothing, d, e)
  PROVE  d = e
<1>1. Len(<<>>) = 0
  BY EmptySeq
<1> QED  BY <1>1 DEF Leads, Nothing

\* The next step, and the rest of the path after it.
LEMMA LeadsOn ==
  ASSUME NEW s, NEW d, NEW e, Leads(s, d, e), s # Nothing
  PROVE  /\ Head(s) \in Steps
         /\ \E f \in Depths : Moves(Head(s), d, f) /\ Leads(Tail(s), f, e)
         /\ Head(s).op = "try" => Leads(SubSeq(s, Head(s).skip + 2, Len(s)), d, e)
<1>1. PICK h : Follows(s, h) /\ h[1] = d /\ h[Len(s) + 1] = e
  BY DEF Leads
<1>2. /\ s \in Seq(Steps) /\ Len(s) \in Nat /\ h \in [1 .. Len(s) + 1 -> Depths]
      /\ \A i \in 1 .. Len(s) : s[i] \in Steps /\ s[i].skip \in Nat
  BY <1>1, FollowsTypes
<1>3. Len(s) \in Nat \ {0}
  BY <1>2, EmptySeq DEF Nothing
<1>4. 1 \in 1 .. Len(s) /\ 1 \in 1 .. Len(s) + 1 /\ 2 \in 1 .. Len(s) + 1 /\ 1 + 1 = 2
  BY <1>3
<1>5. Head(s) = s[1]
  BY <1>2
<1>6. Tail(s) = SubSeq(s, 2, Len(s))
  BY <1>2, TailIsSubSeq DEF Nothing
<1>7. Moves(s[1], h[1], h[2]) /\ h[2] \in Depths
  BY <1>1, <1>2, <1>4 DEF Follows
<1>8. Leads(SubSeq(s, 2, Len(s)), h[2], h[Len(s) + 1])
  BY <1>1, <1>4, LeadsFrom
<1>9. ASSUME s[1].op = "try"
      PROVE  Leads(SubSeq(s, s[1].skip + 2, Len(s)), d, e)
  <2> DEFINE b == s[1].skip
             n == Len(s)
  <2>1. 1 + b <= n /\ h[1 + b + 1] = h[1] /\ b \in Nat /\ n \in Nat
    BY <1>1, <1>2, <1>4, <1>9 DEF Follows
  <2> HIDE DEF b, n
  <2>2. b + 2 \in 1 .. n + 1 /\ 1 + b + 1 = b + 2
    BY <2>1
  <2>3. Leads(SubSeq(s, b + 2, n), h[b + 2], h[n + 1])
    BY <1>1, <2>2, LeadsFrom DEF n
  <2> QED  BY <1>1, <2>1, <2>2, <2>3 DEF b, n
<1> QED  BY <1>1, <1>2, <1>4, <1>5, <1>6, <1>7, <1>8, <1>9

-----------------------------------------------------------------------------
\* Depths and their order.

\* The five ranks of the order, and the pool's.
LEMMA Ranks ==
  /\ Rank["cs_main"] = 0 /\ Rank["mnodeman.cs"] = 1 /\ Rank["cs_vNodes"] = 2
  /\ Rank["cs_vSend"] = 3 /\ Rank["voteTracker.cs"] = 4 /\ Rank["mempool.cs"] = 5
  /\ \A l \in Locks : Rank[l] \in 0 .. 5
BY DEF Rank, Locks

\* A thread is inside each lock some number of times.
LEMMA DepthTypes ==
  ASSUME NEW d \in Depths
  PROVE  d \in [Locks -> Nat] /\ \A l \in Locks : d[l] <= MaxDepth
BY LockConstants DEF Depths

\* One entry more.
LEMMA InnerDepths ==
  ASSUME NEW d \in Depths, NEW l \in Locks, d[l] < MaxDepth,
         l = "mempool.cs" => d["cs_main"] > 0
  PROVE  /\ Inner(d, l) \in Depths
         /\ Inner(d, l)[l] = d[l] + 1
         /\ \A k \in Locks \ {l} : Inner(d, l)[k] = d[k]
<1> DEFINE e == Inner(d, l)
<1>1. d \in [Locks -> Nat] /\ \A k \in Locks : d[k] <= MaxDepth
  BY DepthTypes
<1>2. /\ e = [k \in Locks |-> IF k = l THEN d[l] + 1 ELSE d[k]]
      /\ \A k \in Locks : e[k] = IF k = l THEN d[l] + 1 ELSE d[k]
  BY <1>1 DEF Inner
<1> HIDE DEF e
<1>3. MaxDepth \in Nat
  BY LockConstants
<1>4. \A k \in Locks : e[k] \in 0 .. MaxDepth
  BY <1>1, <1>2, <1>3
<1>5. e \in [Locks -> 0 .. MaxDepth]
  BY <1>2, <1>4
<1>6. "mempool.cs" \in Locks /\ "cs_main" \in Locks
  BY DEF Locks
<1>7. d["mempool.cs"] > 0 => d["cs_main"] > 0
  BY DEF Depths
<1>8. e["mempool.cs"] > 0 => e["cs_main"] > 0
  BY <1>1, <1>2, <1>6, <1>7
<1>9. e \in Depths
  BY <1>5, <1>8 DEF Depths
<1> QED  BY <1>2, <1>9 DEF e

\* What is above everything a thread has, it does not have.
LEMMA AscendsFree ==
  ASSUME NEW d \in Depths, NEW l \in Locks, Ascends(d, l)
  PROVE  d[l] = 0 /\ d[l] < MaxDepth /\ l # "mempool.cs"
<1>1. d[l] \in Nat /\ MaxDepth \in Nat /\ MaxDepth >= 3
  BY DepthTypes, LockConstants
<1>2. ~(Rank[l] < Rank[l])
  BY Ranks
<1> QED  BY <1>1, <1>2 DEF Ascends

\* What is above one lock is above the locks below it.
LEMMA AscendsHigher ==
  ASSUME NEW d \in Depths, NEW k \in Locks, NEW l \in Locks, Ascends(d, k),
         Rank[k] <= Rank[l], l # "mempool.cs"
  PROVE  Ascends(d, l)
BY Ranks DEF Ascends

\* Entering a lower lock leaves a higher one above.
LEMMA AscendsInner ==
  ASSUME NEW d \in Depths, NEW k \in Locks, NEW l \in Locks, Ascends(d, l),
         Inner(d, k) \in Depths, k = "mempool.cs" \/ Rank[k] < Rank[l]
  PROVE  Ascends(Inner(d, k), l)
<1> DEFINE e == Inner(d, k)
<1>1. d \in [Locks -> Nat]
  BY DepthTypes
<1>2. \A j \in Locks \ {k} : e[j] = d[j]
  BY <1>1 DEF Inner
<1> HIDE DEF e
<1>3. \A j \in Locks : e[j] > 0 /\ j # "mempool.cs" => Rank[j] < Rank[l]
  <2> TAKE j \in Locks
  <2>1. CASE j = k
    BY <2>1
  <2>2. CASE j # k
    BY <1>2, <2>2 DEF Ascends
  <2> QED  BY <2>1, <2>2
<1>4. Ascends(e, l)
  BY <1>3 DEF Ascends
<1> QED  BY <1>4 DEF e

\* A thread with no lock is below all of them.
LEMMA AscendsOutside ==
  /\ Outside \in Depths
  /\ \A l \in Locks : Outside[l] = 0
  /\ \A l \in Locks \ {"mempool.cs"} : Ascends(Outside, l)
<1>1. \A l \in Locks : Outside[l] = 0
  BY DEF Outside
<1>2. Outside \in [Locks -> 0 .. MaxDepth]
  BY LockConstants DEF Outside
<1>3. "mempool.cs" \in Locks
  BY DEF Locks
<1>4. Outside \in Depths
  BY <1>1, <1>2, <1>3 DEF Depths
<1> QED  BY <1>1, <1>4 DEF Ascends

\* A block inside LOCK.
LEMMA ReturnsUnder ==
  ASSUME NEW d \in Depths, NEW l \in Locks, NEW s, Allowed(d, l), d[l] < MaxDepth,
         l = "mempool.cs" => d["cs_main"] > 0, Returns(s, Inner(d, l))
  PROVE  Returns(Under(l, s), d)
<1> DEFINE a == Step("lock", l, 0)
<1>1. a \in Steps /\ a.op = "lock" /\ a.lock = l
  BY DEF Step, Steps
<1>2. Inner(d, l) \in Depths
  BY InnerDepths
<1> HIDE DEF a
<1>3. Returns(<<a>> \o s \o <<Step("unlock", a.lock, 0)>>, d)
  BY <1>1, <1>2, ReturnsAround
<1> QED  BY <1>1, <1>3 DEF a, Under

\* A block inside TRY_LOCK.
LEMMA ReturnsIfFree ==
  ASSUME NEW d \in Depths, NEW l \in Locks, NEW s, d[l] < MaxDepth, l # "mempool.cs",
         Returns(s, Inner(d, l))
  PROVE  Returns(IfFree(l, s), d)
<1> DEFINE a == Step("try", l, Len(s) + 1)
<1>1. Len(s) \in Nat
  BY FollowsTypes DEF Returns, Leads
<1>2. a \in Steps /\ a.op = "try" /\ a.lock = l /\ a.skip = Len(s) + 1
  BY <1>1 DEF Step, Steps
<1>3. Inner(d, l) \in Depths
  BY InnerDepths
<1> HIDE DEF a
<1>4. Returns(<<a>> \o s \o <<Step("unlock", a.lock, 0)>>, d)
  BY <1>2, <1>3, ReturnsAround
<1> QED  BY <1>2, <1>4 DEF a, IfFree

\* Going up in the order to do nothing there.
LEMMA ReturnsLone ==
  ASSUME NEW d \in Depths, NEW l \in Locks, Ascends(d, l)
  PROVE  Returns(Under(l, Nothing), d)
<1>1. d[l] < MaxDepth /\ l # "mempool.cs"
  BY AscendsFree
<1>2. Inner(d, l) \in Depths
  BY <1>1, InnerDepths
<1>3. Returns(Nothing, Inner(d, l))
  BY <1>2, ReturnsNothing
<1> QED  BY <1>1, <1>3, ReturnsUnder DEF Allowed

-----------------------------------------------------------------------------
\* The paths.

\* cs_main can be entered n more times, the pool's lock once more.
Room(d, n) == d["cs_main"] + n <= MaxDepth /\ d["mempool.cs"] < MaxDepth

\* The names of the locks.
LEMMA LockNames ==
  /\ "cs_main" \in Locks /\ "mempool.cs" \in Locks /\ "mnodeman.cs" \in Locks
  /\ "voteTracker.cs" \in Locks /\ "cs_vNodes" \in Locks /\ "cs_vSend" \in Locks
BY DEF Locks

\* Room is left by entering another lock, and less of it by entering cs_main.
LEMMA RoomInner ==
  ASSUME NEW d \in Depths, NEW n \in Nat, NEW l \in Locks, d[l] < MaxDepth, l # "mempool.cs",
         IF l = "cs_main" THEN Room(d, n + 1) ELSE Room(d, n)
  PROVE  Room(Inner(d, l), n)
<1> DEFINE e == Inner(d, l)
<1>1. d \in [Locks -> Nat] /\ MaxDepth \in Nat
  BY DepthTypes, LockConstants
<1>2. e[l] = d[l] + 1 /\ \A k \in Locks \ {l} : e[k] = d[k]
  BY InnerDepths
<1> HIDE DEF e
<1>3. e["mempool.cs"] = d["mempool.cs"]
  BY <1>2, LockNames
<1>4. CASE l = "cs_main"
  <2>1. e["cs_main"] = d["cs_main"] + 1 /\ d["cs_main"] \in Nat
    BY <1>1, <1>2, <1>4
  <2>2. Room(d, n + 1)
    BY <1>4
  <2>3. Room(e, n)
    BY <1>1, <1>3, <2>1, <2>2 DEF Room
  <2> QED  BY <2>3 DEF e
<1>5. CASE l # "cs_main"
  <2>1. e["cs_main"] = d["cs_main"]
    BY <1>2, <1>5, LockNames
  <2>2. Room(e, n)
    BY <1>3, <1>5, <2>1 DEF Room
  <2> QED  BY <2>2 DEF e
<1> QED  BY <1>4, <1>5

\* Room for more is room for less.
LEMMA RoomLess ==
  ASSUME NEW d \in Depths, NEW n \in Nat, NEW m \in Nat, Room(d, n), m <= n
  PROVE  Room(d, m) /\ (n > 0 => d["cs_main"] < MaxDepth)
<1>1. d["cs_main"] \in Nat /\ MaxDepth \in Nat
  BY DepthTypes, LockConstants, LockNames
<1> QED  BY <1>1 DEF Room

\* The pool's lock inside cs_main.
LEMMA ReturnsPool ==
  ASSUME NEW d \in Depths, d["cs_main"] > 0, d["mempool.cs"] < MaxDepth
  PROVE  Returns(Under("mempool.cs", Nothing), d)
<1>1. Inner(d, "mempool.cs") \in Depths
  BY InnerDepths, LockNames
<1>2. Returns(Nothing, Inner(d, "mempool.cs"))
  BY <1>1, ReturnsNothing
<1> QED  BY <1>2, ReturnsUnder, LockNames DEF Allowed

\* What cs_main is entered with: the pool's lock can be entered below.
LEMMA InsideMain ==
  ASSUME NEW d \in Depths, Room(d, 1)
  PROVE  /\ d["cs_main"] < MaxDepth
         /\ Inner(d, "cs_main") \in Depths
         /\ Inner(d, "cs_main")["cs_main"] > 0
         /\ Returns(Under("mempool.cs", Nothing), Inner(d, "cs_main"))
<1> DEFINE e == Inner(d, "cs_main")
<1>1. d["cs_main"] < MaxDepth /\ d["cs_main"] \in Nat
  BY RoomLess, DepthTypes, LockNames
<1>2. /\ e \in Depths /\ e["cs_main"] = d["cs_main"] + 1
      /\ \A k \in Locks \ {"cs_main"} : e[k] = d[k]
  BY <1>1, InnerDepths, LockNames
<1> HIDE DEF e
<1>3. e["mempool.cs"] < MaxDepth
  BY <1>2, LockNames DEF Room
<1>4. e["cs_main"] > 0
  BY <1>1, <1>2
<1>5. Returns(Under("mempool.cs", Nothing), e)
  BY <1>2, <1>3, <1>4, ReturnsPool
<1> QED  BY <1>1, <1>2, <1>4, <1>5 DEF e

\* GetTransaction, wherever cs_main may be entered.
LEMMA GetTransactionReturns ==
  ASSUME NEW d \in Depths, Room(d, 1), Allowed(d, "cs_main")
  PROVE  Returns(GetTransaction, d)
BY InsideMain, ReturnsUnder, LockNames DEF GetTransaction

\* CMasternode::Check anywhere: it does not wait.
LEMMA CheckReturns ==
  ASSUME NEW d \in Depths, Room(d, 1)
  PROVE  Returns(Check, d)
BY InsideMain, ReturnsIfFree, LockNames DEF Check

\* PushMessage below cs_vSend.
LEMMA PushMessageReturns ==
  ASSUME NEW d \in Depths, Ascends(d, "cs_vSend")
  PROVE  Returns(PushMessage, d)
BY ReturnsLone, LockNames DEF PushMessage

\* The relays below cs_vNodes.
LEMMA RelayReturns ==
  ASSUME NEW d \in Depths, Ascends(d, "cs_vNodes")
  PROVE  Returns(Relay, d)
<1> DEFINE e == Inner(d, "cs_vNodes")
<1>1. d["cs_vNodes"] < MaxDepth
  BY AscendsFree, LockNames
<1>2. e \in Depths
  BY <1>1, InnerDepths, LockNames
<1>3. Ascends(d, "cs_vSend")
  <2>1. Rank["cs_vNodes"] <= Rank["cs_vSend"]
    BY Ranks
  <2> QED  BY <2>1, AscendsHigher, LockNames
<1>4. Ascends(e, "cs_vSend")
  <2>1. Rank["cs_vNodes"] < Rank["cs_vSend"]
    BY Ranks
  <2> QED  BY <1>2, <1>3, <2>1, AscendsInner, LockNames
<1>5. Returns(PushMessage, e)
  BY <1>2, <1>4, PushMessageReturns
<1> QED  BY <1>1, <1>5, ReturnsUnder, LockNames DEF Relay, Allowed

\* Inside mnodeman.cs, entered in order, the chain may be asked against it.
LEMMA InsideManager ==
  ASSUME NEW d \in Depths, Room(d, 1), Ascends(d, "mnodeman.cs")
  PROVE  /\ d["mnodeman.cs"] < MaxDepth
         /\ Inner(d, "mnodeman.cs") \in Depths
         /\ Returns(GetTransaction, Inner(d, "mnodeman.cs"))
         /\ Returns(Check, Inner(d, "mnodeman.cs"))
<1> DEFINE e == Inner(d, "mnodeman.cs")
<1>1. d["mnodeman.cs"] < MaxDepth /\ d["mnodeman.cs"] = 0
  BY AscendsFree, LockNames
<1>2. /\ e \in Depths /\ e["mnodeman.cs"] = d["mnodeman.cs"] + 1
      /\ \A k \in Locks \ {"mnodeman.cs"} : e[k] = d[k]
  BY <1>1, InnerDepths, LockNames
<1>3. Room(e, 1)
  BY <1>1, RoomInner, LockNames
<1>4. d["voteTracker.cs"] = 0
  <2>1. Rank["mnodeman.cs"] <= Rank["voteTracker.cs"]
    BY Ranks
  <2>2. Ascends(d, "voteTracker.cs")
    BY <2>1, AscendsHigher, LockNames
  <2> QED  BY <2>2, AscendsFree, LockNames
<1> HIDE DEF e
<1>5. e["mnodeman.cs"] > 0 /\ e["voteTracker.cs"] = 0
  BY <1>1, <1>2, <1>4, LockNames
<1>6. Allowed(e, "cs_main")
  BY <1>5 DEF Allowed
<1>7. Returns(GetTransaction, e) /\ Returns(Check, e)
  BY <1>2, <1>3, <1>6, GetTransactionReturns, CheckReturns
<1> QED  BY <1>1, <1>2, <1>7 DEF e

\* The walks over the masternode list, and the snapshot of a broadcast.
LEMMA ManagerReturns ==
  ASSUME NEW d \in Depths, Room(d, 1), Ascends(d, "mnodeman.cs")
  PROVE  /\ Returns(FindOldestNotInVec, d)
         /\ Returns(CheckAndRemove, d)
         /\ Returns(Under("mnodeman.cs", GetTransaction), d)
<1> DEFINE e == Inner(d, "mnodeman.cs")
<1>1. d["mnodeman.cs"] < MaxDepth /\ Returns(GetTransaction, e) /\ Returns(Check, e)
  BY InsideManager
<1>2. Returns(Check \o GetTransaction, e)
  BY <1>1, ReturnsThen
<1>3. Allowed(d, "mnodeman.cs")
  BY DEF Allowed
<1>4. \A s : Returns(s, e) => Returns(Under("mnodeman.cs", s), d)
  BY <1>1, <1>3, ReturnsUnder, LockNames
<1> QED  BY <1>1, <1>2, <1>4 DEF FindOldestNotInVec, CheckAndRemove

\* The winner of the queues: cs_main, the tracker's lock, cs_main again.
LEMMA WinnerReturns ==
  ASSUME NEW d \in Depths, Room(d, 2), Allowed(d, "cs_main"), Ascends(d, "voteTracker.cs")
  PROVE  Returns(GetCanonicalWinnerFromQueues, d)
<1> DEFINE e == Inner(d, "cs_main")
           f == Inner(e, "voteTracker.cs")
<1>1. Room(d, 1) /\ d["cs_main"] < MaxDepth
  BY RoomLess
<1>2. e \in Depths /\ e["cs_main"] > 0
  BY <1>1, InsideMain
<1>3. Room(e, 1)
  BY <1>1, RoomInner, LockNames
<1>4. Ascends(e, "voteTracker.cs")
  <2>1. Rank["cs_main"] < Rank["voteTracker.cs"]
    BY Ranks
  <2> QED  BY <1>2, <2>1, AscendsInner, LockNames
<1> HIDE DEF e
<1>5. e["voteTracker.cs"] < MaxDepth
  BY <1>2, <1>4, AscendsFree, LockNames
<1>6. f \in Depths /\ \A k \in Locks \ {"voteTracker.cs"} : f[k] = e[k]
  BY <1>2, <1>5, InnerDepths, LockNames
<1>7. Room(f, 1)
  BY <1>2, <1>3, <1>5, RoomInner, LockNames
<1>8. f["cs_main"] > 0
  BY <1>2, <1>6, LockNames
<1> HIDE DEF f
<1>9. Returns(GetTransaction, f)
  BY <1>6, <1>7, <1>8, GetTransactionReturns DEF Allowed
<1>10. Returns(Under("voteTracker.cs", GetTransaction), e)
  <2>1. Allowed(e, "voteTracker.cs")
    BY <1>4 DEF Allowed
  <2> QED  BY <1>2, <1>5, <1>9, <2>1, ReturnsUnder, LockNames DEF f
<1> QED  BY <1>1, <1>10, ReturnsUnder, LockNames DEF e, GetCanonicalWinnerFromQueues

\* Where a thread may enter mnodeman.cs, it may enter all that is above.
LEMMA AscendsAll ==
  ASSUME NEW d \in Depths, Ascends(d, "mnodeman.cs")
  PROVE  Ascends(d, "cs_vNodes") /\ Ascends(d, "cs_vSend") /\ Ascends(d, "voteTracker.cs")
<1>1. /\ Rank["mnodeman.cs"] <= Rank["cs_vNodes"] /\ Rank["mnodeman.cs"] <= Rank["cs_vSend"]
      /\ Rank["mnodeman.cs"] <= Rank["voteTracker.cs"]
  BY Ranks
<1> QED  BY <1>1, AscendsHigher, LockNames

\* The request for the list, inside mnodeman.cs.
LEMMA DsegUpdateReturns ==
  ASSUME NEW d \in Depths, Ascends(d, "mnodeman.cs")
  PROVE  Returns(DsegUpdate, d)
<1> DEFINE e == Inner(d, "mnodeman.cs")
<1>1. d["mnodeman.cs"] < MaxDepth
  BY AscendsFree, LockNames
<1>2. e \in Depths
  BY <1>1, InnerDepths, LockNames
<1>3. Ascends(e, "cs_vSend")
  <2>1. Rank["mnodeman.cs"] < Rank["cs_vSend"]
    BY Ranks
  <2> QED  BY <1>2, <2>1, AscendsAll, AscendsInner, LockNames
<1>4. Returns(PushMessage, e)
  BY <1>2, <1>3, PushMessageReturns
<1> QED  BY <1>1, <1>4, ReturnsUnder, LockNames DEF DsegUpdate, Allowed

\* A broadcast.
LEMMA BroadcastReturns ==
  ASSUME NEW d \in Depths, Room(d, 1), Ascends(d, "mnodeman.cs")
  PROVE  Returns(BroadcastQueue, d)
<1>1. Returns(Under("mnodeman.cs", GetTransaction), d)
  BY ManagerReturns
<1>2. Returns(Under("voteTracker.cs", Nothing), d)
  BY AscendsAll, ReturnsLone, LockNames
<1>3. Returns(Relay, d)
  BY AscendsAll, RelayReturns
<1>4. Returns(Under("mnodeman.cs", GetTransaction) \o Under("voteTracker.cs", Nothing), d)
  BY <1>1, <1>2, ReturnsThen
<1> QED  BY <1>3, <1>4, ReturnsThen DEF BroadcastQueue

\* Where a thread is that has only cs_main, once, or the pool's lock with it.
LEMMA OnlyMain ==
  LET e == Inner(Outside, "cs_main")
      f == Inner(e, "mempool.cs")
  IN /\ Outside["cs_main"] < MaxDepth /\ Allowed(Outside, "cs_main") /\ Room(Outside, 3)
     /\ e \in Depths /\ e["cs_main"] > 0 /\ e["mempool.cs"] < MaxDepth /\ Room(e, 2)
     /\ Ascends(e, "mnodeman.cs")
     /\ f \in Depths /\ f["cs_main"] > 0 /\ Room(f, 2) /\ Ascends(f, "mnodeman.cs")
<1> DEFINE e == Inner(Outside, "cs_main")
           f == Inner(e, "mempool.cs")
<1>1. /\ Outside \in Depths /\ Outside["cs_main"] = 0 /\ Outside["mempool.cs"] = 0
      /\ Ascends(Outside, "cs_main") /\ Ascends(Outside, "mnodeman.cs")
  BY AscendsOutside, LockNames
<1>2. MaxDepth \in Nat /\ MaxDepth >= 3
  BY LockConstants
<1>3. /\ e \in Depths /\ e["cs_main"] = Outside["cs_main"] + 1
      /\ \A k \in Locks \ {"cs_main"} : e[k] = Outside[k]
  BY <1>1, <1>2, InnerDepths, LockNames
<1>4. Rank["cs_main"] < Rank["mnodeman.cs"]
  BY Ranks
<1>5. Ascends(e, "mnodeman.cs")
  BY <1>1, <1>3, <1>4, AscendsInner, LockNames
<1>6. Outside["cs_main"] < MaxDepth /\ Allowed(Outside, "cs_main") /\ Room(Outside, 3)
  BY <1>1, <1>2 DEF Allowed, Room
<1> HIDE DEF e
<1>7. e["cs_main"] = 1 /\ e["mempool.cs"] = 0
  BY <1>1, <1>3, LockNames
<1>8. e["mempool.cs"] < MaxDepth /\ Room(e, 2) /\ e["cs_main"] > 0
  BY <1>2, <1>7 DEF Room
<1>9. /\ f \in Depths /\ f["mempool.cs"] = e["mempool.cs"] + 1
      /\ \A k \in Locks \ {"mempool.cs"} : f[k] = e[k]
  BY <1>3, <1>8, InnerDepths, LockNames
<1>10. Ascends(f, "mnodeman.cs")
  BY <1>3, <1>5, <1>9, AscendsInner, LockNames
<1> HIDE DEF f
<1>11. f["cs_main"] = 1 /\ f["mempool.cs"] = 1
  BY <1>7, <1>9, LockNames
<1>12. Room(f, 2) /\ f["cs_main"] > 0
  BY <1>2, <1>11 DEF Room
<1> QED  BY <1>3, <1>5, <1>6, <1>8, <1>9, <1>10, <1>12 DEF e, f

\* A path that begins with cs_main returns if its block does.
LEMMA MainReturns ==
  ASSUME NEW s, Returns(s, Inner(Outside, "cs_main"))
  PROVE  Returns(Under("cs_main", s), Outside)
BY OnlyMain, AscendsOutside, ReturnsUnder, LockNames

\* The parts of the paths that a thread takes with only cs_main.
LEMMA InsideOnlyMain ==
  LET e == Inner(Outside, "cs_main")
  IN /\ Returns(GetCanonicalWinnerFromQueues, e)
     /\ Returns(Relay, e) /\ Returns(PushMessage, e) /\ Returns(BroadcastQueue, e)
     /\ Returns(Under("voteTracker.cs", Nothing), e)
     /\ Returns(Under("mnodeman.cs", Nothing), e)
     /\ Returns(Under("cs_vNodes", Nothing), e)
<1> DEFINE e == Inner(Outside, "cs_main")
<1>1. e \in Depths /\ e["cs_main"] > 0 /\ Room(e, 2) /\ Ascends(e, "mnodeman.cs")
  BY OnlyMain
<1> HIDE DEF e
<1>2. Ascends(e, "cs_vNodes") /\ Ascends(e, "cs_vSend") /\ Ascends(e, "voteTracker.cs")
  BY <1>1, AscendsAll
<1>3. Room(e, 1)
  BY <1>1, RoomLess
<1>4. Allowed(e, "cs_main")
  BY <1>1 DEF Allowed
<1>5. Returns(GetCanonicalWinnerFromQueues, e)
  BY <1>1, <1>2, <1>4, WinnerReturns
<1>6. Returns(Relay, e) /\ Returns(PushMessage, e) /\ Returns(BroadcastQueue, e)
  BY <1>1, <1>2, <1>3, RelayReturns, PushMessageReturns, BroadcastReturns
<1>7. /\ Returns(Under("voteTracker.cs", Nothing), e)
      /\ Returns(Under("mnodeman.cs", Nothing), e)
      /\ Returns(Under("cs_vNodes", Nothing), e)
  BY <1>1, <1>2, ReturnsLone, LockNames
<1> QED  BY <1>5, <1>6, <1>7 DEF e

\* The parts of the paths that a thread takes with no lock.
LEMMA FromOutside ==
  /\ Returns(GetTransaction, Outside) /\ Returns(Check, Outside) /\ Returns(Relay, Outside)
  /\ Returns(GetCanonicalWinnerFromQueues, Outside)
  /\ Returns(FindOldestNotInVec, Outside) /\ Returns(CheckAndRemove, Outside)
  /\ Returns(Under("voteTracker.cs", Nothing), Outside)
  /\ Returns(Under("mnodeman.cs", Nothing), Outside)
  /\ Returns(Under("cs_vNodes", Nothing), Outside)
  /\ Returns(Under("cs_main", Nothing), Outside)
  /\ Returns(PushMessage, Outside) /\ Returns(DsegUpdate, Outside)
<1> DEFINE d == Outside
<1>1. /\ d \in Depths /\ Ascends(d, "mnodeman.cs") /\ Ascends(d, "cs_vNodes")
      /\ Ascends(d, "voteTracker.cs") /\ Ascends(d, "cs_vSend") /\ Ascends(d, "cs_main")
  BY AscendsOutside, LockNames
<1>2. Room(d, 3) /\ Allowed(d, "cs_main")
  BY OnlyMain
<1> HIDE DEF d
<1>3. Room(d, 1) /\ Room(d, 2)
  BY <1>1, <1>2, RoomLess
<1>4. Returns(GetTransaction, d) /\ Returns(Check, d) /\ Returns(Relay, d)
  BY <1>1, <1>2, <1>3, GetTransactionReturns, CheckReturns, RelayReturns
<1>5. Returns(GetCanonicalWinnerFromQueues, d)
  BY <1>1, <1>2, <1>3, WinnerReturns
<1>6. Returns(FindOldestNotInVec, d) /\ Returns(CheckAndRemove, d)
  BY <1>1, <1>3, ManagerReturns
<1>7. /\ Returns(Under("voteTracker.cs", Nothing), d)
      /\ Returns(Under("mnodeman.cs", Nothing), d)
      /\ Returns(Under("cs_vNodes", Nothing), d)
      /\ Returns(Under("cs_main", Nothing), d)
  BY <1>1, ReturnsLone, LockNames
<1>8. Returns(PushMessage, d) /\ Returns(DsegUpdate, d)
  BY <1>1, PushMessageReturns, DsegUpdateReturns
<1> QED  BY <1>4, <1>5, <1>6, <1>7, <1>8 DEF d

\* The paths of the message handler.
LEMMA MessagePaths ==
  /\ Returns(ProcessBlock, Outside) /\ Returns(AnswerInventory, Outside)
  /\ Returns(Connected, Outside) /\ Returns(ReceiveQueue, Outside)
  /\ Returns(RelayUnknown, Outside) /\ Returns(SyncQueues, Outside)
  /\ Returns(ReceiveEntry, Outside) /\ Returns(UpdateEntry, Outside)
<1> DEFINE e == Inner(Outside, "cs_main")
           A == GetCanonicalWinnerFromQueues
           B == Under("voteTracker.cs", Nothing)
           C == Under("mnodeman.cs", Nothing)
           D == Under("cs_vNodes", Nothing)
           M == Under("cs_main", Nothing)
<1>1. /\ Returns(A, e) /\ Returns(B, e) /\ Returns(C, e) /\ Returns(D, e)
      /\ Returns(BroadcastQueue, e) /\ Returns(PushMessage, e)
  BY InsideOnlyMain
<1>2. /\ Returns(B, Outside) /\ Returns(C, Outside) /\ Returns(M, Outside)
      /\ Returns(Check, Outside) /\ Returns(GetTransaction, Outside) /\ Returns(Relay, Outside)
      /\ Returns(PushMessage, Outside) /\ Returns(DsegUpdate, Outside)
  BY FromOutside
<1> HIDE DEF e, A, B, C, D, M
<1>3. Returns(ProcessBlock, Outside)
  <2>1. Returns(A \o PushMessage, e)  BY <1>1, ReturnsThen
  <2>2. Returns(A \o PushMessage \o B, e)  BY <1>1, <2>1, ReturnsThen
  <2>3. Returns(A \o PushMessage \o B \o C, e)  BY <1>1, <2>2, ReturnsThen
  <2>4. Returns(A \o PushMessage \o B \o C \o D, e)  BY <1>1, <2>3, ReturnsThen
  <2>5. Returns(A \o PushMessage \o B \o C \o D \o BroadcastQueue, e)
    BY <1>1, <2>4, ReturnsThen
  <2> QED  BY <2>5, MainReturns DEF ProcessBlock, A, B, C, D, e
<1>4. Returns(AnswerInventory, Outside)
  <2>1. Returns(B \o PushMessage, e)  BY <1>1, ReturnsThen
  <2> QED  BY <2>1, MainReturns DEF AnswerInventory, B, e
<1>5. Returns(Connected, Outside)
  <2>1. Returns(PushMessage \o M, Outside)  BY <1>2, ReturnsThen
  <2>2. Returns(PushMessage \o M \o DsegUpdate, Outside)  BY <1>2, <2>1, ReturnsThen
  <2> QED  BY <2>2 DEF Connected, M
<1>6. Returns(ReceiveQueue, Outside) /\ Returns(RelayUnknown, Outside)
  <2>1. Returns(B \o C, Outside)  BY <1>2, ReturnsThen
  <2>2. Returns(B \o C \o Relay, Outside)  BY <1>2, <2>1, ReturnsThen
  <2>3. Returns(B \o C \o Relay \o B, Outside)  BY <1>2, <2>2, ReturnsThen
  <2>4. Returns(B \o C \o Relay \o PushMessage, Outside)  BY <1>2, <2>2, ReturnsThen
  <2> QED  BY <2>3, <2>4 DEF ReceiveQueue, RelayUnknown, B, C
<1>7. Returns(SyncQueues, Outside)
  BY <1>2, ReturnsThen DEF SyncQueues, B
<1>8. Returns(ReceiveEntry, Outside)
  <2>1. Returns(C \o Check, Outside)  BY <1>2, ReturnsThen
  <2>2. Returns(C \o Check \o GetTransaction, Outside)  BY <1>2, <2>1, ReturnsThen
  <2>3. Returns(C \o Check \o GetTransaction \o C, Outside)  BY <1>2, <2>2, ReturnsThen
  <2>4. Returns(C \o Check \o GetTransaction \o C \o B, Outside)  BY <1>2, <2>3, ReturnsThen
  <2>5. Returns(C \o Check \o GetTransaction \o C \o B \o Relay, Outside)
    BY <1>2, <2>4, ReturnsThen
  <2> QED  BY <2>5 DEF ReceiveEntry, B, C
<1>9. Returns(UpdateEntry, Outside)
  <2>1. Returns(C \o B, Outside)  BY <1>2, ReturnsThen
  <2>2. Returns(C \o B \o Check, Outside)  BY <1>2, <2>1, ReturnsThen
  <2>3. Returns(C \o B \o Check \o C, Outside)  BY <1>2, <2>2, ReturnsThen
  <2>4. Returns(C \o B \o Check \o C \o Relay, Outside)  BY <1>2, <2>3, ReturnsThen
  <2> QED  BY <2>4 DEF UpdateEntry, B, C
<1> QED  BY <1>3, <1>4, <1>5, <1>6, <1>7, <1>8, <1>9

\* SendMessages: both locks are tried, and the list of peers is entered inside
\* one peer's cs_vSend.
LEMMA SendMessagesReturns == Returns(SendMessages, Outside)
<1> DEFINE d == Inner(Outside, "cs_vSend")
           e == Inner(d, "cs_main")
           s == Under("cs_vNodes", Nothing) \o Under("voteTracker.cs", Nothing)
<1>1. Outside \in Depths /\ (\A l \in Locks : Outside[l] = 0) /\ Ascends(Outside, "voteTracker.cs")
  BY AscendsOutside, LockNames
<1>2. MaxDepth \in Nat /\ MaxDepth >= 3
  BY LockConstants
<1>3. /\ Rank["cs_vSend"] < Rank["voteTracker.cs"] /\ Rank["cs_main"] < Rank["voteTracker.cs"]
  BY Ranks
<1>4. Outside["cs_vSend"] = 0 /\ Outside["cs_vSend"] < MaxDepth
  BY <1>1, <1>2, LockNames
<1>5. /\ d \in Depths /\ d["cs_vSend"] = Outside["cs_vSend"] + 1
      /\ \A k \in Locks \ {"cs_vSend"} : d[k] = Outside[k]
  BY <1>1, <1>4, InnerDepths, LockNames
<1>6. Ascends(d, "voteTracker.cs")
  BY <1>1, <1>3, <1>5, AscendsInner, LockNames
<1> HIDE DEF d
<1>7. d["cs_main"] = 0 /\ d["cs_main"] < MaxDepth
  BY <1>1, <1>2, <1>5, LockNames
<1>8. /\ e \in Depths /\ e["cs_main"] = d["cs_main"] + 1
      /\ \A k \in Locks \ {"cs_main"} : e[k] = d[k]
  BY <1>5, <1>7, InnerDepths, LockNames
<1>9. Ascends(e, "voteTracker.cs")
  BY <1>3, <1>5, <1>6, <1>8, AscendsInner, LockNames
<1> HIDE DEF e
<1>10. e["cs_vSend"] > 0 /\ e["cs_vNodes"] < MaxDepth /\ e["voteTracker.cs"] = 0
  BY <1>1, <1>2, <1>4, <1>5, <1>8, LockNames
<1>11. Returns(Under("cs_vNodes", Nothing), e)
  <2>1. Allowed(e, "cs_vNodes")
    BY <1>10 DEF Allowed
  <2>2. Inner(e, "cs_vNodes") \in Depths
    BY <1>8, <1>10, InnerDepths, LockNames
  <2>3. Returns(Nothing, Inner(e, "cs_vNodes"))
    BY <2>2, ReturnsNothing
  <2> QED  BY <1>8, <1>10, <2>1, <2>3, ReturnsUnder, LockNames
<1>12. Returns(Under("voteTracker.cs", Nothing), e)
  BY <1>8, <1>9, ReturnsLone, LockNames
<1>13. Returns(s, e)
  BY <1>11, <1>12, ReturnsThen
<1> HIDE DEF s
<1>14. Returns(IfFree("cs_main", s), d)
  BY <1>5, <1>7, <1>13, ReturnsIfFree, LockNames DEF e
<1>15. Returns(IfFree("cs_vSend", IfFree("cs_main", s)), Outside)
  BY <1>1, <1>4, <1>14, ReturnsIfFree, LockNames DEF d
<1> QED  BY <1>15 DEF SendMessages, s

\* The paths of the stakers and of the commands.
LEMMA StakerPaths ==
  /\ Returns(ProbeWinner, Outside) /\ Returns(CreateNewBlock, Outside)
  /\ Returns(CreateCoinStake, Outside) /\ Returns(ExecuteCommand, Outside)
<1> DEFINE e == Inner(Outside, "cs_main")
           f == Inner(e, "mempool.cs")
           A == GetCanonicalWinnerFromQueues
           C == Under("mnodeman.cs", Nothing)
<1>1. Returns(A, e) /\ Returns(C, e) /\ Returns(Relay, e)
  BY InsideOnlyMain
<1>2. Returns(A, Outside) /\ Returns(FindOldestNotInVec, Outside)
  BY FromOutside
<1>3. /\ e \in Depths /\ e["cs_main"] > 0 /\ e["mempool.cs"] < MaxDepth
      /\ f \in Depths /\ f["cs_main"] > 0 /\ Room(f, 2) /\ Ascends(f, "mnodeman.cs")
  BY OnlyMain
<1> HIDE DEF A, C
<1>4. Returns(ProbeWinner, Outside)
  BY <1>1, MainReturns DEF ProbeWinner, A
<1>5. Returns(CreateCoinStake, Outside)
  BY <1>2, ReturnsThen DEF CreateCoinStake, A
<1>6. Returns(ExecuteCommand, Outside)
  <2>1. Returns(C \o A, e)  BY <1>1, ReturnsThen
  <2>2. Returns(C \o A \o Relay, e)  BY <1>1, <2>1, ReturnsThen
  <2> QED  BY <2>2, MainReturns DEF ExecuteCommand, A, C
<1>7. Returns(CreateNewBlock, Outside)
  <2> HIDE DEF e, f
  <2>1. Room(f, 1) /\ Ascends(f, "voteTracker.cs") /\ Allowed(f, "cs_main")
    BY <1>3, RoomLess, AscendsAll DEF Allowed
  <2>2. Returns(A, f)
    BY <1>3, <2>1, WinnerReturns DEF A
  <2>3. Returns(FindOldestNotInVec, f)
    BY <1>3, <2>1, ManagerReturns
  <2>4. Returns(A \o FindOldestNotInVec, f)
    BY <2>2, <2>3, ReturnsThen
  <2>5. Allowed(e, "mempool.cs")
    BY <1>3 DEF Allowed
  <2>6. Returns(Under("mempool.cs", A \o FindOldestNotInVec), e)
    BY <1>3, <2>4, <2>5, ReturnsUnder, LockNames DEF f
  <2> QED  BY <2>6, MainReturns DEF CreateNewBlock, A, e
<1> QED  BY <1>4, <1>5, <1>6, <1>7

\* The paths of the masternode thread and of the socket handler.
LEMMA OtherPaths ==
  Returns(ManageStatus, Outside) /\ Returns(ServeSockets, Outside)
<1> DEFINE C == Under("mnodeman.cs", Nothing)
           d == Inner(Outside, "cs_vNodes")
<1>1. Returns(GetTransaction, Outside) /\ Returns(C, Outside) /\ Returns(Relay, Outside)
  BY FromOutside
<1>2. Returns(ManageStatus, Outside)
  <2> HIDE DEF C
  <2>1. Returns(GetTransaction \o C, Outside)
    BY <1>1, ReturnsThen
  <2>2. Returns(GetTransaction \o C \o Relay, Outside)
    BY <1>1, <2>1, ReturnsThen
  <2> QED  BY <2>2 DEF ManageStatus, C
<1>3. /\ Outside \in Depths /\ Ascends(Outside, "cs_vNodes") /\ Ascends(Outside, "cs_vSend")
      /\ Outside["cs_vNodes"] < MaxDepth
  BY AscendsOutside, AscendsFree, LockNames
<1>4. d \in Depths
  BY <1>3, InnerDepths, LockNames
<1>5. Ascends(d, "cs_vSend")
  <2>1. Rank["cs_vNodes"] < Rank["cs_vSend"]
    BY Ranks
  <2> QED  BY <1>3, <1>4, <2>1, AscendsInner, LockNames
<1> HIDE DEF d
<1>6. d["cs_vSend"] < MaxDepth
  BY <1>4, <1>5, AscendsFree, LockNames
<1>7. Inner(d, "cs_vSend") \in Depths
  BY <1>4, <1>6, InnerDepths, LockNames
<1>8. Returns(Nothing, Inner(d, "cs_vSend"))
  BY <1>7, ReturnsNothing
<1>9. Returns(IfFree("cs_vSend", Nothing), d)
  BY <1>4, <1>6, <1>8, ReturnsIfFree, LockNames
<1>10. Allowed(Outside, "cs_vNodes")
  BY <1>3 DEF Allowed
<1>11. Returns(ServeSockets, Outside)
  BY <1>3, <1>9, <1>10, ReturnsUnder, LockNames DEF ServeSockets, d
<1> QED  BY <1>2, <1>11

\* Every path of every kind of thread keeps to the order and leaves all locks.
LEMMA PathsReturn ==
  ASSUME NEW kind \in Kinds, NEW path \in Paths(kind)
  PROVE  Returns(path, Outside)
<1>1. CASE kind = "message"
  BY <1>1, MessagePaths, SendMessagesReturns DEF Paths
<1>2. CASE kind = "staker"
  BY <1>2, MessagePaths, StakerPaths DEF Paths
<1>3. CASE kind = "mnengine"
  BY <1>3, FromOutside, OtherPaths DEF Paths
<1>4. CASE kind = "rpc"
  BY <1>4, StakerPaths DEF Paths
<1>5. CASE kind = "socket"
  BY <1>5, OtherPaths DEF Paths
<1> QED  BY <1>1, <1>2, <1>3, <1>4, <1>5 DEF Kinds

-----------------------------------------------------------------------------
\* The invariant.

\* What is left of each thread's path leads from where it is out of all locks,
\* in order all the way.
InOrder == \A t \in Threads : Leads(todo[t], inside[t], Outside)

\* One thread inside a lock at a time.
Exclusive == \A l \in Locks : \A t, u \in Threads : Holds(t, l) /\ Holds(u, l) => t = u

Inv ==
  /\ todo \in [Threads -> Seq(Steps)] /\ inside \in [Threads -> Depths]
  /\ InOrder /\ Exclusive

\* At the start there is nothing to do, outside all locks.
LEMMA InitInv ==
  ASSUME Init
  PROVE  Inv
<1>1. Outside \in Depths /\ \A l \in Locks : Outside[l] = 0
  BY AscendsOutside
<1>2. Nothing \in Seq(Steps)
  BY EmptySeq DEF Nothing
<1>3. Leads(Nothing, Outside, Outside)
  BY <1>1, ReturnsNothing DEF Returns
<1>4. /\ \A t \in Threads : todo[t] = Nothing /\ inside[t] = Outside
      /\ todo \in [Threads -> Seq(Steps)] /\ inside \in [Threads -> Depths]
  BY <1>1, <1>2 DEF Init, Outside
<1>5. InOrder
  BY <1>3, <1>4 DEF InOrder
<1>6. Exclusive
  BY <1>1, <1>4 DEF Exclusive, Holds
<1> QED  BY <1>4, <1>5, <1>6 DEF Inv

\* A thread goes to another depth with another rest of its path, inside no lock
\* that another thread has.
LEMMA ThreadStep ==
  ASSUME Inv, NEW t \in Threads, NEW r \in Seq(Steps), NEW f \in Depths, Leads(r, f, Outside),
         \A l \in Locks : \A u \in Threads \ {t} : ~(f[l] > 0 /\ Holds(u, l)),
         todo' = [todo EXCEPT ![t] = r], inside' = [inside EXCEPT ![t] = f]
  PROVE  Inv'
<1>1. todo' \in [Threads -> Seq(Steps)] /\ inside' \in [Threads -> Depths]
  BY DEF Inv
<1>2. todo'[t] = r /\ inside'[t] = f
  BY DEF Inv
<1>3. \A u \in Threads \ {t} : todo'[u] = todo[u] /\ inside'[u] = inside[u]
  BY DEF Inv
<1>4. InOrder'
  <2>1. \A u \in Threads : Leads(todo'[u], inside'[u], Outside)
    BY <1>2, <1>3 DEF Inv, InOrder
  <2> QED  BY <2>1 DEF InOrder
<1>5. Exclusive'
  <2>1. ASSUME NEW l \in Locks, NEW u \in Threads, NEW v \in Threads,
               inside'[u][l] > 0, inside'[v][l] > 0
        PROVE  u = v
    BY <1>2, <1>3, <2>1 DEF Inv, Exclusive, Holds
  <2> QED  BY <2>1 DEF Exclusive, Holds
<1> QED  BY <1>1, <1>4, <1>5 DEF Inv

\* Every step keeps the invariant.
LEMMA NextInv ==
  ASSUME Inv, [Next]_vars
  PROVE  Inv'
<1>1. CASE UNCHANGED vars
  BY <1>1 DEF Inv, InOrder, Exclusive, Holds, vars
<1>2. ASSUME NEW t \in Threads, Begin(t) \/ Enter(t) \/ SkipBlock(t) \/ Leave(t)
      PROVE  Inv'
  <2> DEFINE d == inside[t]
             s == todo[t]
             a == Head(s)
             l == a.lock
  <2>1. /\ d \in Depths /\ s \in Seq(Steps) /\ Leads(s, d, Outside)
        /\ todo \in [Threads -> Seq(Steps)] /\ inside \in [Threads -> Depths]
    BY DEF Inv, InOrder
  <2>2. \A k \in Locks : \A u \in Threads \ {t} : ~(d[k] > 0 /\ Holds(u, k))
    BY DEF Inv, Exclusive, Holds
  <2>3. UNCHANGED inside => inside' = [inside EXCEPT ![t] = d]
    BY <2>1
  <2>4. CASE Begin(t)
    <3>1. PICK path \in Paths(Kind[t]) : todo' = [todo EXCEPT ![t] = path]
      BY <2>4 DEF Begin
    <3>2. Kind[t] \in Kinds
      BY LockConstants
    <3>3. Returns(path, Outside)
      BY <3>1, <3>2, PathsReturn
    <3>4. path \in Seq(Steps) /\ Leads(path, Outside, Outside)
      BY <3>3, FollowsTypes DEF Returns, Leads
    <3>5. d = Outside
      BY <2>1, <2>4, LeadsNowhere DEF Begin
    <3>6. inside' = [inside EXCEPT ![t] = d]
      BY <2>3, <2>4 DEF Begin
    <3> HIDE DEF d
    <3> QED  BY <2>1, <2>2, <3>1, <3>4, <3>5, <3>6, ThreadStep
  <2>5. ASSUME s # Nothing
        PROVE  /\ a \in Steps /\ l \in Locks
               /\ \E f \in Depths : Moves(a, d, f) /\ Leads(Tail(s), f, Outside)
               /\ Tail(s) \in Seq(Steps)
               /\ a.op = "try" => Leads(SubSeq(s, a.skip + 2, Len(s)), d, Outside)
    <3>1. /\ a \in Steps /\ \E f \in Depths : Moves(a, d, f) /\ Leads(Tail(s), f, Outside)
          /\ a.op = "try" => Leads(SubSeq(s, a.skip + 2, Len(s)), d, Outside)
      <4> HIDE DEF s, d
      <4> QED  BY <2>1, <2>5, LeadsOn DEF a
    <3>2. l \in Locks
      <4>1. \A b \in Steps : b.lock \in Locks
        BY DEF Steps
      <4> QED  BY <3>1, <4>1
    <3>3. Tail(s) \in Seq(Steps)
      BY <2>1, <2>5, HeadTailProperties DEF Nothing
    <3> QED  BY <3>1, <3>2, <3>3
  <2>6. CASE Enter(t)
    <3>1. /\ s # Nothing /\ (a.op = "lock" \/ a.op = "try")
          /\ todo' = [todo EXCEPT ![t] = Tail(s)] /\ Free(t, l)
      BY <2>1, <2>6 DEF Enter, At
    <3>2. /\ l \in Locks /\ Tail(s) \in Seq(Steps)
          /\ \E f \in Depths : Moves(a, d, f) /\ Leads(Tail(s), f, Outside)
      BY <2>5, <3>1
    <3>3. PICK f \in Depths : Moves(a, d, f) /\ Leads(Tail(s), f, Outside)
      BY <3>2
    <3>4. f = Inner(d, l)
      BY <3>1, <3>3 DEF Moves
    <3>5. inside' = [inside EXCEPT ![t] = f]
      <4>1. inside' = [inside EXCEPT ![t] = [d EXCEPT ![l] = d[l] + 1]]
        BY <2>1, <2>6 DEF Enter
      <4> QED  BY <3>4, <4>1 DEF Inner
    <3>6. \A k \in Locks : \A u \in Threads \ {t} : ~(f[k] > 0 /\ Holds(u, k))
      <4>1. \A k \in Locks : k # l => f[k] = d[k]
        <5>1. d \in [Locks -> Nat]
          BY <2>1, DepthTypes
        <5> HIDE DEF d, l
        <5> QED  BY <3>2, <3>4, <5>1 DEF Inner
      <4>2. \A u \in Threads \ {t} : ~Holds(u, l)
        BY <3>1 DEF Free
      <4> QED  BY <2>2, <4>1, <4>2
    <3> HIDE DEF s
    <3> QED  BY <3>1, <3>2, <3>3, <3>5, <3>6, ThreadStep
  <2>7. CASE SkipBlock(t)
    <3> DEFINE r == SubSeq(s, a.skip + 2, Len(s))
    <3>1. s # Nothing /\ a.op = "try" /\ todo' = [todo EXCEPT ![t] = r]
      BY <2>1, <2>7 DEF SkipBlock, At
    <3>2. Leads(r, d, Outside)
      BY <2>5, <3>1
    <3>3. inside' = [inside EXCEPT ![t] = d]
      BY <2>3, <2>7 DEF SkipBlock
    <3> HIDE DEF r, d
    <3>4. r \in Seq(Steps)
      BY <3>2, FollowsTypes DEF Leads
    <3> QED  BY <2>1, <2>2, <3>1, <3>2, <3>3, <3>4, ThreadStep
  <2>8. CASE Leave(t)
    <3>1. s # Nothing /\ a.op = "unlock" /\ todo' = [todo EXCEPT ![t] = Tail(s)]
      BY <2>1, <2>8 DEF Leave, At
    <3>2. /\ l \in Locks /\ Tail(s) \in Seq(Steps)
          /\ \E f \in Depths : Moves(a, d, f) /\ Leads(Tail(s), f, Outside)
      BY <2>5, <3>1
    <3>3. PICK f \in Depths : Moves(a, d, f) /\ Leads(Tail(s), f, Outside)
      BY <3>2
    <3>4. f = Outer(d, l) /\ d[l] > 0
      BY <3>1, <3>3 DEF Moves
    <3>5. inside' = [inside EXCEPT ![t] = f]
      <4>1. inside' = [inside EXCEPT ![t] = [d EXCEPT ![l] = d[l] - 1]]
        BY <2>1, <2>8 DEF Leave
      <4> QED  BY <3>4, <4>1 DEF Outer
    <3>6. \A k \in Locks : \A u \in Threads \ {t} : ~(f[k] > 0 /\ Holds(u, k))
      <4>1. \A k \in Locks : f[k] > 0 => d[k] > 0
        <5>1. d \in [Locks -> Nat]
          BY <2>1, DepthTypes
        <5> HIDE DEF d, l
        <5>2. \A k \in Locks : k # l => f[k] = d[k]
          BY <3>2, <3>4, <5>1 DEF Outer
        <5> QED  BY <3>4, <5>2
      <4> QED  BY <2>2, <4>1
    <3> HIDE DEF s
    <3> QED  BY <3>1, <3>2, <3>3, <3>5, <3>6, ThreadStep
  <2> QED  BY <1>2, <2>4, <2>6, <2>7, <2>8
<1> QED  BY <1>1, <1>2 DEF Next

\* Every reachable state satisfies the invariant.
LEMMA SpecInv == Spec => []Inv
<1>1. Init => Inv
  BY InitInv
<1>2. Inv /\ [Next]_vars => Inv'
  BY NextInv
<1> QED  BY <1>1, <1>2, PTL DEF Spec

\* However many threads of each kind run, one at a time is inside a lock, none
\* deeper than the bound, and none inside any between two paths.
THEOREM LockTypes == Spec => []TypeOK
<1>1. ASSUME Inv PROVE TypeOK
  <2>1. inside \in [Threads -> [Locks -> 0 .. MaxDepth]]
    BY <1>1 DEF Inv, Depths
  <2>2. ASSUME NEW t \in Threads, todo[t] = Nothing
        PROVE  \A l \in Locks : ~Holds(t, l)
    <3>1. Leads(Nothing, inside[t], Outside)
      BY <1>1, <2>2 DEF Inv, InOrder
    <3>2. inside[t] = Outside
      BY <3>1, LeadsNowhere
    <3> QED  BY <3>2, AscendsOutside DEF Holds
  <2> QED  BY <1>1, <2>1, <2>2 DEF TypeOK, Inv, Exclusive
<1> QED  BY <1>1, SpecInv, PTL

-----------------------------------------------------------------------------
\* Waiting.

\* A thread that waits for another goes up in the order, unless it makes one of
\* the two inverted entries, without the tracker's lock.  It does not wait for
\* the pool's: both would be inside cs_main.
LEMMA Waiting ==
  ASSUME Inv, NEW t \in Threads, NEW u \in Threads \ {t}, NEW l \in Locks,
         Wants(t, l), Holds(u, l)
  PROVE  /\ l # "mempool.cs"
         /\ Ascends(inside[t], l) \/ (Inverted(t) /\ ~Holds(t, "voteTracker.cs"))
<1> DEFINE d == inside[t]
<1>1. ~Holds(t, l)
  BY DEF Inv, Exclusive
<1>2. Allowed(d, l)
  <2>1. todo[t] # Nothing /\ Head(todo[t]).op = "lock" /\ Head(todo[t]).lock = l
    BY DEF Wants, At
  <2>2. Leads(todo[t], d, Outside)
    BY DEF Inv, InOrder
  <2> HIDE DEF d
  <2>3. \E f \in Depths : Moves(Head(todo[t]), d, f)
    BY <2>1, <2>2, LeadsOn
  <2> QED  BY <2>1, <2>3 DEF Moves
<1>3. l # "mempool.cs"
  <2>1. ASSUME l = "mempool.cs" PROVE FALSE
    <3>1. inside[u] \in Depths
      BY DEF Inv
    <3>2. Holds(u, "cs_main")
      BY <2>1, <3>1 DEF Depths, Holds
    <3>3. Holds(t, "cs_main")
      BY <1>1, <1>2, <2>1 DEF Allowed, Ascends, Holds
    <3> QED  BY <3>2, <3>3, LockNames DEF Inv, Exclusive
  <2> QED  BY <2>1
<1>4. \/ Ascends(d, l)
      \/ /\ d["voteTracker.cs"] = 0
         /\ \/ d["mnodeman.cs"] > 0 /\ l = "cs_main"
            \/ d["cs_vSend"] > 0 /\ l = "cs_vNodes"
  <2>1. ~(d[l] > 0)
    BY <1>1 DEF Holds
  <2> HIDE DEF d
  <2> QED  BY <1>2, <1>3, <2>1, Zenon DEF Allowed
<1>5. CASE Ascends(d, l)
  BY <1>3, <1>5
<1>6. CASE /\ d["voteTracker.cs"] = 0
           /\ \/ d["mnodeman.cs"] > 0 /\ l = "cs_main"
              \/ d["cs_vSend"] > 0 /\ l = "cs_vNodes"
  <2>1. ~Holds(t, "voteTracker.cs")
    BY <1>6 DEF Holds
  <2>2. Inverted(t)
    <3>1. CASE d["mnodeman.cs"] > 0 /\ l = "cs_main"
      BY <3>1 DEF Inverted, Holds
    <3>2. CASE d["cs_vSend"] > 0 /\ l = "cs_vNodes"
      BY <3>2 DEF Inverted, Holds
    <3> QED  BY <1>6, <3>1, <3>2
  <2> QED  BY <1>3, <2>1, <2>2
<1> QED  BY <1>4, <1>5, <1>6

\* A thread inside the tracker's lock waits for nobody.
LEMMA TrackerHolderMoves ==
  ASSUME Inv, NEW t \in Threads, NEW u \in Threads \ {t}, NEW l \in Locks,
         Wants(t, l), Holds(u, l)
  PROVE  ~Holds(t, "voteTracker.cs")
<1> SUFFICES ASSUME Holds(t, "voteTracker.cs") PROVE FALSE
  OBVIOUS
<1>1. l # "mempool.cs" /\ Ascends(inside[t], l)
  BY Waiting
<1>2. Rank["voteTracker.cs"] < Rank[l]
  BY <1>1, LockNames DEF Ascends, Holds
<1> QED  BY <1>1, <1>2, Ranks DEF Locks

\* A thread of those that wait for one another wants a lock that another has.
LEMMA StuckWants ==
  ASSUME Inv, NEW D \in SUBSET Threads, Stuck(D), NEW t \in D
  PROVE  \E l \in Locks, u \in D \ {t} : Wants(t, l) /\ Holds(u, l)
<1>1. At(t, "lock") /\ \E u \in D \ {t} : Holds(u, Head(todo[t]).lock)
  BY DEF Stuck
<1>2. todo[t] # Nothing /\ Leads(todo[t], inside[t], Outside)
  BY <1>1 DEF At, Inv, InOrder
<1>3. Head(todo[t]) \in Steps
  BY <1>2, LeadsOn
<1>4. Head(todo[t]).lock \in Locks
  BY <1>3 DEF Steps
<1>5. Wants(t, Head(todo[t]).lock)
  BY <1>1 DEF Wants
<1> QED  BY <1>1, <1>4, <1>5

\* However many threads of each kind run, those that wait for one another
\* neither have the tracker's lock nor wait for it.
THEOREM TrackerFree == Spec => []TrackerNotInCycle
<1>1. ASSUME Inv PROVE TrackerNotInCycle
  <2> SUFFICES ASSUME NEW D \in SUBSET Threads, Stuck(D), NEW t \in D
               PROVE  ~Holds(t, "voteTracker.cs") /\ ~Wants(t, "voteTracker.cs")
    BY DEF TrackerNotInCycle
  <2>1. \A v \in D : \E l \in Locks, u \in D \ {v} : Wants(v, l) /\ Holds(u, l)
    BY <1>1, StuckWants
  <2>2. \A v \in D : ~Holds(v, "voteTracker.cs")
    BY <1>1, <2>1, TrackerHolderMoves
  <2>3. ~Wants(t, "voteTracker.cs")
    <3>1. PICK l \in Locks, u \in D \ {t} : Wants(t, l) /\ Holds(u, l)
      BY <2>1
    <3>2. Wants(t, "voteTracker.cs") => l = "voteTracker.cs"
      BY <3>1 DEF Wants
    <3> QED  BY <2>2, <3>1, <3>2
  <2> QED  BY <2>2, <2>3
<1> QED  BY <1>1, SpecInv, PTL

\* However many threads of each kind run, they only wait for one another in a
\* cycle through FindOldestNotInVec or the daily address refresh: without the
\* two inverted entries each of them would wait for a higher lock than the one
\* waiting for it.
THEOREM KnownCyclesOnly == Spec => []OnlyKnownCycles
<1>1. ASSUME Inv PROVE OnlyKnownCycles
  <2> SUFFICES ASSUME NEW D \in SUBSET Threads, Stuck(D), \A t \in D : ~Inverted(t)
               PROVE  FALSE
    BY DEF OnlyKnownCycles
  <2> DEFINE W(n) == \E u \in D, l \in Locks : Holds(u, l) /\ l # "mempool.cs" /\ Rank[l] >= n
  <2>1. ASSUME NEW t \in D
        PROVE  \E l \in Locks, u \in D \ {t} :
                 Wants(t, l) /\ Holds(u, l) /\ l # "mempool.cs" /\ Ascends(inside[t], l)
    <3>1. PICK l \in Locks, u \in D \ {t} : Wants(t, l) /\ Holds(u, l)
      BY <1>1, StuckWants
    <3>2. t \in Threads /\ u \in Threads \ {t} /\ ~Inverted(t)
      BY <3>1
    <3> QED  BY <1>1, <3>1, <3>2, Waiting
  <2>2. W(0)
    <3>1. PICK t \in D : TRUE
      BY DEF Stuck
    <3>2. PICK l \in Locks, u \in D \ {t} : Wants(t, l) /\ Holds(u, l) /\ l # "mempool.cs"
      BY <2>1
    <3>3. Rank[l] >= 0
      BY Ranks
    <3> QED  BY <3>2, <3>3
  <2>3. ASSUME NEW n \in Nat, W(n) PROVE W(n + 1)
    <3>1. PICK u \in D, l \in Locks : Holds(u, l) /\ l # "mempool.cs" /\ Rank[l] >= n
      BY <2>3
    <3>2. PICK k \in Locks, v \in D \ {u} :
            Wants(u, k) /\ Holds(v, k) /\ k # "mempool.cs" /\ Ascends(inside[u], k)
      BY <2>1
    <3>3. Rank[l] < Rank[k]
      BY <3>1, <3>2 DEF Ascends, Holds
    <3>4. Rank[l] \in Nat /\ Rank[k] \in Nat
      BY Ranks
    <3>5. Rank[k] >= n + 1
      BY <3>1, <3>3, <3>4
    <3> QED  BY <3>2, <3>5
  <2>4. ~W(5)
    <3>1. \A l \in Locks : l # "mempool.cs" => ~(Rank[l] >= 5)
      BY Ranks DEF Locks
    <3> QED  BY <3>1
  <2> HIDE DEF W
  <2>5. W(1)  BY <2>2, <2>3
  <2>6. W(2)  BY <2>5, <2>3
  <2>7. W(3)  BY <2>6, <2>3
  <2>8. W(4)  BY <2>7, <2>3
  <2>9. W(5)  BY <2>8, <2>3
  <2> QED  BY <2>4, <2>9
<1> QED  BY <1>1, SpecInv, PTL
=============================================================================
