------------------------ MODULE PayeeRotationProofs ------------------------
(***************************************************************************)
(* Proofs about PayeeRotation for every number of masternodes, every queue *)
(* length, every lag and depth that keep a new collateral out of the       *)
(* queues already cast.                                                    *)
(***************************************************************************)
EXTENDS PayeeRotation, FiniteSetTheorems, WellFoundedInduction, TLAPS

\* Induction over naturals with sets instead of predicates: a cited theorem with
\* an operator parameter is beyond the installed provers, a set is not.

\* Every nonempty set of naturals has a least element.
LEMMA LeastElement ==
  ASSUME NEW T \in SUBSET Nat, T # {}
  PROVE  \E x \in T : \A y \in T : x <= y
<1> DEFINE R == OpToRel(<, Nat)
<1>1. R = {ss \in Nat \X Nat : ss[1] < ss[2]}
  BY DEF OpToRel
<1>2. IsWellFoundedOn(R, Nat)
  BY NatLessThanWellFounded
<1> HIDE DEF R
<1>3. PICK x \in T : \A y \in T : ~ (<<y, x>> \in R)
  BY <1>2, WFMin
<1>4. \A y \in T : ~(y < x)
  BY <1>1, <1>3
<1> QED BY <1>4

\* A set of naturals with 0 and every successor of a member is all of them.
LEMMA SetInduction ==
  ASSUME NEW S \in SUBSET Nat, 0 \in S, \A n \in S : n + 1 \in S
  PROVE  S = Nat
<1>1. ASSUME Nat \ S # {} PROVE FALSE
  <2>1. PICK x \in Nat \ S : \A y \in Nat \ S : x <= y
    BY <1>1, LeastElement
  <2>2. x # 0 /\ x - 1 \in Nat
    BY <2>1
  <2>3. x - 1 \in S
    BY <2>1, <2>2
  <2> QED BY <2>3
<1> QED BY <1>1

-----------------------------------------------------------------------------
\* The order in which SimulateQueue chooses: smaller rank, then outpoint.
Ahead(conf, simPaid, m, n) ==
  \/ Rank(conf, simPaid, m) < Rank(conf, simPaid, n)
  \/ Rank(conf, simPaid, m) = Rank(conf, simPaid, n) /\ m < n

Confirmations == [Masternodes -> Int]
Payments == [Masternodes -> Nat]

-----------------------------------------------------------------------------
\* The constants, one fact at a time.

\* The bounds are naturals.
LEMMA Bounds ==
  /\ NumMasternodes \in Nat \ {0} /\ QueueLength \in Nat \ {0}
  /\ ReferenceLag \in Nat /\ EligibilityDepth \in Nat
  /\ FirstHeight \in Nat /\ MaxHeight \in Nat /\ FirstHeight <= MaxHeight
BY RotationConstants

\* The empty script is no masternode.
LEMMA NobodyApart == Nobody \notin Masternodes
BY RotationConstants DEF Masternodes

-----------------------------------------------------------------------------
\* The choice of one position.

\* A masternode that is eligible for some height has a rank.
LEMMA RankOfCandidate ==
  ASSUME NEW conf \in Confirmations, NEW simPaid \in Payments, NEW target,
         NEW m \in EligibleFor(conf, target)
  PROVE  m \in Masternodes /\ conf[m] >= 0 /\ conf[m] \in Int /\ Rank(conf, simPaid, m) \in Nat
<1>1. m \in Masternodes /\ conf[m] >= 0
  BY DEF EligibleFor
<1>2. conf[m] \in Int /\ simPaid[m] \in Nat
  BY <1>1 DEF Confirmations, Payments
<1> QED BY <1>1, <1>2 DEF Rank

\* The first of the eligible masternodes exists and is the only one.
LEMMA OldestIsFirst ==
  ASSUME NEW conf \in Confirmations, NEW simPaid \in Payments, NEW target,
         EligibleFor(conf, target) # {}
  PROVE  /\ Oldest(conf, simPaid, target) \in EligibleFor(conf, target)
         /\ \A n \in EligibleFor(conf, target) \ {Oldest(conf, simPaid, target)} :
              Ahead(conf, simPaid, Oldest(conf, simPaid, target), n)
<1> DEFINE C == EligibleFor(conf, target)
           R == {Rank(conf, simPaid, m) : m \in C}
<1>1. C \subseteq Masternodes /\ C # {}
  BY DEF EligibleFor
<1>2. \A m \in C : Rank(conf, simPaid, m) \in Nat
  BY RankOfCandidate
<1> HIDE DEF C
<1>3. PICK r \in R : \A s \in R : r <= s
  <2>1. R \in SUBSET Nat /\ R # {}
    BY <1>1, <1>2
  <2> HIDE DEF R
  <2> QED BY <2>1, LeastElement
<1> DEFINE D == {m \in C : Rank(conf, simPaid, m) = r}
<1>4. PICK d \in D : \A m \in D : d <= m
  <2>1. D # {}
    BY <1>3
  <2>2. D \subseteq Nat
    BY <1>1, Bounds DEF Masternodes
  <2> HIDE DEF D
  <2> QED BY <2>1, <2>2, LeastElement
<1>5. \A n \in C \ {d} : Ahead(conf, simPaid, d, n)
  <2> SUFFICES ASSUME NEW n \in C \ {d} PROVE Ahead(conf, simPaid, d, n)
    OBVIOUS
  <2>1. Rank(conf, simPaid, d) = r /\ r <= Rank(conf, simPaid, n)
    BY <1>3, <1>4
  <2>2. d \in Int /\ n \in Int
    BY <1>1, <1>4, Bounds DEF Masternodes
  <2>3. Rank(conf, simPaid, n) = r => d <= n
    BY <1>4
  <2>4. Rank(conf, simPaid, n) \in Nat /\ r \in Nat
    BY <1>2, <1>4
  <2> QED BY <2>1, <2>2, <2>3, <2>4 DEF Ahead
<1>6. Oldest(conf, simPaid, target) = CHOOSE m \in C : \A n \in C \ {m} : Ahead(conf, simPaid, m, n)
  BY <1>1 DEF Oldest, Ahead, C
<1>7. \E m \in C : \A n \in C \ {m} : Ahead(conf, simPaid, m, n)
  BY <1>4, <1>5
<1>8. /\ Oldest(conf, simPaid, target) \in C
      /\ \A n \in C \ {Oldest(conf, simPaid, target)} : Ahead(conf, simPaid, Oldest(conf, simPaid, target), n)
  <2> HIDE DEF D, R
  <2> QED BY <1>6, <1>7
<1> QED BY <1>8 DEF C

\* A position names an eligible masternode, or nobody when there is none.
LEMMA OldestType ==
  ASSUME NEW conf \in Confirmations, NEW simPaid \in Payments, NEW target
  PROVE  Oldest(conf, simPaid, target) \in EligibleFor(conf, target) \cup {Nobody}
<1>1. CASE EligibleFor(conf, target) = {}
  BY <1>1 DEF Oldest
<1>2. CASE EligibleFor(conf, target) # {}
  BY <1>2, OldestIsFirst
<1> QED BY <1>1, <1>2

\* The choice depends on the eligible masternodes and their ranks alone.
LEMMA OldestAgrees ==
  ASSUME NEW conf \in Confirmations, NEW conf2 \in Confirmations, NEW simPaid \in Payments,
         NEW target, EligibleFor(conf, target) = EligibleFor(conf2, target),
         \A m \in EligibleFor(conf, target) : conf[m] = conf2[m]
  PROVE  Oldest(conf, simPaid, target) = Oldest(conf2, simPaid, target)
<1> DEFINE C == EligibleFor(conf, target)
           d == Oldest(conf, simPaid, target)
           e == Oldest(conf2, simPaid, target)
<1>1. CASE C = {}
  BY <1>1 DEF Oldest
<1>2. CASE C # {}
  <2>1. d \in C /\ \A n \in C \ {d} : Ahead(conf, simPaid, d, n)
    BY <1>2, OldestIsFirst
  <2>2. e \in C /\ \A n \in C \ {e} : Ahead(conf2, simPaid, e, n)
    BY <1>2, OldestIsFirst
  <2>3. \A m \in C : Rank(conf, simPaid, m) = Rank(conf2, simPaid, m) /\ Rank(conf, simPaid, m) \in Nat
    BY RankOfCandidate DEF Rank
  <2>4. C \subseteq Int
    BY Bounds DEF EligibleFor, Masternodes
  <2> HIDE DEF C, d, e
  <2>5. ASSUME d # e PROVE FALSE
    <3>1. Ahead(conf, simPaid, d, e) /\ Ahead(conf2, simPaid, e, d)
      BY <2>1, <2>2, <2>5
    <3>2. d \in Int /\ e \in Int
      BY <2>1, <2>2, <2>4
    <3> QED BY <3>1, <3>2, <2>1, <2>2, <2>3 DEF Ahead
  <2> QED BY <2>5 DEF d, e
<1> QED BY <1>1, <1>2

-----------------------------------------------------------------------------
\* The loop of SimulateQueue.

\* Recording a payment keeps the shape of the record.
LEMMA PayType ==
  ASSUME NEW simPaid \in Payments, NEW m, NEW h \in Nat
  PROVE  Pay(simPaid, m, h) \in Payments
BY DEF Pay, Payments

\* sim is the simulated record before each position of a queue cast at qh.
Simulates(sim, qh, conf, snapshot) ==
  /\ sim \in [0 .. QueueLength -> Payments]
  /\ sim[0] = snapshot
  /\ \A p \in Positions :
       sim[p + 1] = Pay(sim[p], Oldest(conf, sim[p], TargetOf(qh, p)), TargetOf(qh, p))

\* The loop of SimulateQueue is well defined: there is such a record, and the
\* queue is what it chooses at each position.
LEMMA SimulationExists ==
  ASSUME NEW qh \in Nat, NEW conf \in Confirmations, NEW snapshot \in Payments
  PROVE  \E sim : /\ Simulates(sim, qh, conf, snapshot)
                  /\ SimulateQueue(qh, conf, snapshot) =
                       [p \in Positions |-> Oldest(conf, sim[p], TargetOf(qh, p))]
<1> DEFINE step(s, n) == Pay(s, Oldest(conf, s, TargetOf(qh, n - 1)), TargetOf(qh, n - 1))
           S == {k \in Nat : k <= QueueLength =>
                   \E g \in [0 .. k -> Payments] :
                     g = [n \in 0 .. k |-> IF n = 0 THEN snapshot ELSE step(g[n - 1], n)]}
           f == CHOOSE g : g = [n \in 0 .. QueueLength |-> IF n = 0 THEN snapshot ELSE step(g[n - 1], n)]
<1>q. QueueLength \in Nat \ {0}
  BY Bounds
<1>t. \A s \in Payments, n \in 1 .. QueueLength : step(s, n) \in Payments
  <2> SUFFICES ASSUME NEW s \in Payments, NEW n \in 1 .. QueueLength PROVE step(s, n) \in Payments
    OBVIOUS
  <2>1. TargetOf(qh, n - 1) \in Nat
    BY <1>q DEF TargetOf
  <2> QED BY <2>1, PayType
<1>v. f = CHOOSE g : g = [n \in 0 .. QueueLength |-> IF n = 0 THEN snapshot ELSE step(g[n - 1], n)]
  OBVIOUS
<1>s. SimulateQueue(qh, conf, snapshot) = [p \in Positions |-> Oldest(conf, f[p], TargetOf(qh, p))]
  BY DEF SimulateQueue
<1> HIDE DEF step, f
<1>1. 0 \in S
  <2> DEFINE g == [n \in 0 .. 0 |-> snapshot]
  <2>1. g \in [0 .. 0 -> Payments]
    OBVIOUS
  <2>2. g = [n \in 0 .. 0 |-> IF n = 0 THEN snapshot ELSE step(g[n - 1], n)]
    OBVIOUS
  <2> QED BY <2>1, <2>2
<1>2. ASSUME NEW k \in S PROVE k + 1 \in S
  <2> SUFFICES ASSUME k + 1 <= QueueLength
               PROVE  \E g \in [0 .. k + 1 -> Payments] :
                        g = [n \in 0 .. k + 1 |-> IF n = 0 THEN snapshot ELSE step(g[n - 1], n)]
    OBVIOUS
  <2>1. PICK g \in [0 .. k -> Payments] :
          g = [n \in 0 .. k |-> IF n = 0 THEN snapshot ELSE step(g[n - 1], n)]
    BY <1>q
  <2> DEFINE h == [n \in 0 .. k + 1 |-> IF n = k + 1 THEN step(g[k], k + 1) ELSE g[n]]
  <2>2. h \in [0 .. k + 1 -> Payments]
    <3>1. k \in Nat /\ k + 1 \in 1 .. QueueLength
      BY <1>q
    <3>2. step(g[k], k + 1) \in Payments
      BY <1>t, <3>1
    <3> QED BY <3>1, <3>2
  <2>3. ASSUME NEW n \in 0 .. k + 1 PROVE h[n] = IF n = 0 THEN snapshot ELSE step(h[n - 1], n)
    BY <2>1
  <2>4. h = [n \in 0 .. k + 1 |-> h[n]]
    OBVIOUS
  <2> HIDE DEF h
  <2>5. h = [n \in 0 .. k + 1 |-> IF n = 0 THEN snapshot ELSE step(h[n - 1], n)]
    BY <2>3, <2>4
  <2> QED BY <2>2, <2>5
<1>3. QueueLength \in S
  <2> HIDE DEF S
  <2>1. S \subseteq Nat
    BY DEF S
  <2>2. S = Nat
    BY <1>1, <1>2, <2>1, SetInduction
  <2> QED BY <2>2, <1>q
<1>4. PICK g \in [0 .. QueueLength -> Payments] :
        g = [n \in 0 .. QueueLength |-> IF n = 0 THEN snapshot ELSE step(g[n - 1], n)]
  BY <1>3, <1>q
<1>5. f = [n \in 0 .. QueueLength |-> IF n = 0 THEN snapshot ELSE step(f[n - 1], n)]
  BY <1>4, <1>v
<1>6. \A n \in 0 .. QueueLength : f[n] = IF n = 0 THEN snapshot ELSE step(f[n - 1], n)
  BY <1>5
<1>7. {k \in Nat : k <= QueueLength => f[k] \in Payments} = Nat
  <2> DEFINE U == {k \in Nat : k <= QueueLength => f[k] \in Payments}
  <2>1. 0 \in U
    BY <1>6, <1>q
  <2>2. ASSUME NEW k \in U PROVE k + 1 \in U
    BY <1>6, <1>q, <1>t
  <2>3. U \subseteq Nat
    OBVIOUS
  <2> HIDE DEF U
  <2>4. U = Nat
    BY <2>1, <2>2, <2>3, SetInduction
  <2> QED BY <2>4 DEF U
<1>8. f \in [0 .. QueueLength -> Payments]
  <2>1. \A k \in 0 .. QueueLength : f[k] \in Payments
    BY <1>7, <1>q
  <2> QED BY <1>5, <2>1
<1>9. f[0] = snapshot
  BY <1>6, <1>q
<1>10. \A p \in Positions :
         f[p + 1] = Pay(f[p], Oldest(conf, f[p], TargetOf(qh, p)), TargetOf(qh, p))
  <2> SUFFICES ASSUME NEW p \in Positions
               PROVE  f[p + 1] = Pay(f[p], Oldest(conf, f[p], TargetOf(qh, p)), TargetOf(qh, p))
    OBVIOUS
  <2>1. p + 1 \in 0 .. QueueLength /\ p + 1 # 0 /\ (p + 1) - 1 = p
    BY <1>q DEF Positions
  <2>2. f[p + 1] = step(f[(p + 1) - 1], p + 1)
    BY <1>6, <2>1
  <2>3. f[p + 1] = step(f[p], p + 1)
    BY <2>1, <2>2
  <2> QED BY <2>1, <2>3 DEF step
<1> QED BY <1>8, <1>9, <1>10, <1>s DEF Simulates

-----------------------------------------------------------------------------
\* What a queue names.

\* Payments and confirmations are not above the block the queue is cast on.
Past(qh, conf, snapshot) ==
  \A m \in Masternodes : conf[m] <= qh /\ snapshot[m] <= qh

\* The simulated record never runs ahead of the position it is for.
LEMMA SimulatedPast ==
  ASSUME NEW qh \in Nat, NEW conf \in Confirmations, NEW snapshot \in Payments, NEW sim,
         Simulates(sim, qh, conf, snapshot), Past(qh, conf, snapshot),
         NEW p \in 0 .. QueueLength, NEW m \in Masternodes
  PROVE  sim[p][m] <= qh + p
<1> DEFINE U == {k \in Nat : k <= QueueLength => sim[k][m] <= qh + k}
<1>q. QueueLength \in Nat \ {0}
  BY Bounds
<1>1. 0 \in U
  BY DEF Simulates, Past, Payments
<1>2. ASSUME NEW k \in U PROVE k + 1 \in U
  <2> SUFFICES ASSUME k + 1 <= QueueLength PROVE sim[k + 1][m] <= qh + (k + 1)
    OBVIOUS
  <2>1. k \in Positions /\ k \in 0 .. QueueLength
    BY <1>q DEF Positions
  <2>2. sim[k] \in Payments /\ sim[k][m] <= qh + k
    BY <2>1 DEF Simulates
  <2>3. sim[k + 1] = Pay(sim[k], Oldest(conf, sim[k], TargetOf(qh, k)), TargetOf(qh, k))
    BY <2>1 DEF Simulates
  <2>4. sim[k + 1][m] \in {TargetOf(qh, k), sim[k][m]}
    BY <2>3 DEF Pay
  <2>5. sim[k][m] \in Nat
    BY <2>2 DEF Payments
  <2> QED BY <2>2, <2>4, <2>5 DEF TargetOf
<1>3. U = Nat
  <2>1. U \subseteq Nat
    OBVIOUS
  <2> HIDE DEF U
  <2> QED BY <1>1, <1>2, <2>1, SetInduction
<1> QED BY <1>3, <1>q

\* From the position that names it on, a masternode's simulated payment is not
\* older than that position.
LEMMA SimulatedPaid ==
  ASSUME NEW qh \in Nat, NEW conf \in Confirmations, NEW snapshot \in Payments, NEW sim,
         Simulates(sim, qh, conf, snapshot),
         NEW i \in Positions, NEW j \in 0 .. QueueLength, i < j, NEW m \in Masternodes,
         m = Oldest(conf, sim[i], TargetOf(qh, i))
  PROVE  sim[j][m] >= TargetOf(qh, i)
<1> DEFINE U == {k \in Nat : i < k /\ k <= QueueLength => sim[k][m] >= TargetOf(qh, i)}
<1>q. QueueLength \in Nat \ {0} /\ i \in Nat
  BY Bounds DEF Positions
<1>1. 0 \in U
  BY <1>q
<1>2. ASSUME NEW k \in U PROVE k + 1 \in U
  <2> SUFFICES ASSUME i < k + 1, k + 1 <= QueueLength PROVE sim[k + 1][m] >= TargetOf(qh, i)
    OBVIOUS
  <2>1. k \in Positions /\ k \in 0 .. QueueLength
    BY <1>q DEF Positions
  <2>2. sim[k + 1] = Pay(sim[k], Oldest(conf, sim[k], TargetOf(qh, k)), TargetOf(qh, k))
    BY <2>1 DEF Simulates
  <2>3. CASE k = i
    <3>1. sim[k + 1][m] = TargetOf(qh, k)
      BY <2>2, <2>3 DEF Pay
    <3>2. TargetOf(qh, k) \in Nat
      BY DEF TargetOf
    <3> QED BY <2>3, <3>1, <3>2
  <2>4. CASE i < k
    <3>1. sim[k][m] >= TargetOf(qh, i)
      BY <2>4, <2>1, <1>q
    <3>2. sim[k + 1][m] \in {TargetOf(qh, k), sim[k][m]}
      BY <2>2 DEF Pay
    <3>3. TargetOf(qh, k) >= TargetOf(qh, i)
      BY <2>4, <1>q DEF TargetOf
    <3> QED BY <3>1, <3>2, <3>3
  <2> QED BY <2>3, <2>4, <1>q
<1>3. U = Nat
  <2>1. U \subseteq Nat
    OBVIOUS
  <2> HIDE DEF U
  <2> QED BY <1>1, <1>2, <2>1, SetInduction
<1> QED BY <1>3, <1>q

\* A masternode that no position from i on names keeps its simulated payment.
LEMMA SimulatedUnpaid ==
  ASSUME NEW qh \in Nat, NEW conf \in Confirmations, NEW snapshot \in Payments, NEW sim,
         Simulates(sim, qh, conf, snapshot),
         NEW i \in Positions, NEW j \in 0 .. QueueLength, i <= j, NEW m \in Masternodes,
         \A k \in i .. j - 1 : Oldest(conf, sim[k], TargetOf(qh, k)) # m
  PROVE  sim[j][m] = sim[i][m]
<1> DEFINE U == {k \in Nat : i <= k /\ k <= j => sim[k][m] = sim[i][m]}
<1>q. QueueLength \in Nat \ {0} /\ i \in Nat
  BY Bounds DEF Positions
<1>1. 0 \in U
  BY <1>q
<1>2. ASSUME NEW k \in U PROVE k + 1 \in U
  <2> SUFFICES ASSUME i <= k + 1, k + 1 <= j PROVE sim[k + 1][m] = sim[i][m]
    OBVIOUS
  <2>1. CASE k + 1 = i
    BY <2>1
  <2>2. CASE i <= k
    <3>1. k \in Positions /\ k \in i .. j - 1
      BY <2>2, <1>q DEF Positions
    <3>2. sim[k + 1] = Pay(sim[k], Oldest(conf, sim[k], TargetOf(qh, k)), TargetOf(qh, k))
      BY <3>1 DEF Simulates
    <3>3. sim[k + 1][m] = sim[k][m]
      BY <3>1, <3>2 DEF Pay
    <3> QED BY <2>2, <3>3
  <2> QED BY <2>1, <2>2, <1>q
<1>3. U = Nat
  <2>1. U \subseteq Nat
    OBVIOUS
  <2> HIDE DEF U
  <2> QED BY <1>1, <1>2, <2>1, SetInduction
<1> QED BY <1>3, <1>q

\* A queue is a function of its positions, each a masternode eligible for the
\* height of the position, or nobody.
LEMMA QueueType ==
  ASSUME NEW qh \in Nat, NEW conf \in Confirmations, NEW snapshot \in Payments
  PROVE  /\ SimulateQueue(qh, conf, snapshot) \in [Positions -> Masternodes \cup {Nobody}]
         /\ SimulateQueue(qh, conf, snapshot)[0] = Oldest(conf, snapshot, TargetOf(qh, 0))
<1>1. PICK sim : /\ Simulates(sim, qh, conf, snapshot)
                 /\ SimulateQueue(qh, conf, snapshot) =
                      [p \in Positions |-> Oldest(conf, sim[p], TargetOf(qh, p))]
  BY SimulationExists
<1>2. \A p \in Positions : sim[p] \in Payments
  BY <1>1, Bounds DEF Simulates, Positions
<1>3. \A p \in Positions : Oldest(conf, sim[p], TargetOf(qh, p)) \in Masternodes \cup {Nobody}
  BY <1>2, OldestType DEF EligibleFor
<1>4. 0 \in Positions
  BY Bounds DEF Positions
<1> QED BY <1>1, <1>3, <1>4 DEF Simulates

\* No streak: a masternode that a queue names twice is not ahead of one that is
\* eligible and was not named in between.
LEMMA QueueHasNoStreak ==
  ASSUME NEW qh \in Nat, NEW conf \in Confirmations, NEW snapshot \in Payments,
         Past(qh, conf, snapshot), NEW q, q = SimulateQueue(qh, conf, snapshot),
         NEW i \in Positions, NEW j \in Positions, i < j, q[i] = q[j], q[i] # Nobody,
         NEW m \in EligibleFor(conf, TargetOf(qh, j)) \ {q[i]}
  PROVE  \E k \in i + 1 .. j - 1 : q[k] = m
<1>1. PICK sim : /\ Simulates(sim, qh, conf, snapshot)
                 /\ q = [p \in Positions |-> Oldest(conf, sim[p], TargetOf(qh, p))]
  BY SimulationExists
<1>q. QueueLength \in Nat \ {0} /\ i \in 0 .. QueueLength /\ j \in 0 .. QueueLength /\ i \in Nat /\ j \in Nat
  BY Bounds DEF Positions
<1>2. sim[i] \in Payments /\ sim[j] \in Payments
  BY <1>1, <1>q DEF Simulates
<1> SUFFICES ASSUME \A k \in i + 1 .. j - 1 : q[k] # m PROVE FALSE
  OBVIOUS
<1>3. \A k \in i .. j - 1 : Oldest(conf, sim[k], TargetOf(qh, k)) # m
  <2> SUFFICES ASSUME NEW k \in i .. j - 1 PROVE Oldest(conf, sim[k], TargetOf(qh, k)) # m
    OBVIOUS
  <2>1. k \in Positions
    BY <1>q DEF Positions
  <2>2. q[k] # m
    BY <1>q
  <2> QED BY <1>1, <2>1, <2>2
<1>4. m \in Masternodes /\ conf[m] >= 0 /\ conf[m] \in Int /\ Rank(conf, sim[j], m) \in Nat
  BY <1>2, RankOfCandidate
<1>5. sim[j][m] = sim[i][m]
  BY <1>1, <1>3, <1>4, <1>q, SimulatedUnpaid
<1>6. sim[i][m] <= qh + i
  BY <1>1, <1>4, <1>q, SimulatedPast
<1>7. Rank(conf, sim[j], m) <= qh + i
  BY <1>4, <1>5, <1>6, <1>q DEF Rank, Past
<1>8. q[j] = Oldest(conf, sim[j], TargetOf(qh, j)) /\ q[i] = Oldest(conf, sim[i], TargetOf(qh, i))
  BY <1>1
<1>9. q[j] \in EligibleFor(conf, TargetOf(qh, j)) /\ Ahead(conf, sim[j], q[j], m)
  BY <1>2, <1>8, OldestIsFirst
<1>10. q[i] \in Masternodes
  BY <1>9 DEF EligibleFor
<1>11. sim[j][q[i]] >= TargetOf(qh, i)
  BY <1>1, <1>8, <1>10, <1>q, SimulatedPaid
<1>12. sim[j][q[i]] \in Nat
  BY <1>2, <1>10 DEF Payments
<1>13. TargetOf(qh, i) = qh + 1 + i
  BY DEF TargetOf
<1>14. Rank(conf, sim[j], q[j]) = sim[j][q[i]]
  BY <1>11, <1>12, <1>13, <1>q DEF Rank
<1>15. Rank(conf, sim[j], q[j]) > Rank(conf, sim[j], m)
  BY <1>4, <1>7, <1>11, <1>12, <1>13, <1>14, <1>q
<1> QED BY <1>4, <1>9, <1>12, <1>14, <1>15 DEF Ahead

-----------------------------------------------------------------------------
\* The next queue.

\* The confirmed heights after a block at height h confirms the collaterals of new.
Confirm(conf, new, h) == [n \in Masternodes |-> IF n \in new THEN h ELSE conf[n]]

\* A collateral confirmed by the next block is eligible for no height that a
\* queue already cast names.
LEMMA NewcomersWait ==
  ASSUME NEW qh \in Nat, NEW conf \in Confirmations, NEW new \in SUBSET Masternodes,
         \A n \in new : conf[n] = -1, NEW target \in Int, target <= qh + QueueLength
  PROVE  /\ EligibleFor(Confirm(conf, new, qh + 1), target) = EligibleFor(conf, target)
         /\ \A m \in EligibleFor(conf, target) : Confirm(conf, new, qh + 1)[m] = conf[m]
<1> DEFINE conf2 == Confirm(conf, new, qh + 1)
<1>1. \A m \in Masternodes : conf2[m] = IF m \in new THEN qh + 1 ELSE conf[m]
  BY DEF Confirm
<1>2. QueueLength \in Nat /\ ReferenceLag \in Nat /\ EligibilityDepth \in Nat
  BY Bounds
<1>3. ReferenceLag + EligibilityDepth >= QueueLength
  BY RotationConstants
<1>4. ~(qh + 1 + EligibilityDepth <= target - ReferenceLag)
  BY <1>2, <1>3
<1> HIDE DEF conf2
<1>5. \A m \in new : m \notin EligibleFor(conf2, target) /\ m \notin EligibleFor(conf, target)
  <2> SUFFICES ASSUME NEW m \in new
               PROVE  m \notin EligibleFor(conf2, target) /\ m \notin EligibleFor(conf, target)
    OBVIOUS
  <2>1. conf2[m] = qh + 1 /\ conf[m] = -1
    BY <1>1
  <2>2. m \notin EligibleFor(conf2, target)
    BY <2>1, <1>4 DEF EligibleFor
  <2>3. m \notin EligibleFor(conf, target)
    BY <2>1 DEF EligibleFor
  <2> QED BY <2>2, <2>3
<1>6. \A m \in Masternodes \ new : m \in EligibleFor(conf2, target) <=> m \in EligibleFor(conf, target)
  BY <1>1 DEF EligibleFor
<1>7. EligibleFor(conf2, target) \subseteq Masternodes /\ EligibleFor(conf, target) \subseteq Masternodes
  BY DEF EligibleFor
<1>8. EligibleFor(conf2, target) = EligibleFor(conf, target)
  BY <1>5, <1>6, <1>7
<1>9. \A m \in EligibleFor(conf, target) : conf2[m] = conf[m]
  BY <1>1, <1>5, <1>7
<1> QED BY <1>8, <1>9 DEF conf2

\* When a block pays the head of the queue, the queue cast on it is the old
\* one moved up by one, whoever the block confirms.
LEMMA QueueShifts ==
  ASSUME NEW qh \in Nat, NEW conf \in Confirmations, NEW snapshot \in Payments,
         NEW new \in SUBSET Masternodes, \A n \in new : conf[n] = -1,
         NEW q, q = SimulateQueue(qh, conf, snapshot), NEW q2,
         q2 = SimulateQueue(qh + 1, Confirm(conf, new, qh + 1), Pay(snapshot, q[0], qh + 1)),
         NEW p \in Positions \ {0}
  PROVE  q2[p - 1] = q[p]
<1> DEFINE conf2 == Confirm(conf, new, qh + 1)
           next == Pay(snapshot, q[0], qh + 1)
<1>q. QueueLength \in Nat \ {0}
  BY Bounds
<1>1. conf2 \in Confirmations
  BY DEF Confirm, Confirmations
<1>2. next \in Payments
  BY PayType
<1>3. PICK sim : /\ Simulates(sim, qh, conf, snapshot)
                 /\ q = [n \in Positions |-> Oldest(conf, sim[n], TargetOf(qh, n))]
  BY SimulationExists
<1>4. qh + 1 \in Nat
  OBVIOUS
<1>c. \A target \in Int : target <= qh + QueueLength =>
         /\ EligibleFor(conf2, target) = EligibleFor(conf, target)
         /\ \A m \in EligibleFor(conf, target) : conf2[m] = conf[m]
  BY NewcomersWait
<1> HIDE DEF conf2
<1>5. PICK sim2 : /\ Simulates(sim2, qh + 1, conf2, next)
                  /\ q2 = [n \in Positions |-> Oldest(conf2, sim2[n], TargetOf(qh + 1, n))]
  <2> HIDE DEF next
  <2>1. q2 = SimulateQueue(qh + 1, conf2, next)
    BY DEF conf2, next
  <2> QED BY <1>1, <1>2, <1>4, <2>1, SimulationExists
<1>6. \A k \in Nat : TargetOf(qh + 1, k) = TargetOf(qh, k + 1)
  BY DEF TargetOf
<1>7. ASSUME NEW k \in Nat, k + 1 \in Positions, sim2[k] = sim[k + 1]
      PROVE  Oldest(conf2, sim2[k], TargetOf(qh + 1, k)) = Oldest(conf, sim[k + 1], TargetOf(qh, k + 1))
  <2>1. sim[k + 1] \in Payments
    BY <1>3, <1>7, <1>q DEF Simulates, Positions
  <2> DEFINE t == TargetOf(qh, k + 1)
  <2>2. t \in Int /\ t <= qh + QueueLength
    BY <1>7, <1>q DEF TargetOf, Positions
  <2>3. /\ EligibleFor(conf2, t) = EligibleFor(conf, t)
        /\ \A m \in EligibleFor(conf, t) : conf2[m] = conf[m]
    BY <1>c, <2>2
  <2>4. TargetOf(qh + 1, k) = t
    BY <1>6
  <2> HIDE DEF t
  <2>5. Oldest(conf2, sim[k + 1], t) = Oldest(conf, sim[k + 1], t)
    BY <1>1, <2>1, <2>2, <2>3, OldestAgrees
  <2> QED BY <1>7, <2>4, <2>5 DEF t
<1> DEFINE U == {k \in Nat : k + 1 <= QueueLength => sim2[k] = sim[k + 1]}
<1>8. 0 \in U
  <2>1. 0 \in Positions
    BY <1>q DEF Positions
  <2>2. sim[0 + 1] = Pay(sim[0], Oldest(conf, sim[0], TargetOf(qh, 0)), TargetOf(qh, 0))
    BY <1>3, <2>1 DEF Simulates
  <2>3. sim[0] = snapshot /\ q[0] = Oldest(conf, sim[0], TargetOf(qh, 0)) /\ sim2[0] = next
    BY <1>3, <1>5, <2>1 DEF Simulates
  <2>4. TargetOf(qh, 0) = qh + 1
    BY DEF TargetOf
  <2>5. sim2[0] = sim[0 + 1]
    BY <2>2, <2>3, <2>4
  <2> QED BY <2>5
<1>9. ASSUME NEW k \in U PROVE k + 1 \in U
  <2> SUFFICES ASSUME (k + 1) + 1 <= QueueLength PROVE sim2[k + 1] = sim[(k + 1) + 1]
    OBVIOUS
  <2>1. k \in Positions /\ k + 1 \in Positions
    BY <1>q DEF Positions
  <2>2. sim2[k] = sim[k + 1]
    BY <1>q
  <2>3. sim[(k + 1) + 1] = Pay(sim[k + 1], Oldest(conf, sim[k + 1], TargetOf(qh, k + 1)), TargetOf(qh, k + 1))
    BY <1>3, <2>1 DEF Simulates
  <2>4. sim2[k + 1] = Pay(sim2[k], Oldest(conf2, sim2[k], TargetOf(qh + 1, k)), TargetOf(qh + 1, k))
    BY <1>5, <2>1 DEF Simulates
  <2>5. k \in Nat
    OBVIOUS
  <2> QED BY <1>6, <1>7, <2>1, <2>2, <2>3, <2>4, <2>5
<1>10. U = Nat
  <2>1. U \subseteq Nat
    OBVIOUS
  <2> HIDE DEF U
  <2> QED BY <1>8, <1>9, <2>1, SetInduction
<1>11. p - 1 \in Nat /\ (p - 1) + 1 = p /\ p - 1 \in Positions /\ p <= QueueLength
  BY <1>q DEF Positions
<1>12. sim2[p - 1] = sim[(p - 1) + 1]
  <2>1. p - 1 \in U
    BY <1>10, <1>11
  <2> QED BY <1>11, <2>1
<1>13. Oldest(conf2, sim2[p - 1], TargetOf(qh + 1, p - 1)) = Oldest(conf, sim[(p - 1) + 1], TargetOf(qh, (p - 1) + 1))
  <2>1. (p - 1) + 1 \in Positions
    BY <1>11
  <2> QED BY <1>7, <1>11, <1>12, <2>1
<1> QED BY <1>3, <1>5, <1>11, <1>13

-----------------------------------------------------------------------------
\* The inductive invariant.

\* The masternodes that SimulateQueue would choose after m.
Behind(conf, snapshot, m) == {n \in Masternodes : Ahead(conf, snapshot, m, n)}

\* The queue on record is the one the tip calls for.
QueueOfTip == queue = SimulateQueue(height, confirmed, paid)

\* A masternode was passed over by no more followed blocks than there are
\* masternodes behind it now: the one that passed it went to the back.
PassedStandBehind ==
  \A m \in Masternodes :
    /\ waited[m] <= Cardinality(Behind(confirmed, paid, m))
    /\ confirmed[m] = -1 => waited[m] = 0

Inv == TypeOK /\ QueueOfTip /\ Past(height, confirmed, paid) /\ PassedStandBehind

\* Masternodes behind another are finitely many, and fewer than all.
LEMMA BehindIsFinite ==
  ASSUME NEW conf \in Confirmations, NEW snapshot \in Payments, NEW m \in Masternodes
  PROVE  /\ IsFiniteSet(Behind(conf, snapshot, m))
         /\ Cardinality(Behind(conf, snapshot, m)) \in Nat
         /\ Cardinality(Behind(conf, snapshot, m)) < NumMasternodes
<1> DEFINE B == Behind(conf, snapshot, m)
<1>1. NumMasternodes \in Nat \ {0}
  BY Bounds
<1>2. IsFiniteSet(Masternodes) /\ Cardinality(Masternodes) = NumMasternodes
  <2>1. IsFiniteSet(1 .. NumMasternodes) /\
        Cardinality(1 .. NumMasternodes) = IF 1 > NumMasternodes THEN 0 ELSE NumMasternodes - 1 + 1
    BY <1>1, FS_Interval
  <2> QED BY <1>1, <2>1 DEF Masternodes
<1>3. B \subseteq Masternodes
  BY DEF Behind
<1>4. m \notin B
  <2>1. Rank(conf, snapshot, m) \in Int
    BY DEF Rank, Confirmations, Payments
  <2>2. m \in Int
    BY <1>1 DEF Masternodes
  <2> QED BY <2>1, <2>2 DEF Behind, Ahead
<1> HIDE DEF B
<1>5. IsFiniteSet(B) /\ Cardinality(B) <= Cardinality(Masternodes)
       /\ (Cardinality(Masternodes) = Cardinality(B) => Masternodes = B)
  BY <1>2, <1>3, FS_Subset
<1>6. Cardinality(B) \in Nat
  BY <1>5, FS_CardinalityType
<1>7. Cardinality(B) # Cardinality(Masternodes)
  BY <1>4, <1>5
<1>8. Cardinality(B) < NumMasternodes
  BY <1>1, <1>2, <1>5, <1>6, <1>7
<1> QED BY <1>5, <1>6, <1>8 DEF B

\* The variables as the arguments of the simulation.
LEMMA StateTypes ==
  ASSUME TypeOK
  PROVE  /\ height \in Nat /\ height <= MaxHeight
         /\ confirmed \in Confirmations /\ paid \in Payments
<1>1. MaxHeight \in Nat
  BY Bounds
<1> QED BY <1>1 DEF TypeOK, HeightOrNone, Confirmations, Payments

\* Any past satisfies the invariant.
LEMMA InitInv == Init => Inv
<1> SUFFICES ASSUME Init PROVE Inv
  OBVIOUS
<1>1. FirstHeight \in Nat /\ MaxHeight \in Nat /\ FirstHeight <= MaxHeight
  BY Bounds
<1>2. /\ height \in HeightOrNone
      /\ confirmed \in [Masternodes -> -1 .. MaxHeight]
      /\ paid \in [Masternodes -> HeightOrNone]
      /\ waited \in [Masternodes -> Nat]
  BY <1>1 DEF Init, HeightOrNone
<1>3. height \in Nat /\ confirmed \in Confirmations /\ paid \in Payments
  BY <1>1, <1>2 DEF HeightOrNone, Confirmations, Payments
<1>4. queue \in [Positions -> Masternodes \cup {Nobody}]
  BY <1>3, QueueType DEF Init
<1>5. Past(height, confirmed, paid)
  BY <1>1 DEF Init, Past
<1>6. PassedStandBehind
  <2> SUFFICES ASSUME NEW m \in Masternodes
               PROVE  waited[m] = 0 /\ waited[m] <= Cardinality(Behind(confirmed, paid, m))
    BY DEF PassedStandBehind
  <2>1. waited[m] = 0
    BY DEF Init
  <2>2. Cardinality(Behind(confirmed, paid, m)) \in Nat
    BY <1>3, BehindIsFinite
  <2> QED BY <2>1, <2>2
<1>7. QueueOfTip
  BY DEF Init, QueueOfTip
<1> QED BY <1>2, <1>4, <1>5, <1>6, <1>7 DEF Inv, TypeOK

\* A payment or a confirmation leaves nobody new ahead of those it is not for.
LEMMA BehindGrows ==
  ASSUME NEW h \in Nat, NEW conf \in Confirmations, NEW snapshot \in Payments,
         Past(h, conf, snapshot), NEW new \in SUBSET Masternodes, NEW m,
         NEW n \in Masternodes, n # m, n \notin new
  PROVE  /\ Behind(conf, snapshot, n)
              \subseteq Behind(Confirm(conf, new, h + 1), Pay(snapshot, m, h + 1), n)
         /\ m \in Masternodes => m \in Behind(Confirm(conf, new, h + 1), Pay(snapshot, m, h + 1), n)
<1> DEFINE conf2 == Confirm(conf, new, h + 1)
           next == Pay(snapshot, m, h + 1)
<1>1. \A x \in Masternodes : /\ conf[x] \in Int /\ snapshot[x] \in Nat
                             /\ conf[x] <= h /\ snapshot[x] <= h
  BY DEF Confirmations, Payments, Past
<1>2. \A x \in Masternodes : /\ conf2[x] = IF x \in new THEN h + 1 ELSE conf[x]
                             /\ next[x] = IF x = m THEN h + 1 ELSE snapshot[x]
  BY DEF Confirm, Pay
<1> HIDE DEF conf2, next
<1>3. \A x \in Masternodes : Rank(conf, snapshot, x) \in Int /\ Rank(conf, snapshot, x) <= h
  BY <1>1 DEF Rank
<1>4. Rank(conf2, next, n) = Rank(conf, snapshot, n)
  BY <1>2 DEF Rank
<1>5. \A x \in Masternodes : Rank(conf2, next, x) = h + 1 \/ Rank(conf2, next, x) = Rank(conf, snapshot, x)
  BY <1>1, <1>2 DEF Rank
<1>6. m \in Masternodes => Rank(conf2, next, m) = h + 1
  BY <1>2 DEF Rank
<1>7. ASSUME NEW x \in Behind(conf, snapshot, n) PROVE x \in Behind(conf2, next, n)
  <2>1. x \in Masternodes /\ Ahead(conf, snapshot, n, x)
    BY <1>7 DEF Behind
  <2>2. Ahead(conf2, next, n, x)
    BY <2>1, <1>3, <1>4, <1>5 DEF Ahead
  <2> QED BY <2>1, <2>2 DEF Behind
<1>8. m \in Masternodes => m \in Behind(conf2, next, n)
  BY <1>3, <1>4, <1>6 DEF Behind, Ahead
<1> QED BY <1>7, <1>8 DEF conf2, next

\* A block preserves the invariant, whoever it pays and confirms.
LEMMA BlockKeeps ==
  ASSUME Inv, NEW m \in Masternodes \cup {Nobody}, NEW new \in SUBSET Confirmable, NewBlock(m, new)
  PROVE  Inv'
<1>1. height \in Nat /\ height <= MaxHeight /\ confirmed \in Confirmations /\ paid \in Payments
  BY StateTypes DEF Inv
<1>2. MaxHeight \in Nat
  BY Bounds
<1>3. height < MaxHeight /\ height' = height + 1
  BY DEF NewBlock
<1>4. confirmed' = Confirm(confirmed, new, height + 1) /\ paid' = Pay(paid, m, height + 1)
  BY DEF NewBlock, Confirm
<1>5. new \in SUBSET Masternodes /\ \A n \in new : confirmed[n] = -1
  BY DEF Confirmable
<1>6. /\ height' \in HeightOrNone
      /\ confirmed' \in [Masternodes -> -1 .. MaxHeight]
      /\ paid' \in [Masternodes -> HeightOrNone]
  <2>1. height + 1 \in 0 .. MaxHeight
    BY <1>1, <1>2, <1>3
  <2>2. height + 1 \in -1 .. MaxHeight
    BY <2>1, <1>2
  <2>3. height' \in HeightOrNone
    BY <2>1, <1>3 DEF HeightOrNone
  <2>4. confirmed' \in [Masternodes -> -1 .. MaxHeight]
    BY <2>2, <1>4 DEF Confirm, Inv, TypeOK
  <2>5. paid' \in [Masternodes -> HeightOrNone]
    BY <2>1, <1>4 DEF Pay, Inv, TypeOK, HeightOrNone
  <2> QED BY <2>3, <2>4, <2>5
<1>7. confirmed' \in Confirmations /\ paid' \in Payments /\ height' \in Nat
  BY <1>1, <1>2, <1>3, <1>6 DEF HeightOrNone, Confirmations, Payments
<1>8. QueueOfTip' /\ queue' \in [Positions -> Masternodes \cup {Nobody}]
  BY <1>7, QueueType DEF NewBlock, QueueOfTip
<1>9. Past(height', confirmed', paid')
  <2> SUFFICES ASSUME NEW n \in Masternodes PROVE confirmed'[n] <= height' /\ paid'[n] <= height'
    BY DEF Past
  <2>1. confirmed[n] \in Int /\ paid[n] \in Nat /\ confirmed[n] <= height /\ paid[n] <= height
    BY <1>1 DEF Inv, Past, Confirmations, Payments
  <2>2. confirmed'[n] \in {height + 1, confirmed[n]} /\ paid'[n] \in {height + 1, paid[n]}
    BY <1>4 DEF Confirm, Pay
  <2> QED BY <1>1, <1>3, <2>1, <2>2
<1>10. waited' \in [Masternodes -> Nat]
  <2>1. \A n \in Masternodes : waited[n] \in Nat
    BY DEF Inv, TypeOK
  <2>2. \A n \in Masternodes : waited'[n] \in {0, waited[n], waited[n] + 1}
    BY DEF NewBlock
  <2>3. waited' = [n \in Masternodes |-> waited'[n]]
    BY DEF NewBlock
  <2>4. \A n \in Masternodes : waited'[n] \in Nat
    BY <2>1, <2>2
  <2> QED BY <2>3, <2>4
<1>11. ASSUME NEW n \in Masternodes
       PROVE  waited'[n] <= Cardinality(Behind(confirmed', paid', n)) /\ (confirmed'[n] = -1 => waited'[n] = 0)
  <2> DEFINE B == Behind(confirmed, paid, n)
             B2 == Behind(confirmed', paid', n)
  <2>1. IsFiniteSet(B) /\ Cardinality(B) \in Nat
    BY <1>1, BehindIsFinite
  <2>2. IsFiniteSet(B2) /\ Cardinality(B2) \in Nat
    BY <1>7, BehindIsFinite
  <2>3. waited[n] \in Nat /\ waited[n] <= Cardinality(B) /\ (confirmed[n] = -1 => waited[n] = 0)
    BY DEF Inv, TypeOK, PassedStandBehind
  <2>4. waited'[n] = IF n = m THEN 0
                     ELSE IF m = queue[0] /\ n \in EligibleFor(confirmed, height + 1) THEN waited[n] + 1
                     ELSE waited[n]
    BY DEF NewBlock
  <2>5. n \in EligibleFor(confirmed, height + 1) => confirmed[n] >= 0
    BY DEF EligibleFor
  <2>6. confirmed[n] \in Int
    BY <1>1 DEF Confirmations
  <2>7. confirmed'[n] = IF n \in new THEN height + 1 ELSE confirmed[n]
    BY <1>4 DEF Confirm
  <2>8. confirmed'[n] = -1 => waited'[n] = 0
    BY <1>1, <2>3, <2>4, <2>5, <2>7
  <2>9. CASE n = m
    BY <2>2, <2>4, <2>8, <2>9
  <2>10. CASE n # m /\ n \in new
    <3>1. confirmed[n] = -1
      BY <1>5, <2>10
    <3>2. waited'[n] = 0
      BY <3>1, <2>3, <2>4, <2>5, <2>10
    <3> QED BY <3>2, <2>2, <2>8
  <2>11. CASE n # m /\ n \notin new
    <3>1. B \subseteq B2 /\ (m \in Masternodes => m \in B2)
      BY <1>1, <1>4, <1>5, <2>11, BehindGrows DEF Inv
    <3>2. Cardinality(B) <= Cardinality(B2)
      BY <2>2, <3>1, FS_Subset
    <3>3. CASE m = queue[0] /\ n \in EligibleFor(confirmed, height + 1)
      <4>1. queue[0] = Oldest(confirmed, paid, height + 1)
        <5>1. TargetOf(height, 0) = height + 1
          BY <1>1 DEF TargetOf
        <5> QED BY <1>1, <5>1, QueueType DEF Inv, QueueOfTip
      <4>2. m \in EligibleFor(confirmed, height + 1) /\ Ahead(confirmed, paid, m, n)
        BY <1>1, <2>11, <3>3, <4>1, OldestIsFirst
      <4>3. /\ m \in Masternodes /\ Rank(confirmed, paid, m) \in Nat
            /\ Rank(confirmed, paid, n) \in Nat
        BY <1>1, <3>3, <4>2, RankOfCandidate
      <4>4. m \in Int /\ n \in Int
        BY <4>3, Bounds DEF Masternodes
      <4>5. ~Ahead(confirmed, paid, n, m)
        BY <4>2, <4>3, <4>4 DEF Ahead
      <4>6. m \notin B
        BY <4>5 DEF Behind
      <4>7. Cardinality(B \cup {m}) = Cardinality(B) + 1
        BY <2>1, <4>6, FS_AddElement
      <4>8. Cardinality(B \cup {m}) <= Cardinality(B2)
        <5>1. B \cup {m} \in SUBSET B2
          BY <3>1, <4>3
        <5> QED BY <2>2, <5>1, FS_Subset
      <4> QED BY <2>1, <2>2, <2>3, <2>4, <2>8, <2>11, <3>3, <4>7, <4>8
    <3>4. CASE ~(m = queue[0] /\ n \in EligibleFor(confirmed, height + 1))
      <4>1. waited'[n] = waited[n]
        BY <2>4, <2>11, <3>4
      <4> HIDE DEF B, B2
      <4> QED BY <2>1, <2>2, <2>3, <2>8, <3>2, <4>1 DEF B2
    <3> QED BY <3>3, <3>4
  <2> QED BY <2>9, <2>10, <2>11
<1>12. PassedStandBehind'
  BY <1>11 DEF PassedStandBehind
<1> QED BY <1>6, <1>8, <1>9, <1>10, <1>12 DEF Inv, TypeOK

\* Every step preserves the invariant.
LEMMA StepInv == Inv /\ [Next]_vars => Inv'
<1> SUFFICES ASSUME Inv, [Next]_vars PROVE Inv'
  OBVIOUS
<1>1. CASE FollowQueue
  <2>1. queue[0] \in Masternodes \cup {Nobody}
    BY Bounds DEF Inv, TypeOK, Positions
  <2>2. PICK new \in SUBSET Confirmable : NewBlock(queue[0], new)
    BY <1>1 DEF FollowQueue
  <2> QED BY <2>1, <2>2, BlockKeeps
<1>2. CASE PayOther
  <2>1. PICK m \in {n \in Masternodes : confirmed[n] >= 0} \cup {Nobody}, new \in SUBSET Confirmable :
          NewBlock(m, new)
    BY <1>2 DEF PayOther
  <2>2. m \in Masternodes \cup {Nobody}
    BY <2>1
  <2> QED BY <2>1, <2>2, BlockKeeps
<1>3. CASE UNCHANGED vars
  BY <1>3 DEF vars, Inv, TypeOK, QueueOfTip, PassedStandBehind
<1> QED BY <1>1, <1>2, <1>3 DEF Next

-----------------------------------------------------------------------------
\* The results.

\* Every behaviour keeps the types: each queue SimulateQueue casts has exactly
\* QueueLength positions, each a masternode or nobody.
THEOREM RotationTypes == Spec => []TypeOK
<1>1. Inv => TypeOK
  BY DEF Inv
<1> QED BY <1>1, InitInv, StepInv, PTL DEF Spec

\* However many masternodes there are and whoever the blocks that leave the
\* queue pay, no eligible masternode is passed over as often as there are
\* masternodes.
THEOREM NoMasternodeStarves == Spec => []NobodyStarves
<1>1. Inv => NobodyStarves
  <2> SUFFICES ASSUME Inv, NEW m \in Masternodes PROVE waited[m] < NumMasternodes
    BY DEF NobodyStarves
  <2>1. waited[m] \in Nat /\ waited[m] <= Cardinality(Behind(confirmed, paid, m))
    BY DEF Inv, TypeOK, PassedStandBehind
  <2>2. confirmed \in Confirmations /\ paid \in Payments
    BY StateTypes DEF Inv
  <2>3. /\ Cardinality(Behind(confirmed, paid, m)) \in Nat
        /\ Cardinality(Behind(confirmed, paid, m)) < NumMasternodes
    BY <2>2, BehindIsFinite
  <2> QED BY <2>1, <2>3, Bounds
<1> QED BY <1>1, InitInv, StepInv, PTL DEF Spec

\* No queue of any length names a masternode twice before it has named every
\* other one that is eligible for the later height.
THEOREM NoStreaks == Spec => []NoRepeatBeforeAll
<1>1. Inv => NoRepeatBeforeAll
  <2> SUFFICES ASSUME Inv, NEW i \in Positions, NEW j \in Positions,
                      i < j, queue[i] = queue[j], queue[i] # Nobody,
                      NEW m \in EligibleFor(confirmed, TargetOf(height, j)) \ {queue[i]}
               PROVE  \E k \in i + 1 .. j - 1 : queue[k] = m
    BY DEF NoRepeatBeforeAll
  <2>1. height \in Nat /\ confirmed \in Confirmations /\ paid \in Payments
    BY StateTypes DEF Inv
  <2> QED BY <2>1, QueueHasNoStreak DEF Inv, QueueOfTip
<1> QED BY <1>1, InitInv, StepInv, PTL DEF Spec

\* Successive queues agree on every height both name as long as the blocks pay
\* the head of the queue, whatever collaterals they confirm.
THEOREM SuccessiveQueuesAgree == Spec => QueuesShift
<1> DEFINE Shift == paid' = Pay(paid, queue[0], height + 1) =>
                      \A p \in Positions \ {0} : queue'[p - 1] = queue[p]
<1>1. Inv /\ [Next]_vars => [Shift]_vars
  <2> SUFFICES ASSUME Inv, Next, paid' = Pay(paid, queue[0], height + 1),
                      NEW p \in Positions \ {0}
               PROVE  queue'[p - 1] = queue[p]
    OBVIOUS
  <2>1. PICK new \in SUBSET Confirmable : \E m : NewBlock(m, new)
    BY DEF Next, FollowQueue, PayOther
  <2>2. height \in Nat /\ confirmed \in Confirmations /\ paid \in Payments
    BY StateTypes DEF Inv
  <2>3. queue' = SimulateQueue(height + 1, Confirm(confirmed, new, height + 1), Pay(paid, queue[0], height + 1))
    BY <2>1 DEF NewBlock, Confirm
  <2>4. new \in SUBSET Masternodes /\ \A n \in new : confirmed[n] = -1
    BY DEF Confirmable
  <2>5. queue = SimulateQueue(height, confirmed, paid)
    BY DEF Inv, QueueOfTip
  <2> QED BY <2>2, <2>3, <2>4, <2>5, QueueShifts
<1> QED BY <1>1, InitInv, StepInv, PTL DEF Spec, QueuesShift
=============================================================================
