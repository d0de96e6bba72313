--------------------------- MODULE LastPaidProofs ---------------------------
(***************************************************************************)
(* Proofs about LastPaid for every set of masternodes, scripts and blocks, *)
(* every scan depth and every chain length.                                *)
(***************************************************************************)
EXTENDS LastPaid, SequenceTheorems, WellFoundedInduction, TLAPS

\* Induction over naturals with sets instead of predicates: a cited theorem with
\* an operator parameter is beyond the installed provers, a set is not.

\* Every nonempty set of naturals has a least element.
LEMMA LeastElement ==
  ASSUME NEW T \in SUBSET Nat, T # {}
  PROVE  \E x \in T : \A y \in T : x <= y
<1> DEFINE R == OpToRel(<, Nat)
<1>1. R = {ss \in Nat \X Nat : ss[1] < ss[2]}
  BY DEF OpToRel
<1>2. IsWellFoundedOn(R, Nat)
  BY NatLessThanWellFounded
<1> HIDE DEF R
<1>3. PICK x \in T : \A y \in T : ~ (<<y, x>> \in R)
  BY <1>2, WFMin
<1>4. \A y \in T : ~(y < x)
  BY <1>1, <1>3
<1> QED BY <1>4

\* Every nonempty set of heights up to a bound has a highest one.
LEMMA GreatestElement ==
  ASSUME NEW N \in Nat, NEW S \in SUBSET (0 .. N), S # {}
  PROVE  \E h \in S : \A k \in S : k <= h
<1> DEFINE T == {N - k : k \in S}
<1>1. T \in SUBSET Nat
  OBVIOUS
<1>2. T # {}
  OBVIOUS
<1>3. PICK x \in T : \A y \in T : x <= y
  <2> HIDE DEF T
  <2> QED BY <1>1, <1>2, LeastElement
<1>4. PICK h \in S : x = N - h
  BY <1>3
<1>5. \A k \in S : N - h <= N - k
  BY <1>3, <1>4
<1> QED BY <1>5

\* A set of naturals with 0 and every successor of a member is all of them.
LEMMA SetInduction ==
  ASSUME NEW S \in SUBSET Nat, 0 \in S, \A n \in S : n + 1 \in S
  PROVE  S = Nat
<1>1. ASSUME Nat \ S # {} PROVE FALSE
  <2>1. PICK x \in Nat \ S : \A y \in Nat \ S : x <= y
    BY <1>1, LeastElement
  <2>2. x # 0 /\ x - 1 \in Nat
    BY <2>1
  <2>3. x - 1 \in S
    BY <2>1, <2>2
  <2> QED BY <2>3
<1> QED BY <1>1

-----------------------------------------------------------------------------
\* h is the height of the last of the first n blocks of c that pays m, or 0.
IsLastPayment(c, n, m, h) ==
  /\ h \in 0 .. n
  /\ h # 0 => c[h].payee = ScriptOf[m]
  /\ \A k \in 1 .. n : k > h => c[k].payee # ScriptOf[m]

-----------------------------------------------------------------------------
\* Chains, owners and highest heights.

\* The bound on heights.
LEMMA MaxHeightType == MaxHeight \in Nat
BY LastPaidConstants

\* Payee scripts belong to at most one masternode.
LEMMA ScriptsApart ==
  /\ ScriptOf \in [Masternodes -> Scripts] /\ NoMasternode \notin Masternodes
  /\ \A m, n \in Masternodes : ScriptOf[m] = ScriptOf[n] => m = n
BY LastPaidConstants

\* A chain is a sequence of blocks up to the bound.
LEMMA ChainIsSeq ==
  ASSUME NEW c
  PROVE  c \in Chains <=> c \in Seq(Blocks) /\ Len(c) <= MaxHeight
<1>1. ASSUME c \in Chains PROVE c \in Seq(Blocks) /\ Len(c) <= MaxHeight
  <2>1. PICK n \in 0 .. MaxHeight : c \in [1 .. n -> Blocks]
    BY <1>1 DEF Chains, HeightOrNone
  <2>2. c \in Seq(Blocks)
    BY <2>1, SeqDef, MaxHeightType
  <2>3. Len(c) \in Nat /\ DOMAIN c = 1 .. Len(c)
    BY <2>2, LenProperties
  <2>4. Len(c) = n
    BY <2>1, <2>3, MaxHeightType
  <2> QED BY <2>2, <2>4, MaxHeightType
<1>2. ASSUME c \in Seq(Blocks), Len(c) <= MaxHeight PROVE c \in Chains
  <2>1. c \in [1 .. Len(c) -> Blocks] /\ Len(c) \in Nat
    BY <1>2, LenProperties
  <2>2. Len(c) \in 0 .. MaxHeight
    BY <2>1, <1>2, MaxHeightType
  <2> QED BY <2>1, <2>2 DEF Chains, HeightOrNone
<1> QED BY <1>1, <1>2

\* The chain without blocks.
LEMMA EmptyChain == <<>> \in Chains /\ Len(<<>>) = 0
<1>1. <<>> \in Seq(Blocks) /\ Len(<<>>) = 0
  BY EmptySeq
<1>2. Len(<<>>) <= MaxHeight
  BY <1>1, MaxHeightType
<1> QED BY <1>1, <1>2, ChainIsSeq

\* A chain as a function of heights.
LEMMA ChainProperties ==
  ASSUME NEW c \in Chains
  PROVE  /\ c \in Seq(Blocks) /\ Len(c) \in Nat /\ Len(c) <= MaxHeight
         /\ DOMAIN c = 1 .. Len(c) /\ \A h \in 1 .. Len(c) : c[h] \in Blocks
<1>1. c \in Seq(Blocks) /\ Len(c) <= MaxHeight
  BY ChainIsSeq
<1>2. Len(c) \in Nat /\ DOMAIN c = 1 .. Len(c) /\ \A h \in 1 .. Len(c) : c[h] \in Blocks
  BY <1>1, LenProperties, ElementOfSeq
<1> QED BY <1>1, <1>2

\* The highest of a set of heights is the one height that bounds the set and
\* is 0 or in it.
LEMMA HighestIs ==
  ASSUME NEW N \in Nat, NEW S \in SUBSET (1 .. N)
  PROVE  /\ Highest(S) \in S \cup {0} /\ Highest(S) \in 0 .. N
         /\ \A k \in S : k <= Highest(S)
         /\ \A h \in S \cup {0} : (\A k \in S : k <= h) => Highest(S) = h
<1> DEFINE T == S \cup {0}
<1>1. T \in SUBSET (0 .. N) /\ T # {} /\ 0 \in T /\ S \subseteq T
  OBVIOUS
<1>2. Highest(S) = CHOOSE x \in T : \A y \in T : x >= y
  BY DEF Highest, Max
<1>3. \A h \in T : (\A k \in S : k <= h) => \A k \in T : k <= h
  OBVIOUS
<1>4. T = S \cup {0}
  OBVIOUS
<1> HIDE DEF T
<1>5. PICK x \in T : \A k \in T : k <= x
  BY <1>1, GreatestElement
<1>6. \A k \in T : x >= k
  BY <1>1, <1>5
<1>7. Highest(S) \in T /\ \A y \in T : Highest(S) >= y
  BY <1>2, <1>6
<1>8. \A h \in T : h \in Nat
  BY <1>1
<1>9. \A h \in T : (\A k \in T : k <= h) => Highest(S) = h
  BY <1>7, <1>8
<1>10. \A k \in T : k <= Highest(S)
  BY <1>7, <1>8
<1> QED BY <1>1, <1>3, <1>4, <1>7, <1>9, <1>10

\* The owner of a script, in a set of masternodes.
LEMMA OwnerIs ==
  ASSUME NEW list \in SUBSET Masternodes, NEW s
  PROVE  /\ OwnerIn(list, s) \in list \cup {NoMasternode}
         /\ \A m \in Masternodes : OwnerIn(list, s) = m <=> m \in list /\ ScriptOf[m] = s
<1>1. CASE \E m \in list : ScriptOf[m] = s
  <2>1. OwnerIn(list, s) = CHOOSE m \in list : ScriptOf[m] = s
    BY <1>1 DEF OwnerIn
  <2>2. OwnerIn(list, s) \in list /\ ScriptOf[OwnerIn(list, s)] = s
    BY <1>1, <2>1
  <2> QED BY <2>2, ScriptsApart
<1>2. CASE ~ \E m \in list : ScriptOf[m] = s
  BY <1>2, ScriptsApart DEF OwnerIn
<1> QED BY <1>1, <1>2

\* The masternode a block pays is the one with the script of its slot.
LEMMA PaidByIs ==
  ASSUME NEW b
  PROVE  /\ PaidBy(b) \in Masternodes \cup {NoMasternode}
         /\ \A m \in Masternodes : PaidBy(b) = m <=> b.payee = ScriptOf[m]
BY OwnerIs DEF PaidBy

\* The first output of a block that belongs to a listed masternode.
LEMMA FirstOwnerIs ==
  ASSUME NEW list \in SUBSET Masternodes, NEW b
  PROVE  /\ FirstOwner(list, b) \in list \cup {NoMasternode}
         /\ \A m \in Masternodes : FirstOwner(list, b) = m => ScriptOf[m] \in Outputs(b)
<1>1. /\ OwnerIn(list, b.producer) \in list \cup {NoMasternode}
      /\ \A m \in Masternodes : OwnerIn(list, b.producer) = m <=> m \in list /\ ScriptOf[m] = b.producer
  BY OwnerIs
<1>2. /\ OwnerIn(list, b.payee) \in list \cup {NoMasternode}
      /\ \A m \in Masternodes : OwnerIn(list, b.payee) = m <=> m \in list /\ ScriptOf[m] = b.payee
  BY OwnerIs
<1> QED BY <1>1, <1>2 DEF FirstOwner, Outputs

\* LastPayment is the height of the last payment.
LEMMA LastPaymentIs ==
  ASSUME NEW c \in Chains, NEW m \in Masternodes
  PROVE  /\ LastPayment(c, m) \in HeightOrNone
         /\ IsLastPayment(c, Len(c), m, LastPayment(c, m))
         /\ \A h : IsLastPayment(c, Len(c), m, h) => LastPayment(c, m) = h
<1> DEFINE S == {h \in DOMAIN c : c[h].payee = ScriptOf[m]}
<1>1. Len(c) \in Nat /\ Len(c) <= MaxHeight /\ DOMAIN c = 1 .. Len(c)
  BY ChainProperties
<1>2. S \in SUBSET (1 .. Len(c))
  BY <1>1
<1>3. /\ \A h \in S : c[h].payee = ScriptOf[m]
      /\ \A h \in 1 .. Len(c) : c[h].payee = ScriptOf[m] => h \in S
  BY <1>1
<1>4. LastPayment(c, m) = Highest(S)
  BY DEF LastPayment
<1> HIDE DEF S
<1>5. /\ Highest(S) \in S \cup {0} /\ Highest(S) \in 0 .. Len(c)
      /\ \A k \in S : k <= Highest(S)
      /\ \A h \in S \cup {0} : (\A k \in S : k <= h) => Highest(S) = h
  BY <1>1, <1>2, HighestIs
<1>6. LastPayment(c, m) \in HeightOrNone
  BY <1>1, <1>4, <1>5, MaxHeightType DEF HeightOrNone
<1>7. IsLastPayment(c, Len(c), m, Highest(S))
  <2>1. \A k \in 1 .. Len(c) : k > Highest(S) => c[k].payee # ScriptOf[m]
    BY <1>1, <1>3, <1>5
  <2> QED BY <1>3, <1>5, <2>1 DEF IsLastPayment
<1>8. ASSUME NEW h, IsLastPayment(c, Len(c), m, h) PROVE Highest(S) = h
  <2>1. h \in 0 .. Len(c) /\ (h # 0 => c[h].payee = ScriptOf[m])
    BY <1>8 DEF IsLastPayment
  <2>2. h \in S \cup {0}
    BY <1>1, <1>3, <2>1
  <2>3. \A k \in S : k <= h
    BY <1>1, <1>2, <1>3, <1>8, <2>1 DEF IsLastPayment
  <2> QED BY <1>5, <2>2, <2>3
<1> QED BY <1>4, <1>6, <1>7, <1>8

-----------------------------------------------------------------------------
\* The walks.

\* RecomputeLastPaidHeight returns a height, and the last payment whenever the
\* walk can find it.
LEMMA RecomputeIs ==
  ASSUME NEW c \in Chains, NEW m \in Masternodes
  PROVE  /\ RecomputeLastPaidHeight(c, m) \in HeightOrNone
         /\ WalkFindsPayment(c, m) => IsLastPayment(c, Len(c), m, RecomputeLastPaidHeight(c, m))
<1> DEFINE S == {h \in DOMAIN c : InScan(c, h) /\ ScriptOf[m] \in Outputs(c[h])}
           last == LastPayment(c, m)
<1>1. Len(c) \in Nat /\ Len(c) <= MaxHeight /\ DOMAIN c = 1 .. Len(c)
  BY ChainProperties
<1>2. S \in SUBSET (1 .. Len(c))
  BY <1>1
<1>3. RecomputeLastPaidHeight(c, m) = Highest(S)
  BY DEF RecomputeLastPaidHeight
<1>4. IsLastPayment(c, Len(c), m, last)
  BY LastPaymentIs
<1>5. Highest(S) \in 0 .. Len(c) /\ \A h \in S \cup {0} : (\A k \in S : k <= h) => Highest(S) = h
  <2> HIDE DEF S
  <2> QED BY <1>1, <1>2, HighestIs
<1>6. Highest(S) \in HeightOrNone
  BY <1>1, <1>5, MaxHeightType DEF HeightOrNone
<1>7. ASSUME WalkFindsPayment(c, m) PROVE Highest(S) = last
  <2>1. last \in 0 .. Len(c) /\ (last # 0 => c[last].payee = ScriptOf[m])
        /\ \A k \in 1 .. Len(c) : k > last => c[k].payee # ScriptOf[m]
    BY <1>4 DEF IsLastPayment
  <2>2. /\ last # 0 => InScan(c, last)
        /\ \A h \in 1 .. Len(c) : h > last => c[h].producer # ScriptOf[m]
    BY <1>1, <1>7 DEF WalkFindsPayment
  <2>3. last \in S \cup {0}
    BY <1>1, <2>1, <2>2 DEF Outputs
  <2>4. \A k \in S : k <= last
    BY <1>1, <2>1, <2>2 DEF Outputs
  <2> HIDE DEF S, last
  <2> QED BY <1>5, <2>3, <2>4
<1> QED BY <1>3, <1>4, <1>6, <1>7

\* The states of the startup walk.
WalkStates(enabled) == [paid : [Masternodes -> HeightOrNone], needed : SUBSET enabled]

\* One block of the startup walk, the k-th from the head of the chain.
WalkStep(c, w, k) ==
  LET h == Len(c) - k + 1
      m == FirstOwner(w.needed, c[h])
  IN IF m = NoMasternode \/ ~InScan(c, h)
     THEN w
     ELSE [paid |-> [w.paid EXCEPT ![m] = h], needed |-> w.needed \ {m}]

\* walk is the state of the startup walk after each number of blocks.
Walks(walk, c, enabled) ==
  /\ walk \in [0 .. Len(c) -> WalkStates(enabled)]
  /\ walk[0] = [paid |-> [m \in Masternodes |-> 0], needed |-> enabled]
  /\ \A k \in 1 .. Len(c) : walk[k] = WalkStep(c, walk[k - 1], k)

\* A block of the walk keeps the state's shape.
LEMMA WalkStepType ==
  ASSUME NEW c \in Chains, NEW enabled \in SUBSET Masternodes, NEW w \in WalkStates(enabled),
         NEW k \in 1 .. Len(c)
  PROVE  WalkStep(c, w, k) \in WalkStates(enabled)
<1> DEFINE h == Len(c) - k + 1
           m == FirstOwner(w.needed, c[h])
<1>1. h \in HeightOrNone
  BY ChainProperties, MaxHeightType DEF HeightOrNone
<1>2. w.needed \in SUBSET enabled /\ w.paid \in [Masternodes -> HeightOrNone]
  BY DEF WalkStates
<1>3. m \in Masternodes \cup {NoMasternode}
  <2>1. w.needed \in SUBSET Masternodes
    BY <1>2
  <2> QED BY <2>1, FirstOwnerIs
<1>4. WalkStep(c, w, k) = IF m = NoMasternode \/ ~InScan(c, h) THEN w
                          ELSE [paid |-> [w.paid EXCEPT ![m] = h], needed |-> w.needed \ {m}]
  BY DEF WalkStep
<1> HIDE DEF h, m
<1>5. CASE m = NoMasternode \/ ~InScan(c, h)
  BY <1>4, <1>5
<1>6. CASE ~(m = NoMasternode \/ ~InScan(c, h))
  <2>1. [w.paid EXCEPT ![m] = h] \in [Masternodes -> HeightOrNone]
    BY <1>1, <1>2
  <2>2. w.needed \ {m} \in SUBSET enabled
    BY <1>2
  <2> QED BY <1>4, <1>6, <2>1, <2>2 DEF WalkStates
<1> QED BY <1>5, <1>6

\* The loop of PopulateLastPaidHeightCache is well defined, and WalkBack is the
\* record it ends with.
LEMMA WalkExists ==
  ASSUME NEW c \in Chains, NEW enabled \in SUBSET Masternodes
  PROVE  \E walk : Walks(walk, c, enabled) /\ WalkBack(c, enabled) = walk[Len(c)].paid
<1> DEFINE init == [paid |-> [m \in Masternodes |-> 0], needed |-> enabled]
           step(w, k) == WalkStep(c, w, k)
           T == WalkStates(enabled)
           S == {k \in Nat : k <= Len(c) =>
                   \E g \in [0 .. k -> T] :
                     g = [n \in 0 .. k |-> IF n = 0 THEN init ELSE step(g[n - 1], n)]}
           f == CHOOSE g : g = [n \in 0 .. Len(c) |-> IF n = 0 THEN init ELSE step(g[n - 1], n)]
<1>q. Len(c) \in Nat
  BY ChainProperties
<1>i. init \in T
  BY MaxHeightType DEF WalkStates, HeightOrNone
<1>t. \A w \in T, k \in 1 .. Len(c) : step(w, k) \in T
  BY WalkStepType
<1>v. f = CHOOSE g : g = [n \in 0 .. Len(c) |-> IF n = 0 THEN init ELSE step(g[n - 1], n)]
  OBVIOUS
<1>s. WalkBack(c, enabled) = f[Len(c)].paid
  BY DEF WalkBack, WalkStep
<1>d. \A w, k : step(w, k) = WalkStep(c, w, k)
  OBVIOUS
<1> HIDE DEF step, f, T, init
<1>1. 0 \in S
  <2> DEFINE g == [n \in 0 .. 0 |-> init]
  <2>1. g \in [0 .. 0 -> T]
    BY <1>i
  <2>2. g = [n \in 0 .. 0 |-> IF n = 0 THEN init ELSE step(g[n - 1], n)]
    OBVIOUS
  <2> QED BY <2>1, <2>2
<1>2. ASSUME NEW k \in S PROVE k + 1 \in S
  <2> SUFFICES ASSUME k + 1 <= Len(c)
               PROVE  \E g \in [0 .. k + 1 -> T] :
                        g = [n \in 0 .. k + 1 |-> IF n = 0 THEN init ELSE step(g[n - 1], n)]
    OBVIOUS
  <2>1. PICK g \in [0 .. k -> T] :
          g = [n \in 0 .. k |-> IF n = 0 THEN init ELSE step(g[n - 1], n)]
    BY <1>q
  <2> DEFINE h == [n \in 0 .. k + 1 |-> IF n = k + 1 THEN step(g[k], k + 1) ELSE g[n]]
  <2>2. h \in [0 .. k + 1 -> T]
    <3>1. k \in Nat /\ k + 1 \in 1 .. Len(c)
      BY <1>q
    <3>2. step(g[k], k + 1) \in T
      BY <1>t, <3>1
    <3> QED BY <3>1, <3>2
  <2>3. ASSUME NEW n \in 0 .. k + 1 PROVE h[n] = IF n = 0 THEN init ELSE step(h[n - 1], n)
    BY <2>1
  <2>4. h = [n \in 0 .. k + 1 |-> h[n]]
    OBVIOUS
  <2> HIDE DEF h
  <2>5. h = [n \in 0 .. k + 1 |-> IF n = 0 THEN init ELSE step(h[n - 1], n)]
    BY <2>3, <2>4
  <2> QED BY <2>2, <2>5
<1>3. Len(c) \in S
  <2>1. S \subseteq Nat
    OBVIOUS
  <2> HIDE DEF S
  <2>2. S = Nat
    BY <1>1, <1>2, <2>1, SetInduction
  <2> QED BY <2>2, <1>q
<1>4. PICK g \in [0 .. Len(c) -> T] :
        g = [n \in 0 .. Len(c) |-> IF n = 0 THEN init ELSE step(g[n - 1], n)]
  BY <1>3, <1>q
<1>5. f = [n \in 0 .. Len(c) |-> IF n = 0 THEN init ELSE step(f[n - 1], n)]
  BY <1>4, <1>v
<1>6. \A n \in 0 .. Len(c) : f[n] = IF n = 0 THEN init ELSE step(f[n - 1], n)
  BY <1>5
<1> DEFINE U == {k \in Nat : k <= Len(c) => f[k] \in T}
<1>7. U = Nat
  <2>1. 0 \in U
    BY <1>6, <1>q, <1>i
  <2>2. ASSUME NEW k \in U PROVE k + 1 \in U
    BY <1>6, <1>q, <1>t
  <2>3. U \subseteq Nat
    OBVIOUS
  <2> HIDE DEF U
  <2> QED BY <2>1, <2>2, <2>3, SetInduction
<1>8. f \in [0 .. Len(c) -> T]
  <2>1. \A k \in 0 .. Len(c) : f[k] \in T
    BY <1>7, <1>q
  <2> QED BY <1>5, <2>1
<1>9. f[0] = init /\ \A k \in 1 .. Len(c) : f[k] = WalkStep(c, f[k - 1], k)
  BY <1>6, <1>q, <1>d
<1> QED BY <1>8, <1>9, <1>s DEF Walks, T, init

\* The startup walk finds the last payment of every masternode it does not
\* overlook: m keeps its need above that block, takes the block, and is left
\* alone below it.
LEMMA WalkBackIs ==
  ASSUME NEW c \in Chains, NEW enabled \in SUBSET Masternodes
  PROVE  /\ WalkBack(c, enabled) \in [Masternodes -> HeightOrNone]
         /\ \A m \in Masternodes \ Overlooked(c, enabled) :
              IsLastPayment(c, Len(c), m, WalkBack(c, enabled)[m])
<1>1. PICK walk : Walks(walk, c, enabled) /\ WalkBack(c, enabled) = walk[Len(c)].paid
  BY WalkExists
<1>2. Len(c) \in Nat /\ Len(c) <= MaxHeight
  BY ChainProperties
<1>3. walk[Len(c)] \in WalkStates(enabled)
  BY <1>1, <1>2 DEF Walks
<1>4. WalkBack(c, enabled) \in [Masternodes -> HeightOrNone]
  BY <1>1, <1>3 DEF WalkStates
<1>5. ASSUME NEW m \in Masternodes \ Overlooked(c, enabled)
      PROVE  IsLastPayment(c, Len(c), m, WalkBack(c, enabled)[m])
  <2> DEFINE last == LastPayment(c, m)
  <2>1. IsLastPayment(c, Len(c), m, last)
    BY LastPaymentIs
  <2>2. /\ m \in enabled \/ last = 0
        /\ m \in enabled => WalkFindsPayment(c, m)
        /\ last # 0 => OwnerIn(enabled \ {m}, c[last].producer) = NoMasternode
    BY <1>5 DEF Overlooked
  <2>3. /\ last \in 0 .. Len(c) /\ (last # 0 => c[last].payee = ScriptOf[m])
        /\ \A k \in 1 .. Len(c) : k > last => c[k].payee # ScriptOf[m]
    BY <2>1 DEF IsLastPayment
  <2>4. m \in enabled =>
          /\ last # 0 => InScan(c, last)
          /\ \A h \in 1 .. Len(c) : h > last => c[h].producer # ScriptOf[m]
    BY <2>2, ChainProperties DEF WalkFindsPayment
  <2> HIDE DEF last
  <2> DEFINE U == {k \in Nat : k <= Len(c) =>
                     /\ walk[k].paid[m] = IF Len(c) - k < last THEN last ELSE 0
                     /\ m \in walk[k].needed <=> m \in enabled /\ Len(c) - k >= last}
  <2>5. 0 \in U
    <3>1. walk[0].paid[m] = 0 /\ walk[0].needed = enabled
      BY <1>1 DEF Walks
    <3>2. Len(c) - 0 >= last
      BY <1>2, <2>3
    <3>3. ~(Len(c) - 0 < last)
      BY <1>2, <2>3
    <3> QED BY <3>1, <3>2, <3>3
  <2>6. ASSUME NEW k \in U PROVE k + 1 \in U
    <3> SUFFICES ASSUME k + 1 <= Len(c)
                 PROVE  /\ walk[k + 1].paid[m] = IF Len(c) - (k + 1) < last THEN last ELSE 0
                        /\ m \in walk[k + 1].needed <=> m \in enabled /\ Len(c) - (k + 1) >= last
      OBVIOUS
    <3> DEFINE w == walk[k]
               h == Len(c) - k
               o == FirstOwner(w.needed, c[h])
    <3>1. h \in 1 .. Len(c) /\ k \in 0 .. Len(c) /\ k + 1 \in 1 .. Len(c) /\ (k + 1) - 1 = k
          /\ Len(c) - (k + 1) + 1 = h /\ Len(c) - (k + 1) = h - 1
      BY <1>2
    <3>i. h \in Int /\ last \in Int
      BY <2>3, <3>1
    <3>2. /\ w.paid[m] = IF h < last THEN last ELSE 0
          /\ m \in w.needed <=> m \in enabled /\ h >= last
      BY <1>2
    <3>3. w \in WalkStates(enabled)
      BY <1>1, <3>1 DEF Walks
    <3>4. w.needed \in SUBSET enabled /\ w.paid \in [Masternodes -> HeightOrNone]
      BY <3>3 DEF WalkStates
    <3>5. walk[k + 1] = IF o = NoMasternode \/ ~InScan(c, h) THEN w
                        ELSE [paid |-> [w.paid EXCEPT ![o] = h], needed |-> w.needed \ {o}]
      <4>1. walk[k + 1] = WalkStep(c, walk[(k + 1) - 1], k + 1)
        BY <1>1, <3>1 DEF Walks
      <4>2. walk[k + 1] = WalkStep(c, w, k + 1)
        BY <3>1, <4>1
      <4> QED BY <3>1, <4>2 DEF WalkStep
    <3>6. w.needed \in SUBSET Masternodes
      BY <3>4
    <3>7. /\ o \in w.needed \cup {NoMasternode}
          /\ o = m => ScriptOf[m] \in Outputs(c[h])
      BY <3>6, FirstOwnerIs
    <3>8. h = last /\ m \in w.needed => o = m
      <4> SUFFICES ASSUME h = last, m \in w.needed PROVE o = m
        OBVIOUS
      <4>1. last # 0 /\ c[h].payee = ScriptOf[m] /\ OwnerIn(enabled \ {m}, c[h].producer) = NoMasternode
        BY <2>2, <2>3, <3>1
      <4>2. \A n \in enabled \ {m} : ScriptOf[n] # c[h].producer
        <5>1. enabled \ {m} \in SUBSET Masternodes
          OBVIOUS
        <5> QED BY <4>1, <5>1, OwnerIs, ScriptsApart
      <4>3. OwnerIn(w.needed, c[h].payee) = m
        BY <3>6, <4>1, OwnerIs
      <4>4. OwnerIn(w.needed, c[h].producer) \in w.needed \cup {NoMasternode}
        BY <3>6, OwnerIs
      <4>5. \A n \in Masternodes : OwnerIn(w.needed, c[h].producer) = n => n \in w.needed /\ ScriptOf[n] = c[h].producer
        BY <3>6, OwnerIs
      <4>6. OwnerIn(w.needed, c[h].producer) \in {m, NoMasternode}
        BY <3>4, <3>6, <4>2, <4>4, <4>5
      <4> QED BY <4>3, <4>6, ScriptsApart DEF FirstOwner
    <3>9. h > last /\ m \in enabled => o # m
      BY <2>3, <2>4, <3>1, <3>7 DEF Outputs
    <3>10. h < last => m \notin w.needed /\ o # m
      <4>1. h < last => ~(h >= last)
        BY <2>3, <3>1
      <4>2. m # NoMasternode
        BY ScriptsApart
      <4> QED BY <3>2, <3>7, <4>1, <4>2
    <3>11. m \notin enabled => o # m
      BY <3>2, <3>7, ScriptsApart
    <3>12. CASE o = m
      <4>1. h = last /\ m \in enabled
        <5> HIDE DEF o, h
        <5> QED BY <3>i, <3>9, <3>10, <3>11, <3>12
      <4>2. InScan(c, h)
        BY <2>4, <3>1, <4>1
      <4>3. walk[k + 1] = [paid |-> [w.paid EXCEPT ![m] = h], needed |-> w.needed \ {m}]
        BY <3>5, <3>12, <4>2, ScriptsApart
      <4>4. walk[k + 1].paid[m] = last /\ m \notin walk[k + 1].needed
        BY <3>4, <4>1, <4>3
      <4>5. h - 1 < last /\ ~(h - 1 >= last)
        BY <3>1, <4>1
      <4> QED BY <3>1, <4>4, <4>5
    <3>13. CASE o # m
      <4>1. walk[k + 1].paid[m] = w.paid[m] /\ (m \in walk[k + 1].needed <=> m \in w.needed)
        BY <3>4, <3>5, <3>13
      <4>2. ~(h = last /\ m \in enabled)
        BY <2>3, <3>1, <3>2, <3>8, <3>13
      <4>3. h # last
        BY <2>2, <3>1, <4>2
      <4>4. /\ h < last <=> h - 1 < last
            /\ h >= last <=> h - 1 >= last
        <5> HIDE DEF h
        <5> QED BY <3>i, <4>3
      <4> HIDE DEF w, h, o
      <4> QED BY <3>1, <3>2, <4>1, <4>4
    <3> QED BY <3>12, <3>13
  <2>7. U = Nat
    <3>1. U \subseteq Nat
      OBVIOUS
    <3> HIDE DEF U
    <3> QED BY <2>5, <2>6, <3>1, SetInduction
  <2>8. walk[Len(c)].paid[m] = IF Len(c) - Len(c) < last THEN last ELSE 0
    BY <1>2, <2>7
  <2>9. walk[Len(c)].paid[m] = last
    BY <1>2, <2>3, <2>8
  <2> QED BY <1>1, <2>1, <2>9
<1> QED BY <1>4, <1>5

-----------------------------------------------------------------------------
\* The inductive invariant.

OnBestChain == {"idle", "disconnect", "forget", "rewalk"}
OnBranch == {"connect", "record", "commit", "settip"}

\* The blocks of the branch that the record knows of.
Recorded == IF chain.pc = "record" THEN Len(chain.branch) - 1 ELSE Len(chain.branch)

\* Block h of chain c pays m.
Pays(c, h, m) == c[h].payee = ScriptOf[m]

\* The positions of SetBestChain and of the "dsee" handler that their code can
\* be in.
Positioned ==
  /\ chain.pc \in {"disconnect", "forget", "rewalk"} => chain.fork < chain.at /\ chain.at <= Len(best)
  /\ chain.pc = "connect" => Len(chain.branch) < MaxHeight
  /\ chain.pc = "record" => Len(chain.branch) > 0
  /\ update.pc # "none" => update.mn \in Masternodes

\* Until its first block is connected a switch leaves every certain record
\* exact for the best chain, and no disconnected block pays it.
ExactOnBest ==
  chain.pc \in OnBestChain =>
    \A m \in Masternodes \ doubtful :
      /\ IsLastPayment(best, Len(best), m, mapLastPaidHeight[m])
      /\ chain.pc # "idle" => \A h \in chain.at + 1 .. Len(best) : ~Pays(best, h, m)
      /\ chain.pc = "rewalk" => ~Pays(best, chain.at, m)

\* From then on it is exact for the connected part of the branch.
ExactOnBranch ==
  chain.pc \in OnBranch =>
    \A m \in Masternodes \ doubtful :
      IsLastPayment(chain.branch, Recorded, m, mapLastPaidHeight[m])

\* While the switch can still be aborted, a certain record that the branch did
\* not touch belongs to a masternode that the abandoned blocks did not pay.
Abortable ==
  chain.pc \in {"connect", "record", "commit"} /\ ~chain.committed =>
    /\ chain.fork <= Recorded /\ chain.fork <= Len(best)
    /\ \A h \in 1 .. chain.fork : chain.branch[h] = best[h]
    /\ \A m \in Masternodes \ doubtful :
         (\A h \in chain.fork + 1 .. Recorded : ~Pays(chain.branch, h, m)) =>
           \A h \in chain.fork + 1 .. Len(best) : ~Pays(best, h, m)

Inv == TypeOK /\ Positioned /\ ExactOnBest /\ ExactOnBranch /\ Abortable

\* The fields of the state.
LEMMA Fields ==
  ASSUME TypeOK
  PROVE  /\ best \in Chains /\ stored \in Chains /\ chain.branch \in Chains
         /\ Len(best) \in Nat /\ Len(best) <= MaxHeight
         /\ Len(chain.branch) \in Nat /\ Len(chain.branch) <= MaxHeight
         /\ chain.fork \in Nat /\ chain.fork <= MaxHeight /\ chain.at \in Nat /\ chain.at <= MaxHeight
         /\ chain.committed \in BOOLEAN /\ chain.moved \in BOOLEAN
         /\ chain.found \in Masternodes \cup {NoMasternode}
         /\ Pointees \subseteq Masternodes \cup {NoMasternode}
         /\ \A m \in Masternodes : mapLastPaidHeight[m] \in Nat
<1>1. /\ best \in Chains /\ stored \in Chains /\ chain.branch \in Chains
      /\ chain.fork \in 0 .. MaxHeight /\ chain.at \in 0 .. MaxHeight
      /\ chain.committed \in BOOLEAN /\ chain.moved \in BOOLEAN
      /\ chain.found \in Masternodes \cup {NoMasternode}
      /\ mapLastPaidHeight \in [Masternodes -> 0 .. MaxHeight]
  BY DEF TypeOK, ChainStates, HeightOrNone
<1>2. /\ Len(best) \in Nat /\ Len(best) <= MaxHeight
      /\ Len(chain.branch) \in Nat /\ Len(chain.branch) <= MaxHeight
  BY <1>1, ChainProperties
<1>3. Pointees \subseteq Masternodes \cup {NoMasternode}
  BY <1>1 DEF Pointees
<1>4. \A m \in Masternodes : mapLastPaidHeight[m] \in Nat
  BY <1>1, MaxHeightType
<1> QED BY <1>1, <1>2, <1>3, <1>4, MaxHeightType

\* A chain with one more block.
LEMMA AppendChain ==
  ASSUME NEW c \in Chains, NEW b \in Blocks, Len(c) < MaxHeight
  PROVE  /\ Append(c, b) \in Chains /\ Len(Append(c, b)) = Len(c) + 1
         /\ \A h \in 1 .. Len(c) : Append(c, b)[h] = c[h]
         /\ Append(c, b)[Len(c) + 1] = b
<1>1. c \in Seq(Blocks) /\ Len(c) \in Nat
  BY ChainProperties
<1>2. /\ Append(c, b) \in Seq(Blocks) /\ Len(Append(c, b)) = Len(c) + 1
      /\ \A h \in 1 .. Len(c) : Append(c, b)[h] = c[h]
      /\ Append(c, b)[Len(c) + 1] = b
  BY <1>1, AppendProperties
<1>3. Len(Append(c, b)) <= MaxHeight
  BY <1>1, <1>2, MaxHeightType
<1> QED BY <1>2, <1>3, ChainIsSeq

\* The lower part of a chain.
LEMMA PrefixChain ==
  ASSUME NEW c \in Chains, NEW n \in 0 .. Len(c)
  PROVE  /\ SubSeq(c, 1, n) \in Chains /\ Len(SubSeq(c, 1, n)) = n
         /\ \A h \in 1 .. n : SubSeq(c, 1, n)[h] = c[h]
<1>1. c \in Seq(Blocks) /\ Len(c) \in Nat /\ Len(c) <= MaxHeight /\ \A h \in 1 .. Len(c) : c[h] \in Blocks
  BY ChainProperties
<1>2. \A i \in 1 .. n : c[i] \in Blocks
  BY <1>1
<1>3. /\ SubSeq(c, 1, n) \in Seq(Blocks)
      /\ Len(SubSeq(c, 1, n)) = IF 1 <= n THEN n - 1 + 1 ELSE 0
      /\ \A i \in 1 .. n - 1 + 1 : SubSeq(c, 1, n)[i] = c[1 + i - 1]
  BY <1>1, <1>2, SubSeqProperties
<1>4. Len(SubSeq(c, 1, n)) = n
  BY <1>1, <1>3
<1>5. \A i \in 1 .. n : SubSeq(c, 1, n)[i] = c[i]
  BY <1>1, <1>3
<1>6. Len(SubSeq(c, 1, n)) <= MaxHeight
  BY <1>1, <1>4, MaxHeightType
<1> QED BY <1>3, <1>4, <1>5, <1>6, ChainIsSeq

\* A chain with the blocks of a list on top.
LEMMA ConcatChain ==
  ASSUME NEW c \in Chains, NEW n \in Nat, n <= MaxHeight - Len(c), NEW rest \in [1 .. n -> Blocks]
  PROVE  /\ c \o rest \in Chains /\ Len(rest) = n /\ Len(c \o rest) = Len(c) + n
         /\ \A h \in 1 .. Len(c) : (c \o rest)[h] = c[h]
         /\ \A h \in Len(c) + 1 .. Len(c) + n : (c \o rest)[h] = rest[h - Len(c)]
<1>1. c \in Seq(Blocks) /\ Len(c) \in Nat
  BY ChainProperties
<1>2. rest \in Seq(Blocks)
  BY SeqDef
<1>3. Len(rest) = n
  BY <1>2, LenProperties
<1>4. /\ c \o rest \in Seq(Blocks) /\ Len(c \o rest) = Len(c) + Len(rest)
      /\ \A i \in 1 .. Len(c) + Len(rest) :
           (c \o rest)[i] = IF i <= Len(c) THEN c[i] ELSE rest[i - Len(c)]
  BY <1>1, <1>2, ConcatProperties
<1>5. Len(c \o rest) <= MaxHeight
  BY <1>1, <1>3, <1>4, MaxHeightType
<1>6. \A h \in 1 .. Len(c) : (c \o rest)[h] = c[h]
  BY <1>1, <1>3, <1>4
<1>7. \A h \in Len(c) + 1 .. Len(c) + n : (c \o rest)[h] = rest[h - Len(c)]
  BY <1>1, <1>3, <1>4
<1> QED BY <1>3, <1>4, <1>5, <1>6, <1>7, ChainIsSeq

\* The last payment stays where it is when blocks without one come or go.
LEMMA LastPaymentStays ==
  ASSUME NEW c, NEW d, NEW i \in Nat, NEW j \in Nat, NEW n \in Nat, n <= i, n <= j,
         NEW m \in Masternodes, NEW h, IsLastPayment(c, i, m, h),
         \A k \in 1 .. n : c[k] = d[k],
         \A k \in n + 1 .. i : ~Pays(c, k, m), \A k \in n + 1 .. j : ~Pays(d, k, m)
  PROVE  IsLastPayment(d, j, m, h)
<1>1. h \in 0 .. i /\ (h # 0 => Pays(c, h, m)) /\ \A k \in 1 .. i : k > h => ~Pays(c, k, m)
  BY DEF IsLastPayment, Pays
<1>2. h \in 0 .. n
  BY <1>1
<1>3. h \in 0 .. j
  BY <1>2
<1>4. h # 0 => Pays(d, h, m)
  BY <1>1, <1>2 DEF Pays
<1>5. \A k \in 1 .. j : k > h => ~Pays(d, k, m)
  <2> SUFFICES ASSUME NEW k \in 1 .. j, k > h PROVE ~Pays(d, k, m)
    OBVIOUS
  <2>1. CASE k <= n
    <3>1. k \in 1 .. i /\ k \in 1 .. n
      BY <2>1
    <3>2. ~Pays(c, k, m)
      BY <1>1, <3>1
    <3> QED BY <3>1, <3>2 DEF Pays
  <2>2. CASE k > n
    BY <2>2
  <2> QED BY <2>1, <2>2
<1> QED BY <1>3, <1>4, <1>5 DEF IsLastPayment, Pays

\* A block that pays m at the head of the connected blocks is its last payment.
LEMMA LastPaymentMoves ==
  ASSUME NEW c, NEW n \in Nat \ {0}, NEW m \in Masternodes, Pays(c, n, m)
  PROVE  IsLastPayment(c, n, m, n)
BY DEF IsLastPayment, Pays

-----------------------------------------------------------------------------
\* The steps of SetBestChain.

\* The start: no chain and no record.
LEMMA InitInv == Init => Inv
<1> SUFFICES ASSUME Init PROVE Inv
  OBVIOUS
<1>1. <<>> \in Chains /\ Len(<<>>) = 0
  BY EmptyChain
<1>2. TypeOK
  BY <1>1, MaxHeightType DEF Init, TypeOK, Idle, ChainStates, HeightOrNone, NoUpdate, Updates
<1>3. chain.pc = "idle" /\ update.pc = "none"
  BY DEF Init, Idle, NoUpdate
<1>4. \A m \in Masternodes : IsLastPayment(best, Len(best), m, mapLastPaidHeight[m])
  BY <1>1 DEF Init, IsLastPayment
<1> QED BY <1>2, <1>3, <1>4 DEF Inv, Positioned, ExactOnBest, ExactOnBranch, OnBranch, Abortable

\* The type of an idle SetBestChain.
LEMMA IdleType == Idle \in ChainStates /\ Idle.pc = "idle"
<1>1. <<>> \in Chains
  BY EmptyChain
<1> QED BY <1>1, MaxHeightType DEF Idle, ChainStates, HeightOrNone

\* The type of a handler that is done.
LEMMA NoUpdateType == NoUpdate \in Updates /\ NoUpdate.pc = "none"
BY EmptyChain DEF NoUpdate, Updates

\* A block on top of the best chain.
LEMMA ExtendKeeps ==
  ASSUME Inv, NEW b \in Blocks, ExtendBestChain(b)
  PROVE  Inv'
<1>1. /\ chain.pc = "idle" /\ Len(best) < MaxHeight /\ stored' = Append(best, b)
      /\ UNCHANGED <<best, vMasternodes, mapLastPaidHeight, update, doubtful>>
  BY DEF ExtendBestChain
<1>2. chain' = [pc |-> "record", branch |-> Append(best, b), fork |-> Len(best), at |-> 0,
                committed |-> TRUE, found |-> FirstOwner(vMasternodes, b), moved |-> FALSE]
  BY DEF ExtendBestChain, Idle
<1>3. best \in Chains /\ Len(best) \in Nat /\ Len(best) <= MaxHeight
  BY Fields DEF Inv
<1>4. /\ Append(best, b) \in Chains /\ Len(Append(best, b)) = Len(best) + 1
      /\ \A h \in 1 .. Len(best) : Append(best, b)[h] = best[h]
  BY <1>1, <1>3, AppendChain
<1>5. FirstOwner(vMasternodes, b) \in Masternodes \cup {NoMasternode}
  BY FirstOwnerIs DEF Inv, TypeOK
<1>6. TypeOK'
  <2>1. Len(best) \in HeightOrNone /\ 0 \in HeightOrNone
    BY <1>3, MaxHeightType DEF HeightOrNone
  <2>2. chain' \in ChainStates
    BY <1>2, <1>4, <1>5, <2>1 DEF ChainStates
  <2> QED BY <1>1, <1>4, <2>2 DEF Inv, TypeOK
<1>7. Positioned'
  BY <1>1, <1>2, <1>3, <1>4 DEF Inv, Positioned
<1>8. ExactOnBest' /\ Abortable'
  BY <1>2 DEF ExactOnBest, OnBestChain, Abortable
<1>9. ExactOnBranch'
  <2> SUFFICES ASSUME NEW m \in Masternodes \ doubtful
               PROVE  IsLastPayment(chain'.branch, Recorded', m, mapLastPaidHeight'[m])
    BY <1>1 DEF ExactOnBranch
  <2>1. Recorded' = Len(best)
    BY <1>2, <1>3, <1>4 DEF Recorded
  <2>2. IsLastPayment(best, Len(best), m, mapLastPaidHeight[m])
    BY <1>1 DEF Inv, ExactOnBest, OnBestChain
  <2>3. \A k \in Len(best) + 1 .. Len(best) : FALSE
    BY <1>3
  <2>4. IsLastPayment(Append(best, b), Len(best), m, mapLastPaidHeight[m])
    <3>1. \A k \in 1 .. Len(best) : best[k] = Append(best, b)[k]
      BY <1>4
    <3>2. Len(best) <= Len(best)
      BY <1>3
    <3> QED BY <1>3, <2>2, <2>3, <3>1, <3>2, LastPaymentStays
  <2> QED BY <1>1, <1>2, <2>1, <2>4
<1> QED BY <1>6, <1>7, <1>8, <1>9 DEF Inv

\* Another branch has more trust.
LEMMA StartKeeps ==
  ASSUME Inv, StartReorganize
  PROVE  Inv'
<1>1. PICK fork \in 0 .. Len(best) - 1 :
        chain' = [Idle EXCEPT !.pc = "disconnect", !.fork = fork, !.at = Len(best)]
  BY DEF StartReorganize
<1>2. chain.pc = "idle" /\ UNCHANGED <<best, stored, vMasternodes, mapLastPaidHeight, update, doubtful>>
  BY DEF StartReorganize
<1>3. best \in Chains /\ Len(best) \in Nat /\ Len(best) <= MaxHeight
  BY Fields DEF Inv
<1>4. fork \in HeightOrNone /\ Len(best) \in HeightOrNone
  BY <1>3, MaxHeightType DEF HeightOrNone
<1>5. chain' \in ChainStates /\ chain'.pc = "disconnect" /\ chain'.fork = fork /\ chain'.at = Len(best)
  <2>1. [Idle EXCEPT !.pc = "disconnect", !.fork = fork, !.at = Len(best)] \in ChainStates
    BY <1>4, IdleType DEF ChainStates
  <2> QED BY <1>1, <2>1 DEF Idle
<1>6. TypeOK'
  BY <1>2, <1>5 DEF Inv, TypeOK
<1>7. Positioned'
  BY <1>2, <1>3, <1>5 DEF Inv, Positioned
<1>8. ExactOnBest'
  <2>1. \A h \in Len(best) + 1 .. Len(best) : FALSE
    BY <1>3
  <2> QED BY <1>2, <1>5, <2>1 DEF Inv, ExactOnBest, OnBestChain
<1>9. ExactOnBranch' /\ Abortable'
  BY <1>5 DEF ExactOnBranch, OnBranch, Abortable
<1> QED BY <1>6, <1>7, <1>8, <1>9 DEF Inv

\* A block of the best chain is disconnected; its payee is looked up.
LEMMA DisconnectKeeps ==
  ASSUME Inv, DisconnectBlock
  PROVE  Inv'
<1>1. chain.pc = "disconnect" /\ UNCHANGED <<best, stored, vMasternodes, mapLastPaidHeight, update, doubtful>>
  BY DEF DisconnectBlock
<1>2. chain' = [chain EXCEPT !.pc = "forget", !.found = FirstOwner(vMasternodes, best[chain.at])]
  BY DEF DisconnectBlock
<1>3. FirstOwner(vMasternodes, best[chain.at]) \in Masternodes \cup {NoMasternode}
  BY FirstOwnerIs DEF Inv, TypeOK
<1>4. chain' \in ChainStates /\ chain'.pc = "forget" /\ chain'.fork = chain.fork /\ chain'.at = chain.at
  BY <1>2, <1>3 DEF Inv, TypeOK, ChainStates
<1>5. TypeOK'
  BY <1>1, <1>4 DEF Inv, TypeOK
<1>6. Positioned'
  BY <1>1, <1>4 DEF Inv, Positioned
<1>7. ExactOnBest'
  BY <1>1, <1>4 DEF Inv, ExactOnBest, OnBestChain
<1>8. ExactOnBranch' /\ Abortable'
  BY <1>4 DEF ExactOnBranch, OnBranch, Abortable
<1> QED BY <1>5, <1>6, <1>7, <1>8 DEF Inv

\* The hook is done with the disconnected block: whoever it paid and whoever the
\* hook touched is doubtful from then on.
LEMMA AfterDisconnectKeeps ==
  ASSUME Inv, chain.pc \in {"forget", "rewalk"}, chain' = AfterDisconnect,
         UNCHANGED <<best, stored, vMasternodes, update>>,
         mapLastPaidHeight' \in [Masternodes -> HeightOrNone], doubtful' \subseteq Masternodes,
         \A m \in Masternodes \ doubtful' :
           /\ m \notin doubtful /\ mapLastPaidHeight'[m] = mapLastPaidHeight[m]
           /\ ~Pays(best, chain.at, m)
  PROVE  Inv'
<1>1. chain.pc \in {"forget", "rewalk"} /\ UNCHANGED <<best, stored, vMasternodes, update>>
  OBVIOUS
<1>3. /\ best \in Chains /\ Len(best) \in Nat /\ Len(best) <= MaxHeight
      /\ chain.fork \in Nat /\ chain.at \in Nat /\ chain.at <= MaxHeight
  BY Fields DEF Inv
<1>4. chain.fork < chain.at /\ chain.at <= Len(best)
  BY <1>1 DEF Inv, Positioned
<1>5. doubtful' \subseteq Masternodes
  OBVIOUS
<1>6. mapLastPaidHeight' \in [Masternodes -> HeightOrNone]
  OBVIOUS
<1>7. \A m \in Masternodes \ doubtful' :
        /\ m \in Masternodes \ doubtful /\ mapLastPaidHeight'[m] = mapLastPaidHeight[m]
        /\ \A h \in chain.at .. Len(best) : ~Pays(best, h, m)
  <2> SUFFICES ASSUME NEW m \in Masternodes \ doubtful'
               PROVE  \A h \in chain.at .. Len(best) : ~Pays(best, h, m)
    OBVIOUS
  <2>1. ~Pays(best, chain.at, m)
    OBVIOUS
  <2>2. \A h \in chain.at + 1 .. Len(best) : ~Pays(best, h, m)
    BY <1>1 DEF Inv, ExactOnBest, OnBestChain
  <2> QED BY <1>3, <2>1, <2>2
<1>8. \A m \in Masternodes \ doubtful' : IsLastPayment(best, Len(best), m, mapLastPaidHeight'[m])
  BY <1>1, <1>7 DEF Inv, ExactOnBest, OnBestChain
<1>9. CASE chain.at = chain.fork + 1
  <2> DEFINE d == SubSeq(best, 1, chain.fork)
  <2>1. chain.fork \in 0 .. Len(best)
    BY <1>3, <1>4
  <2>2. d \in Chains /\ Len(d) = chain.fork /\ \A h \in 1 .. chain.fork : d[h] = best[h]
    BY <1>3, <2>1, PrefixChain
  <2> HIDE DEF d
  <2>3. chain' = [Released(chain) EXCEPT !.pc = "connect", !.at = 0, !.branch = d]
    BY <1>9 DEF AfterDisconnect, d
  <2>4. /\ chain' \in ChainStates /\ chain'.pc = "connect" /\ chain'.branch = d
        /\ chain'.fork = chain.fork
    <3>1. 0 \in HeightOrNone
      BY MaxHeightType DEF HeightOrNone
    <3> QED BY <2>2, <2>3, <3>1 DEF Released, Inv, TypeOK, ChainStates
  <2>5. TypeOK'
    BY <1>1, <1>5, <1>6, <2>4 DEF Inv, TypeOK
  <2>6. Positioned'
    BY <1>1, <1>3, <1>4, <2>2, <2>4, MaxHeightType DEF Inv, Positioned
  <2>7. Recorded' = chain.fork
    BY <2>2, <2>4 DEF Recorded
  <2>8. ExactOnBest'
    BY <2>4 DEF ExactOnBest, OnBestChain
  <2>9. ExactOnBranch'
    <3> SUFFICES ASSUME NEW m \in Masternodes \ doubtful'
                 PROVE  IsLastPayment(d, chain.fork, m, mapLastPaidHeight'[m])
      BY <2>4, <2>7 DEF ExactOnBranch
    <3>1. \A k \in chain.fork + 1 .. Len(best) : ~Pays(best, k, m)
      BY <1>7, <1>9
    <3>2. \A k \in chain.fork + 1 .. chain.fork : FALSE
      BY <1>3
    <3>3. chain.fork <= Len(best) /\ chain.fork <= chain.fork
      BY <1>3, <2>1
    <3>4. IsLastPayment(best, Len(best), m, mapLastPaidHeight'[m])
      BY <1>8
    <3>5. \A k \in 1 .. chain.fork : best[k] = d[k]
      BY <2>2
    <3> QED BY <1>3, <3>1, <3>2, <3>3, <3>4, <3>5, LastPaymentStays
  <2>10. Abortable'
    <3>1. chain'.fork <= Recorded' /\ chain'.fork <= Len(best)
      BY <1>3, <2>1, <2>4, <2>7
    <3>2. \A h \in 1 .. chain'.fork : chain'.branch[h] = best'[h]
      BY <1>1, <2>2, <2>4
    <3>3. \A m \in Masternodes \ doubtful' : \A h \in chain'.fork + 1 .. Len(best') : ~Pays(best', h, m)
      BY <1>1, <1>7, <1>9, <2>4
    <3> QED BY <1>1, <3>1, <3>2, <3>3 DEF Abortable
  <2> QED BY <2>5, <2>6, <2>8, <2>9, <2>10 DEF Inv
<1>10. CASE chain.at # chain.fork + 1
  <2>1. chain' = [Released(chain) EXCEPT !.pc = "disconnect", !.at = @ - 1]
    BY <1>10 DEF AfterDisconnect
  <2>2. chain.at - 1 \in HeightOrNone
    BY <1>3, <1>4, MaxHeightType DEF HeightOrNone
  <2>3. /\ chain' \in ChainStates /\ chain'.pc = "disconnect" /\ chain'.fork = chain.fork
        /\ chain'.at = chain.at - 1
    BY <2>1, <2>2 DEF Released, Inv, TypeOK, ChainStates
  <2>4. TypeOK'
    BY <1>1, <1>5, <1>6, <2>3 DEF Inv, TypeOK
  <2>5. Positioned'
    BY <1>1, <1>3, <1>4, <1>10, <2>3 DEF Inv, Positioned
  <2>6. ExactOnBest'
    <3>1. chain'.at + 1 = chain.at
      BY <1>3, <2>3
    <3> QED BY <1>1, <1>7, <1>8, <2>3, <3>1 DEF ExactOnBest, OnBestChain
  <2>7. ExactOnBranch' /\ Abortable'
    BY <2>3 DEF ExactOnBranch, OnBranch, Abortable
  <2> QED BY <2>4, <2>5, <2>6, <2>7 DEF Inv
<1> QED BY <1>9, <1>10

\* The hook looks whether the disconnected block is the recorded one.
LEMMA ForgetKeeps ==
  ASSUME Inv, OnBlockDisconnected
  PROVE  Inv'
<1>1. /\ chain.pc = "forget" /\ UNCHANGED <<best, stored, vMasternodes, mapLastPaidHeight, update>>
      /\ doubtful' = doubtful \cup ((Pointees \cup {PaidBy(best[chain.at])}) \ {NoMasternode})
  BY DEF OnBlockDisconnected
<1>2. chain' = [chain EXCEPT !.pc = "rewalk"] \/ chain' = AfterDisconnect
  BY DEF OnBlockDisconnected
<1>3. doubtful' \subseteq Masternodes
  <2>1. Pointees \subseteq Masternodes \cup {NoMasternode}
    BY Fields DEF Inv
  <2> QED BY <1>1, <2>1, PaidByIs DEF Inv, TypeOK
<1>4. \A m \in Masternodes \ doubtful' : m \notin doubtful /\ ~Pays(best, chain.at, m)
  <2> SUFFICES ASSUME NEW m \in Masternodes \ doubtful'
               PROVE  m \notin doubtful /\ ~Pays(best, chain.at, m)
    OBVIOUS
  <2>1. m \notin doubtful /\ m # PaidBy(best[chain.at])
    BY <1>1, ScriptsApart
  <2> QED BY <2>1, PaidByIs DEF Pays
<1>5. CASE chain' = AfterDisconnect
  BY <1>1, <1>3, <1>4, <1>5, AfterDisconnectKeeps DEF Inv, TypeOK
<1>6. CASE chain' = [chain EXCEPT !.pc = "rewalk"]
  <2>1. chain' \in ChainStates /\ chain'.pc = "rewalk" /\ chain'.fork = chain.fork /\ chain'.at = chain.at
    BY <1>6 DEF Inv, TypeOK, ChainStates
  <2>2. TypeOK'
    BY <1>1, <1>3, <2>1 DEF Inv, TypeOK
  <2>3. Positioned'
    BY <1>1, <2>1 DEF Inv, Positioned
  <2>4. ExactOnBest'
    BY <1>1, <1>4, <2>1 DEF Inv, ExactOnBest, OnBestChain
  <2>5. ExactOnBranch' /\ Abortable'
    BY <2>1 DEF ExactOnBranch, OnBranch, Abortable
  <2> QED BY <2>2, <2>3, <2>4, <2>5 DEF Inv
<1> QED BY <1>2, <1>5, <1>6

\* Its walk writes to a masternode that is doubtful from then on.
LEMMA RecomputeKeeps ==
  ASSUME Inv, RecomputeDisconnected
  PROVE  Inv'
<1>1. chain.pc = "rewalk" /\ chain' = AfterDisconnect /\ UNCHANGED <<best, stored, vMasternodes, update>>
  BY DEF RecomputeDisconnected
<1>2. PICK p, of \in Pointees \cap Masternodes :
        /\ mapLastPaidHeight' = [mapLastPaidHeight EXCEPT ![p] = RecomputeLastPaidHeight(best, of)]
        /\ doubtful' = doubtful \cup {p}
  BY DEF RecomputeDisconnected
<1>3. mapLastPaidHeight \in [Masternodes -> HeightOrNone] /\ best \in Chains /\ doubtful \subseteq Masternodes
  BY DEF Inv, TypeOK
<1>4. RecomputeLastPaidHeight(best, of) \in HeightOrNone
  BY <1>3, RecomputeIs
<1>5. mapLastPaidHeight' \in [Masternodes -> HeightOrNone] /\ doubtful' \subseteq Masternodes
  BY <1>2, <1>3, <1>4
<1>6. \A m \in Masternodes \ doubtful' :
        /\ m \notin doubtful /\ mapLastPaidHeight'[m] = mapLastPaidHeight[m]
        /\ ~Pays(best, chain.at, m)
  BY <1>1, <1>2, <1>3 DEF Inv, ExactOnBest, OnBestChain
<1> QED BY <1>1, <1>5, <1>6, AfterDisconnectKeeps

\* A block of the branch is connected; its payee is looked up.
LEMMA ConnectKeeps ==
  ASSUME Inv, NEW b \in Blocks, ConnectBlock(b)
  PROVE  Inv'
<1> DEFINE c == chain.branch
           d == Append(c, b)
<1>1. /\ chain.pc = "connect" /\ UNCHANGED <<best, vMasternodes, mapLastPaidHeight, update, doubtful>>
      /\ chain' = [chain EXCEPT !.pc = "record", !.branch = d, !.found = FirstOwner(vMasternodes, b)]
      /\ stored' = IF chain.committed THEN d ELSE stored
  BY DEF ConnectBlock
<1>2. c \in Chains /\ Len(c) \in Nat /\ Len(c) < MaxHeight
  BY <1>1, Fields DEF Inv, Positioned
<1>3. d \in Chains /\ Len(d) = Len(c) + 1 /\ \A h \in 1 .. Len(c) : c[h] = d[h]
  BY <1>2, AppendChain
<1>4. FirstOwner(vMasternodes, b) \in Masternodes \cup {NoMasternode}
  BY FirstOwnerIs DEF Inv, TypeOK
<1> HIDE DEF d
<1>5. /\ chain' \in ChainStates /\ chain'.pc = "record" /\ chain'.branch = d
      /\ chain'.fork = chain.fork /\ chain'.committed = chain.committed
  BY <1>1, <1>3, <1>4 DEF Inv, TypeOK, ChainStates
<1>6. Recorded = Len(c) /\ Recorded' = Len(c)
  BY <1>1, <1>2, <1>3, <1>5 DEF Recorded
<1>7. TypeOK'
  BY <1>1, <1>3, <1>5 DEF Inv, TypeOK
<1>8. Positioned'
  BY <1>1, <1>2, <1>3, <1>5 DEF Inv, Positioned
<1>9. ExactOnBest'
  BY <1>5 DEF ExactOnBest, OnBestChain
<1>10. ExactOnBranch'
  <2> SUFFICES ASSUME NEW m \in Masternodes \ doubtful
               PROVE  IsLastPayment(d, Len(c), m, mapLastPaidHeight[m])
    BY <1>1, <1>5, <1>6 DEF ExactOnBranch
  <2>1. IsLastPayment(c, Len(c), m, mapLastPaidHeight[m])
    BY <1>1, <1>6 DEF Inv, ExactOnBranch, OnBranch
  <2>2. \A k \in Len(c) + 1 .. Len(c) : FALSE
    BY <1>2
  <2>3. Len(c) <= Len(c)
    BY <1>2
  <2> HIDE DEF c
  <2> QED BY <1>2, <1>3, <2>1, <2>2, <2>3, LastPaymentStays
<1>11. Abortable'
  <2> SUFFICES ASSUME ~chain.committed PROVE Abortable'
    BY <1>5 DEF Abortable
  <2>1. /\ chain.fork <= Len(c) /\ chain.fork <= Len(best)
        /\ \A h \in 1 .. chain.fork : c[h] = best[h]
        /\ \A m \in Masternodes \ doubtful :
             (\A h \in chain.fork + 1 .. Len(c) : ~Pays(c, h, m)) =>
               \A h \in chain.fork + 1 .. Len(best) : ~Pays(best, h, m)
    BY <1>1, <1>6 DEF Inv, Abortable
  <2>2. chain.fork \in Nat
    BY Fields DEF Inv
  <2>3. \A h \in 1 .. chain.fork : d[h] = best[h]
    BY <1>2, <1>3, <2>1, <2>2
  <2>4. \A m, h : h \in chain.fork + 1 .. Len(c) => (Pays(c, h, m) <=> Pays(d, h, m))
    BY <1>2, <1>3, <2>2 DEF Pays
  <2> HIDE DEF c
  <2>5. \A m \in Masternodes \ doubtful :
             (\A h \in chain.fork + 1 .. Len(c) : ~Pays(d, h, m)) =>
               \A h \in chain.fork + 1 .. Len(best) : ~Pays(best, h, m)
    BY <2>1, <2>4
  <2> QED BY <1>1, <1>5, <1>6, <2>1, <2>3, <2>5 DEF Abortable
<1> QED BY <1>7, <1>8, <1>9, <1>10, <1>11 DEF Inv

\* The record learns the connected block: its payee is certain when the hook
\* found it, and doubtful otherwise.
LEMMA RecordKeeps ==
  ASSUME Inv, OnBlockConnected
  PROVE  Inv'
<1> DEFINE c == chain.branch
           n == Len(c)
           payee == PaidBy(c[n])
<1>1. chain.pc = "record" /\ UNCHANGED <<best, stored, vMasternodes, update>>
  BY DEF OnBlockConnected
<1>2. PICK p \in Pointees :
        /\ mapLastPaidHeight' = IF p # NoMasternode THEN [mapLastPaidHeight EXCEPT ![p] = n]
                                ELSE mapLastPaidHeight
        /\ doubtful' = IF p = payee THEN doubtful \ {payee}
                       ELSE doubtful \cup ({p, payee} \ {NoMasternode})
  BY DEF OnBlockConnected
<1>3. PICK pc \in AfterBlock : chain' = [Released(chain) EXCEPT !.pc = pc]
  BY DEF OnBlockConnected
<1>4. pc \in {"connect", "commit", "settip"} /\ (pc = "connect" => n < MaxHeight)
  BY DEF AfterBlock
<1>5. /\ chain' \in ChainStates /\ chain'.pc = pc /\ chain'.branch = c
      /\ chain'.fork = chain.fork /\ chain'.committed = chain.committed
  BY <1>3, <1>4 DEF Released, Inv, TypeOK, ChainStates
<1>6. /\ c \in Chains /\ n \in Nat /\ n <= MaxHeight /\ chain.fork \in Nat
      /\ p \in Masternodes \cup {NoMasternode}
  BY Fields DEF Inv
<1>7. n > 0
  BY <1>1 DEF Inv, Positioned
<1>8. Recorded = n - 1 /\ Recorded' = n
  BY <1>1, <1>4, <1>5 DEF Recorded
<1>9. payee \in Masternodes \cup {NoMasternode} /\ \A m \in Masternodes : payee = m <=> Pays(c, n, m)
  BY PaidByIs DEF Pays
<1> HIDE DEF c, n, payee
<1>10. TypeOK'
  <2>1. n \in HeightOrNone
    BY <1>6, MaxHeightType DEF HeightOrNone
  <2>2. mapLastPaidHeight' \in [Masternodes -> HeightOrNone]
    BY <1>2, <1>6, <2>1 DEF Inv, TypeOK
  <2>3. doubtful' \subseteq Masternodes
    BY <1>2, <1>6, <1>9 DEF Inv, TypeOK
  <2> QED BY <1>1, <1>5, <2>2, <2>3 DEF Inv, TypeOK
<1>11. ASSUME NEW m \in Masternodes \ doubtful'
       PROVE  \/ Pays(c, n, m) /\ mapLastPaidHeight'[m] = n
              \/ ~Pays(c, n, m) /\ m \notin doubtful /\ mapLastPaidHeight'[m] = mapLastPaidHeight[m]
  <2>1. mapLastPaidHeight \in [Masternodes -> HeightOrNone] /\ m # NoMasternode
    BY ScriptsApart DEF Inv, TypeOK
  <2>2. CASE m = payee
    <3>1. p = payee
      BY <1>2, <1>11, <2>1, <2>2
    <3>2. mapLastPaidHeight'[m] = n
      BY <1>2, <2>1, <2>2, <3>1
    <3> QED BY <1>9, <2>2, <3>2
  <2>3. CASE m # payee
    <3>1. m \notin doubtful /\ m # p
      BY <1>2, <1>11, <2>1, <2>3
    <3>2. mapLastPaidHeight'[m] = mapLastPaidHeight[m]
      BY <1>2, <2>1, <3>1
    <3> QED BY <1>9, <2>3, <3>1, <3>2
  <2> QED BY <2>2, <2>3
<1>12. Positioned'
  <2>1. chain'.pc \notin {"disconnect", "forget", "rewalk", "record"} /\ (chain'.pc = "connect" => Len(chain'.branch) < MaxHeight)
    BY <1>4, <1>5 DEF n
  <2> QED BY <1>1, <2>1 DEF Inv, Positioned
<1>13. ExactOnBest'
  BY <1>4, <1>5 DEF ExactOnBest, OnBestChain
<1>14. ExactOnBranch'
  <2> SUFFICES ASSUME NEW m \in Masternodes \ doubtful'
               PROVE  IsLastPayment(c, n, m, mapLastPaidHeight'[m])
    BY <1>5, <1>8 DEF ExactOnBranch
  <2>1. CASE Pays(c, n, m) /\ mapLastPaidHeight'[m] = n
    BY <1>6, <1>7, <2>1, LastPaymentMoves
  <2>2. CASE ~Pays(c, n, m) /\ m \notin doubtful /\ mapLastPaidHeight'[m] = mapLastPaidHeight[m]
    <3>1. IsLastPayment(c, n - 1, m, mapLastPaidHeight[m])
      BY <1>1, <1>8, <2>2 DEF Inv, ExactOnBranch, OnBranch, c
    <3>2. n - 1 \in Nat /\ n - 1 <= n /\ n - 1 <= n - 1
      BY <1>6, <1>7
    <3>3. \A k \in (n - 1) + 1 .. n - 1 : FALSE
      BY <1>6
    <3>4. \A k \in (n - 1) + 1 .. n : ~Pays(c, k, m)
      BY <1>6, <2>2
    <3>5. \A k \in 1 .. n - 1 : c[k] = c[k]
      OBVIOUS
    <3>6. IsLastPayment(c, n, m, mapLastPaidHeight[m])
      BY <1>6, <3>1, <3>2, <3>3, <3>4, <3>5, LastPaymentStays
    <3> QED BY <2>2, <3>6
  <2> QED BY <1>11, <2>1, <2>2
<1>15. Abortable'
  <2> SUFFICES ASSUME ~chain.committed PROVE Abortable'
    BY <1>5 DEF Abortable
  <2>1. /\ chain.fork <= n - 1 /\ chain.fork <= Len(best)
        /\ \A h \in 1 .. chain.fork : c[h] = best[h]
        /\ \A m \in Masternodes \ doubtful :
             (\A h \in chain.fork + 1 .. n - 1 : ~Pays(c, h, m)) =>
               \A h \in chain.fork + 1 .. Len(best) : ~Pays(best, h, m)
    BY <1>1, <1>8 DEF Inv, Abortable, c
  <2>2. chain.fork <= n /\ n \in chain.fork + 1 .. n
    BY <1>6, <2>1
  <2>3. \A m \in Masternodes \ doubtful' :
             (\A h \in chain.fork + 1 .. n : ~Pays(c, h, m)) =>
               \A h \in chain.fork + 1 .. Len(best) : ~Pays(best, h, m)
    <3> SUFFICES ASSUME NEW m \in Masternodes \ doubtful', \A h \in chain.fork + 1 .. n : ~Pays(c, h, m)
                 PROVE  \A h \in chain.fork + 1 .. Len(best) : ~Pays(best, h, m)
      OBVIOUS
    <3>1. m \notin doubtful
      BY <1>11, <2>2
    <3>2. \A h \in chain.fork + 1 .. n - 1 : ~Pays(c, h, m)
      BY <1>6
    <3> QED BY <2>1, <3>1, <3>2
  <2> QED BY <1>1, <1>5, <1>8, <2>1, <2>2, <2>3 DEF Abortable
<1> QED BY <1>10, <1>12, <1>13, <1>14, <1>15 DEF Inv

\* The database transaction of the switch is committed.
LEMMA CommitKeeps ==
  ASSUME Inv, CommitReorganize
  PROVE  Inv'
<1>1. /\ chain.pc = "commit" /\ stored' = chain.branch
      /\ UNCHANGED <<best, vMasternodes, mapLastPaidHeight, update, doubtful>>
  BY DEF CommitReorganize
<1>2. PICK pc \in {"connect", "settip"} : /\ pc = "connect" => Len(chain.branch) < MaxHeight
                                          /\ chain' = [chain EXCEPT !.pc = pc, !.committed = TRUE]
  BY DEF CommitReorganize
<1>3. chain' \in ChainStates /\ chain'.pc = pc /\ chain'.branch = chain.branch /\ chain'.committed
  BY <1>2 DEF Inv, TypeOK, ChainStates
<1>4. TypeOK'
  BY <1>1, <1>3 DEF Inv, TypeOK, ChainStates
<1>5. Positioned'
  BY <1>1, <1>2, <1>3 DEF Inv, Positioned
<1>6. ExactOnBest' /\ Abortable'
  BY <1>2, <1>3 DEF ExactOnBest, OnBestChain, Abortable
<1>7. Recorded' = Recorded
  BY <1>1, <1>2, <1>3 DEF Recorded
<1>8. ExactOnBranch'
  BY <1>1, <1>3, <1>7 DEF Inv, ExactOnBranch, OnBranch
<1> QED BY <1>4, <1>5, <1>6, <1>8 DEF Inv

\* The switch is aborted: whoever the branch paid is doubtful, and for all the
\* others the best chain is as the record has it.
LEMMA FailKeeps ==
  ASSUME Inv, ReorganizeFails
  PROVE  Inv'
<1> DEFINE c == chain.branch
<1>1. /\ chain.pc \in {"disconnect", "connect", "commit"} /\ ~chain.committed /\ chain' = Idle
      /\ doubtful' = doubtful \cup PaidOn(c, chain.fork + 1)
      /\ UNCHANGED <<best, stored, vMasternodes, mapLastPaidHeight, update>>
  BY DEF ReorganizeFails
<1>2. /\ best \in Chains /\ Len(best) \in Nat /\ Len(c) \in Nat /\ chain.fork \in Nat
  BY Fields DEF Inv
<1>3. PaidOn(c, chain.fork + 1) \subseteq Masternodes
  BY PaidByIs DEF PaidOn
<1>4. TypeOK'
  BY <1>1, <1>3, IdleType DEF Inv, TypeOK
<1>5. chain'.pc = "idle"
  BY <1>1, IdleType
<1>6. ASSUME NEW m \in Masternodes \ doubtful'
      PROVE  IsLastPayment(best, Len(best), m, mapLastPaidHeight[m])
  <2>1. m \in Masternodes \ doubtful /\ m \notin PaidOn(c, chain.fork + 1)
    BY <1>1, <1>6
  <2>2. CASE chain.pc = "disconnect"
    BY <2>1, <2>2 DEF Inv, ExactOnBest, OnBestChain
  <2>3. CASE chain.pc \in {"connect", "commit"}
    <3>1. Recorded = Len(c)
      BY <2>3 DEF Recorded
    <3>2. IsLastPayment(c, Len(c), m, mapLastPaidHeight[m])
      BY <2>1, <2>3, <3>1 DEF Inv, ExactOnBranch, OnBranch
    <3>3. /\ chain.fork <= Len(c) /\ chain.fork <= Len(best)
          /\ \A h \in 1 .. chain.fork : c[h] = best[h]
          /\ (\A h \in chain.fork + 1 .. Len(c) : ~Pays(c, h, m)) =>
               \A h \in chain.fork + 1 .. Len(best) : ~Pays(best, h, m)
      BY <1>1, <2>1, <2>3, <3>1 DEF Inv, Abortable
    <3>4. \A h \in chain.fork + 1 .. Len(c) : ~Pays(c, h, m)
      <4>1. \A h \in chain.fork + 1 .. Len(c) : PaidBy(c[h]) # m
        BY <2>1, ScriptsApart DEF PaidOn
      <4> QED BY <4>1, PaidByIs DEF Pays
    <3> HIDE DEF c
    <3> QED BY <1>2, <3>2, <3>3, <3>4, LastPaymentStays
  <2> QED BY <1>1, <2>2, <2>3
<1>7. ExactOnBest'
  BY <1>1, <1>5, <1>6 DEF ExactOnBest
<1> QED BY <1>1, <1>4, <1>5, <1>7 DEF Inv, Positioned, ExactOnBranch, OnBranch, Abortable

\* A further block cannot be connected: pindexBest is to move all the same.
LEMMA SecondaryKeeps ==
  ASSUME Inv, SecondaryFails
  PROVE  Inv'
<1> DEFINE c == chain.branch
<1>1. /\ chain.pc = "connect" /\ chain.committed
      /\ UNCHANGED <<best, stored, vMasternodes, mapLastPaidHeight, update>>
  BY DEF SecondaryFails
<1>n. PICK n \in 1 .. MaxHeight - Len(c) : \E rest \in [1 .. n -> Blocks] :
        /\ chain' = [chain EXCEPT !.pc = "settip", !.branch = c \o rest]
        /\ doubtful' = doubtful \cup PaidOn(rest, 1)
  BY DEF SecondaryFails
<1>2. PICK rest \in [1 .. n -> Blocks] :
        /\ chain' = [chain EXCEPT !.pc = "settip", !.branch = c \o rest]
        /\ doubtful' = doubtful \cup PaidOn(rest, 1)
  BY <1>n
<1>3. c \in Chains /\ Len(c) \in Nat /\ n \in Nat /\ n <= MaxHeight - Len(c)
  BY Fields, MaxHeightType DEF Inv
<1> DEFINE d == c \o rest
<1>4. /\ d \in Chains /\ Len(rest) = n /\ Len(d) = Len(c) + n
      /\ \A h \in 1 .. Len(c) : c[h] = d[h]
      /\ \A h \in Len(c) + 1 .. Len(c) + n : d[h] = rest[h - Len(c)]
  BY <1>3, ConcatChain
<1> HIDE DEF d
<1>5. chain' \in ChainStates /\ chain'.pc = "settip" /\ chain'.branch = d
  BY <1>2, <1>4 DEF Inv, TypeOK, ChainStates, d
<1>6. PaidOn(rest, 1) \subseteq Masternodes
  BY PaidByIs DEF PaidOn
<1>7. TypeOK'
  BY <1>1, <1>2, <1>5, <1>6 DEF Inv, TypeOK
<1>8. Positioned' /\ ExactOnBest' /\ Abortable'
  BY <1>1, <1>5 DEF Inv, Positioned, ExactOnBest, OnBestChain, Abortable
<1>9. ExactOnBranch'
  <2> SUFFICES ASSUME NEW m \in Masternodes \ doubtful'
               PROVE  IsLastPayment(d, Len(d), m, mapLastPaidHeight[m])
    BY <1>1, <1>5 DEF ExactOnBranch, Recorded
  <2>1. m \in Masternodes \ doubtful /\ m \notin PaidOn(rest, 1)
    BY <1>2
  <2>2. IsLastPayment(c, Len(c), m, mapLastPaidHeight[m])
    BY <1>1, <2>1 DEF Inv, ExactOnBranch, OnBranch, Recorded
  <2>3. \A k \in 1 .. n : ~Pays(rest, k, m)
    <3>1. \A k \in 1 .. n : PaidBy(rest[k]) # m
      BY <1>4, <2>1, ScriptsApart DEF PaidOn
    <3> QED BY <3>1, PaidByIs DEF Pays
  <2>4. \A k \in Len(c) + 1 .. Len(d) : ~Pays(d, k, m)
    <3> SUFFICES ASSUME NEW k \in Len(c) + 1 .. Len(d) PROVE ~Pays(d, k, m)
      OBVIOUS
    <3>1. k - Len(c) \in 1 .. n /\ d[k] = rest[k - Len(c)]
      BY <1>3, <1>4
    <3> QED BY <2>3, <3>1 DEF Pays
  <2>5. Len(d) \in Nat /\ Len(c) <= Len(d) /\ Len(c) <= Len(c)
    BY <1>3, <1>4
  <2>6. \A k \in Len(c) + 1 .. Len(c) : FALSE
    BY <1>3
  <2> HIDE DEF c
  <2> QED BY <1>3, <1>4, <2>2, <2>4, <2>5, <2>6, LastPaymentStays
<1> QED BY <1>7, <1>8, <1>9 DEF Inv

\* pindexBest moves to the head of the branch.
LEMMA SetTipKeeps ==
  ASSUME Inv, SetTip
  PROVE  Inv'
<1>1. /\ chain.pc = "settip" /\ best' = chain.branch /\ chain' = Idle
      /\ UNCHANGED <<stored, vMasternodes, mapLastPaidHeight, update, doubtful>>
  BY DEF SetTip
<1>2. chain'.pc = "idle"
  BY <1>1, IdleType
<1>3. TypeOK'
  BY <1>1, Fields, IdleType DEF Inv, TypeOK
<1>4. ExactOnBest'
  BY <1>1, <1>2 DEF Inv, ExactOnBranch, OnBranch, Recorded, ExactOnBest
<1> QED BY <1>1, <1>2, <1>3, <1>4 DEF Inv, Positioned, ExactOnBranch, OnBranch, Abortable

-----------------------------------------------------------------------------
\* The other threads and the restart.

\* A step beside SetBestChain that changes the certain records only by a walk
\* while no SetBestChain runs.
LEMMA BesideKeeps ==
  ASSUME Inv, UNCHANGED <<best, stored>>, vMasternodes' \subseteq Masternodes,
         mapLastPaidHeight' \in [Masternodes -> HeightOrNone], doubtful' \subseteq Masternodes,
         update' \in Updates, update'.pc # "none" => update'.mn \in Masternodes,
         chain' \in ChainStates, chain'.pc = chain.pc, chain'.branch = chain.branch,
         chain'.fork = chain.fork, chain'.at = chain.at, chain'.committed = chain.committed,
         \A m \in Masternodes \ doubtful' :
           \/ m \notin doubtful /\ mapLastPaidHeight'[m] = mapLastPaidHeight[m]
           \/ chain.pc = "idle" /\ IsLastPayment(best, Len(best), m, mapLastPaidHeight'[m])
  PROVE  Inv'
<1>1. TypeOK'
  BY DEF Inv, TypeOK
<1>2. Positioned'
  BY DEF Inv, Positioned
<1>3. ExactOnBest'
  BY DEF Inv, ExactOnBest, OnBestChain
<1>4. Recorded' = Recorded
  BY DEF Recorded
<1>5. ExactOnBranch'
  BY <1>4 DEF Inv, ExactOnBranch, OnBranch
<1>6. Abortable'
  BY <1>4 DEF Inv, Abortable
<1> QED BY <1>1, <1>2, <1>3, <1>5, <1>6 DEF Inv

\* A walk whose result for one masternode is written leaves the record certain
\* only when it is the last payment.
LEMMA WalkIs ==
  ASSUME Inv, NEW p \in Masternodes, NEW of \in Masternodes, NEW c \in Chains,
         NEW sure \in BOOLEAN,
         sure => p = of /\ c = best /\ chain.pc = "idle" /\ WalkFindsPayment(best, p),
         mapLastPaidHeight' = [mapLastPaidHeight EXCEPT ![p] = RecomputeLastPaidHeight(c, of)],
         doubtful' = IF sure THEN doubtful \ {p} ELSE doubtful \cup {p}
  PROVE  /\ mapLastPaidHeight' \in [Masternodes -> HeightOrNone] /\ doubtful' \subseteq Masternodes
         /\ \A n \in Masternodes \ doubtful' :
              \/ n \notin doubtful /\ mapLastPaidHeight'[n] = mapLastPaidHeight[n]
              \/ chain.pc = "idle" /\ IsLastPayment(best, Len(best), n, mapLastPaidHeight'[n])
<1>1. mapLastPaidHeight \in [Masternodes -> HeightOrNone] /\ doubtful \subseteq Masternodes
  BY DEF Inv, TypeOK
<1>2. /\ RecomputeLastPaidHeight(c, of) \in HeightOrNone
      /\ WalkFindsPayment(c, of) => IsLastPayment(c, Len(c), of, RecomputeLastPaidHeight(c, of))
  BY RecomputeIs
<1>3. CASE sure
  BY <1>1, <1>2, <1>3
<1>4. CASE ~sure
  BY <1>1, <1>2, <1>4
<1> QED BY <1>3, <1>4

\* A list change leaves SetBestChain and the handler where they are.
LEMMA ListMovesIs ==
  ASSUME TypeOK, ListMoves
  PROVE  /\ chain' \in ChainStates /\ chain'.pc = chain.pc /\ chain'.branch = chain.branch
         /\ chain'.fork = chain.fork /\ chain'.at = chain.at /\ chain'.committed = chain.committed
         /\ update' \in Updates /\ update'.pc = update.pc /\ update'.mn = update.mn
<1> DEFINE moved == chain.pc \in {"forget", "rewalk", "record"}
           stale == update.pc # "none"
<1>1. moved \in BOOLEAN /\ stale \in BOOLEAN
  OBVIOUS
<1>2. chain' = [chain EXCEPT !.moved = moved] /\ update' = [update EXCEPT !.moved = stale]
  BY DEF ListMoves
<1> HIDE DEF moved, stale
<1> QED BY <1>1, <1>2 DEF TypeOK, ChainStates, Updates

\* The masternode list changes.
LEMMA ListKeeps ==
  ASSUME Inv, NEW m \in Masternodes, Add(m) \/ CheckAndRemove(m)
  PROVE  Inv'
<1>t. /\ vMasternodes \subseteq Masternodes /\ TypeOK /\ best \in Chains
      /\ mapLastPaidHeight \in [Masternodes -> HeightOrNone] /\ doubtful \subseteq Masternodes
  BY DEF Inv, TypeOK
<1>m. update.pc # "none" => update.mn \in Masternodes
  BY DEF Inv, Positioned
<1>1. CASE Add(m)
  <2>1. UNCHANGED <<best, stored>> /\ vMasternodes' = vMasternodes \cup {m} /\ ListMoves
    BY <1>1 DEF Add
  <2> DEFINE sure == chain.pc = "idle" /\ WalkFindsPayment(best, m)
  <2>2. /\ mapLastPaidHeight' = [mapLastPaidHeight EXCEPT ![m] = RecomputeLastPaidHeight(best, m)]
        /\ doubtful' = IF sure THEN doubtful \ {m} ELSE doubtful \cup {m}
    BY <1>1 DEF Add
  <2>3. sure \in BOOLEAN
    BY DEF WalkFindsPayment
  <2>4. sure => m = m /\ best = best /\ chain.pc = "idle" /\ WalkFindsPayment(best, m)
    OBVIOUS
  <2> HIDE DEF sure
  <2>5. /\ mapLastPaidHeight' \in [Masternodes -> HeightOrNone] /\ doubtful' \subseteq Masternodes
        /\ \A n \in Masternodes \ doubtful' :
              \/ n \notin doubtful /\ mapLastPaidHeight'[n] = mapLastPaidHeight[n]
              \/ chain.pc = "idle" /\ IsLastPayment(best, Len(best), n, mapLastPaidHeight'[n])
    BY <1>t, <2>2, <2>3, <2>4, WalkIs
  <2>6. vMasternodes' \subseteq Masternodes
    BY <1>t, <2>1
  <2> QED BY <1>t, <1>m, <2>1, <2>5, <2>6, ListMovesIs, BesideKeeps
<1>2. CASE CheckAndRemove(m)
  <2>1. /\ UNCHANGED <<best, stored, mapLastPaidHeight, doubtful>> /\ ListMoves
        /\ vMasternodes' = vMasternodes \ {m}
    BY <1>2 DEF CheckAndRemove
  <2>2. vMasternodes' \subseteq Masternodes
    BY <1>t, <2>1
  <2> QED BY <1>t, <1>m, <2>1, <2>2, ListMovesIs, BesideKeeps
<1> QED BY <1>1, <1>2

\* The "dsee" handler before its walk is written.
LEMMA HandlerKeeps ==
  ASSUME Inv, (\E m \in Masternodes : FindEntry(m)) \/ StartBackfill \/ SkipBackfill
  PROVE  Inv'
<1>t. /\ vMasternodes \subseteq Masternodes /\ chain \in ChainStates /\ update \in Updates
      /\ best \in Chains
      /\ mapLastPaidHeight \in [Masternodes -> HeightOrNone] /\ doubtful \subseteq Masternodes
  BY DEF Inv, TypeOK
<1>u. UNCHANGED <<best, stored, vMasternodes, mapLastPaidHeight, chain, doubtful>>
  BY DEF FindEntry, StartBackfill, SkipBackfill
<1>1. ASSUME NEW m \in Masternodes, FindEntry(m)
      PROVE  update' \in Updates /\ (update'.pc # "none" => update'.mn \in Masternodes)
  BY <1>1, EmptyChain DEF FindEntry, NoUpdate, Updates
<1>2. ASSUME StartBackfill
      PROVE  update' \in Updates /\ (update'.pc # "none" => update'.mn \in Masternodes)
  <2>1. update.pc = "found" /\ update' = [update EXCEPT !.pc = "walk", !.from = best]
    BY <1>2 DEF StartBackfill
  <2>2. update.mn \in Masternodes
    BY <2>1 DEF Inv, Positioned
  <2>3. update' \in Updates /\ update'.mn = update.mn
    BY <1>t, <2>1 DEF Updates
  <2> QED BY <2>2, <2>3
<1>3. ASSUME SkipBackfill
      PROVE  update' \in Updates /\ (update'.pc # "none" => update'.mn \in Masternodes)
  BY <1>3, NoUpdateType DEF SkipBackfill
<1>4. update' \in Updates /\ (update'.pc # "none" => update'.mn \in Masternodes)
  BY <1>1, <1>2, <1>3
<1> QED BY <1>t, <1>u, <1>4, BesideKeeps

\* The handler writes what its walk found: the record is certain only when the
\* walk was down the best chain and no block is being connected.
LEMMA BackfillKeeps ==
  ASSUME Inv, EndBackfill
  PROVE  Inv'
<1>1. /\ update.pc = "walk" /\ update' = NoUpdate
      /\ UNCHANGED <<best, stored, vMasternodes, chain>>
  BY DEF EndBackfill
<1>2. /\ update.mn \in Masternodes /\ update.from \in Chains /\ update.moved \in BOOLEAN
      /\ vMasternodes \subseteq Masternodes /\ chain \in ChainStates
  BY <1>1 DEF Inv, Positioned, TypeOK, Updates
<1>3. UpdatePointees \subseteq Masternodes /\ (~update.moved => UpdatePointees = {update.mn})
  BY <1>2 DEF UpdatePointees
<1>4. PICK p, of \in UpdatePointees :
        /\ mapLastPaidHeight' =
             [mapLastPaidHeight EXCEPT ![p] = RecomputeLastPaidHeight(update.from, of)]
        /\ doubtful' = IF /\ ~update.moved /\ update.from = best /\ chain.pc = "idle"
                          /\ WalkFindsPayment(best, p)
                       THEN doubtful \ {p} ELSE doubtful \cup {p}
  BY DEF EndBackfill
<1> DEFINE sure == ~update.moved /\ update.from = best /\ chain.pc = "idle" /\ WalkFindsPayment(best, p)
<1>5. doubtful' = IF sure THEN doubtful \ {p} ELSE doubtful \cup {p}
  BY <1>4
<1>6. sure \in BOOLEAN
  OBVIOUS
<1>7. sure => p = of /\ update.from = best /\ chain.pc = "idle" /\ WalkFindsPayment(best, p)
  BY <1>3
<1>8. p \in Masternodes /\ of \in Masternodes
  BY <1>3
<1> HIDE DEF sure
<1>9. /\ mapLastPaidHeight' \in [Masternodes -> HeightOrNone] /\ doubtful' \subseteq Masternodes
      /\ \A n \in Masternodes \ doubtful' :
            \/ n \notin doubtful /\ mapLastPaidHeight'[n] = mapLastPaidHeight[n]
            \/ chain.pc = "idle" /\ IsLastPayment(best, Len(best), n, mapLastPaidHeight'[n])
  BY <1>2, <1>4, <1>5, <1>6, <1>7, <1>8, WalkIs
<1>10. update' \in Updates /\ update'.pc = "none"
  BY <1>1, NoUpdateType
<1> QED BY <1>1, <1>2, <1>9, <1>10, BesideKeeps

\* The node starts again from its database.
LEMMA RestartKeeps ==
  ASSUME Inv, Restart
  PROVE  Inv'
<1>1. PICK list \in SUBSET Masternodes : \E enabled \in SUBSET list :
        /\ vMasternodes' = list /\ mapLastPaidHeight' = WalkBack(stored, enabled)
        /\ doubtful' = Overlooked(stored, enabled)
  BY DEF Restart
<1>2. PICK enabled \in SUBSET list :
        /\ vMasternodes' = list /\ mapLastPaidHeight' = WalkBack(stored, enabled)
        /\ doubtful' = Overlooked(stored, enabled)
  BY <1>1
<1>3. best' = stored /\ chain' = Idle /\ update' = NoUpdate /\ UNCHANGED stored /\ stored \in Chains
  BY DEF Restart, Inv, TypeOK
<1>4. enabled \in SUBSET Masternodes
  OBVIOUS
<1>5. /\ WalkBack(stored, enabled) \in [Masternodes -> HeightOrNone]
      /\ \A m \in Masternodes \ Overlooked(stored, enabled) :
           IsLastPayment(stored, Len(stored), m, WalkBack(stored, enabled)[m])
  BY <1>3, <1>4, WalkBackIs
<1>6. Overlooked(stored, enabled) \subseteq Masternodes
  BY DEF Overlooked
<1>7. chain'.pc = "idle" /\ chain' \in ChainStates /\ update'.pc = "none" /\ update' \in Updates
  BY <1>3, IdleType, NoUpdateType
<1>8. TypeOK'
  BY <1>2, <1>3, <1>5, <1>6, <1>7 DEF TypeOK
<1>9. ExactOnBest'
  BY <1>2, <1>3, <1>5, <1>7 DEF ExactOnBest
<1> QED BY <1>7, <1>8, <1>9 DEF Inv, Positioned, ExactOnBranch, OnBranch, Abortable

\* Every step preserves the invariant.
LEMMA StepInv == Inv /\ [Next]_vars => Inv'
<1> SUFFICES ASSUME Inv, [Next]_vars PROVE Inv'
  OBVIOUS
<1>1. ASSUME NEW b \in Blocks, ExtendBestChain(b) \/ ConnectBlock(b) PROVE Inv'
  BY <1>1, ExtendKeeps, ConnectKeeps
<1>2. ASSUME StartReorganize \/ DisconnectBlock \/ OnBlockDisconnected \/ RecomputeDisconnected PROVE Inv'
  BY <1>2, StartKeeps, DisconnectKeeps, ForgetKeeps, RecomputeKeeps
<1>3. ASSUME OnBlockConnected \/ CommitReorganize \/ ReorganizeFails \/ SecondaryFails \/ SetTip PROVE Inv'
  BY <1>3, RecordKeeps, CommitKeeps, FailKeeps, SecondaryKeeps, SetTipKeeps
<1>4. ASSUME NEW m \in Masternodes, Add(m) \/ CheckAndRemove(m) PROVE Inv'
  BY <1>4, ListKeeps
<1>7. ASSUME (\E m \in Masternodes : FindEntry(m)) \/ StartBackfill \/ SkipBackfill PROVE Inv'
  BY <1>7, HandlerKeeps
<1>8. CASE EndBackfill
  BY <1>8, BackfillKeeps
<1>5. CASE Restart
  BY <1>5, RestartKeeps
<1>6. CASE UNCHANGED vars
  BY <1>6 DEF vars, Inv, TypeOK, Positioned, ExactOnBest, ExactOnBranch, Abortable, Recorded
<1> QED BY <1>1, <1>2, <1>3, <1>4, <1>5, <1>6, <1>7, <1>8 DEF Next

-----------------------------------------------------------------------------
\* The results.

\* Every behaviour keeps the types: a record is a height or absent, whatever a
\* walk, a hook with a stale pointer or a restart wrote.
THEOREM RecordTypes == Spec => []TypeOK
<1>1. Inv => TypeOK
  BY DEF Inv
<1> QED BY <1>1, InitInv, StepInv, PTL DEF Spec

\* Whatever the order of blocks, reorganizations, failed switches, list changes,
\* unlocked walks and restarts, a record is the last payment on the best chain unless one of
\* the named gaps touched it: the list of gaps is complete.
THEOREM RecordIsExact == Spec => []ExactUnlessDoubtful
<1>1. Inv => ExactUnlessDoubtful
  <2> SUFFICES ASSUME Inv, chain.pc = "idle", NEW m \in vMasternodes \ doubtful
               PROVE  mapLastPaidHeight[m] = LastPayment(best, m)
    BY DEF ExactUnlessDoubtful
  <2>1. m \in Masternodes \ doubtful /\ best \in Chains
    BY DEF Inv, TypeOK
  <2>2. IsLastPayment(best, Len(best), m, mapLastPaidHeight[m])
    BY <2>1 DEF Inv, ExactOnBest, OnBestChain
  <2> QED BY <2>1, <2>2, LastPaymentIs
<1> QED BY <1>1, InitInv, StepInv, PTL DEF Spec
=============================================================================
