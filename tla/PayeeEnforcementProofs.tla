----------------------- MODULE PayeeEnforcementProofs -----------------------
(***************************************************************************)
(* Proofs about PayeeEnforcement for every set of scripts, every supply of *)
(* blocks and sporks, every floor, orphan limit and scan depth.            *)
(*                                                                         *)
(* The inductive invariant adds to the properties: the index has every     *)
(* block below a block it has, an orphan is not in the index, an orphan    *)
(* whose parent is there waits for the ProcessBlock that is running or     *)
(* behind a refusal, and the blocks of the best chain are on record.       *)
(***************************************************************************)
EXTENDS PayeeEnforcement, SequenceTheorems, WellFoundedInduction, TLAPS

\* Every nonempty set of naturals has a least element.
LEMMA LeastElement ==
  ASSUME NEW T \in SUBSET Nat, T # {}
  PROVE  \E x \in T : \A y \in T : x <= y
<1> DEFINE R == OpToRel(<, Nat)
<1>1. R = {ss \in Nat \X Nat : ss[1] < ss[2]}
  BY DEF OpToRel
<1>2. IsWellFoundedOn(R, Nat)
  BY NatLessThanWellFounded
<1> HIDE DEF R
<1>3. PICK x \in T : \A y \in T : ~ (<<y, x>> \in R)
  BY <1>2, WFMin
<1>4. \A y \in T : ~(y < x)
  BY <1>1, <1>3
<1> QED BY <1>4

\* Every nonempty set of heights up to a bound has a highest one.
LEMMA GreatestElement ==
  ASSUME NEW N \in Nat, NEW S \in SUBSET (0 .. N), S # {}
  PROVE  \E h \in S : \A k \in S : k <= h
<1> DEFINE T == {N - k : k \in S}
<1>1. T \in SUBSET Nat
  OBVIOUS
<1>2. T # {}
  OBVIOUS
<1>3. PICK x \in T : \A y \in T : x <= y
  <2> HIDE DEF T
  <2> QED BY <1>1, <1>2, LeastElement
<1>4. PICK h \in S : x = N - h
  BY <1>3
<1>5. \A k \in S : N - h <= N - k
  BY <1>3, <1>4
<1> QED BY <1>5

-----------------------------------------------------------------------------
IndexHasBranches == \A b \in index : Branch(b) \subseteq index

OrphansApart == orphans \subseteq Supply /\ orphans \cap index = {}

OrphansWait == \A o \in orphans : Parent(o) \in index => Parent(o) \in rejected \cup work

BestOnRecord == Branch(best) \subseteq onBest

Inv ==
  /\ TypeOK /\ IndexHasBranches /\ OrphansApart /\ OrphansWait /\ BestOnRecord
  /\ ForkChoice /\ AttestedByBestChain

-----------------------------------------------------------------------------
\* Blocks as sequences of payees.

\* The bound on heights, without the rest of the assumptions.
LEMMA MaxHeightType == MaxHeight \in Nat
BY EnforcementConstants

\* A block is a sequence of payees up to the bound.
LEMMA BlockIsSeq ==
  ASSUME NEW b
  PROVE  b \in Blocks <=> b \in Seq(Payees) /\ Len(b) <= MaxHeight
<1>1. ASSUME b \in Blocks PROVE b \in Seq(Payees) /\ Len(b) <= MaxHeight
  <2>1. PICK n \in 0 .. MaxHeight : b \in [1 .. n -> Payees]
    BY <1>1 DEF Blocks
  <2>2. b \in Seq(Payees)
    BY <2>1, SeqDef, MaxHeightType
  <2>3. Len(b) \in Nat /\ DOMAIN b = 1 .. Len(b)
    BY <2>2, LenProperties
  <2>4. Len(b) = n
    BY <2>1, <2>3, MaxHeightType
  <2> QED BY <2>2, <2>4, MaxHeightType
<1>2. ASSUME b \in Seq(Payees), Len(b) <= MaxHeight PROVE b \in Blocks
  <2>1. b \in [1 .. Len(b) -> Payees] /\ Len(b) \in Nat
    BY <1>2, LenProperties
  <2>2. Len(b) \in 0 .. MaxHeight
    BY <2>1, <1>2, MaxHeightType
  <2> QED BY <2>1, <2>2 DEF Blocks
<1> QED BY <1>1, <1>2

\* The genesis block, which the bound never excludes.
LEMMA GenesisIsBlock == Genesis \in Blocks /\ Len(Genesis) = 0
<1>1. <<>> \in Seq(Payees) /\ Len(<<>>) = 0
  BY EmptySeq
<1>2. Len(<<>>) <= MaxHeight
  BY <1>1, MaxHeightType
<1>3. <<>> \in Blocks
  BY <1>1, <1>2, BlockIsSeq
<1> QED BY <1>1, <1>3 DEF Genesis

\* The blocks of a branch: their heights and payees are those of the chain.
LEMMA BranchBlocks ==
  ASSUME NEW b \in Blocks, NEW n \in 0 .. Len(b)
  PROVE  /\ SubSeq(b, 1, n) \in Blocks
         /\ Len(SubSeq(b, 1, n)) = n
         /\ \A i \in 1 .. n : SubSeq(b, 1, n)[i] = b[i]
<1>1. b \in Seq(Payees) /\ Len(b) <= MaxHeight /\ Len(b) \in Nat /\ b \in [1 .. Len(b) -> Payees]
  BY BlockIsSeq, LenProperties
<1>2. \A i \in 1 .. n : b[i] \in Payees
  BY <1>1
<1>3. /\ SubSeq(b, 1, n) \in Seq(Payees)
      /\ Len(SubSeq(b, 1, n)) = IF 1 <= n THEN n - 1 + 1 ELSE 0
      /\ \A i \in 1 .. n - 1 + 1 : SubSeq(b, 1, n)[i] = b[1 + i - 1]
  BY <1>1, <1>2, SubSeqProperties
<1>4. Len(SubSeq(b, 1, n)) = n
  BY <1>1, <1>3
<1>5. \A i \in 1 .. n : SubSeq(b, 1, n)[i] = b[i]
  BY <1>1, <1>3
<1>6. Len(SubSeq(b, 1, n)) <= MaxHeight
  BY <1>1, <1>4, MaxHeightType
<1>7. SubSeq(b, 1, n) \in Blocks
  BY <1>3, <1>6, BlockIsSeq
<1> QED BY <1>4, <1>5, <1>7

\* The part of a part of a chain.
LEMMA PartOfPart ==
  ASSUME NEW b \in Blocks, NEW n \in 0 .. Len(b), NEW c \in Blocks, Len(c) = n,
         \A i \in 1 .. n : c[i] = b[i], NEW k \in 0 .. n
  PROVE  SubSeq(c, 1, k) = SubSeq(b, 1, k)
<1>1. Len(b) \in Nat
  BY BlockIsSeq, LenProperties
<1>2. /\ SubSeq(c, 1, k) \in Seq(Payees) /\ Len(SubSeq(c, 1, k)) = k
      /\ \A i \in 1 .. k : SubSeq(c, 1, k)[i] = c[i]
  BY BranchBlocks, BlockIsSeq
<1>3. k \in 0 .. Len(b)
  BY <1>1
<1>4. /\ SubSeq(b, 1, k) \in Seq(Payees) /\ Len(SubSeq(b, 1, k)) = k
      /\ \A i \in 1 .. k : SubSeq(b, 1, k)[i] = b[i]
  BY <1>3, BranchBlocks, BlockIsSeq
<1>5. \A i \in 1 .. k : SubSeq(c, 1, k)[i] = SubSeq(b, 1, k)[i]
  BY <1>1, <1>2, <1>4
<1> QED BY <1>2, <1>4, <1>5, SeqEqual

\* A block is on its own branch; below it is the branch of its parent.
LEMMA BranchOfBlock ==
  ASSUME NEW b \in Blocks \ {Genesis}
  PROVE  /\ Len(b) \in 1 .. MaxHeight
         /\ Payee(b) \in Payees
         /\ Branch(b) = Branch(Parent(b)) \cup {b}
         /\ Parent(b) \in Blocks
<1>1. b \in Seq(Payees) /\ Len(b) <= MaxHeight /\ Len(b) \in Nat /\ b \in [1 .. Len(b) -> Payees]
  BY BlockIsSeq, LenProperties
<1>2. Len(b) \in 1 .. MaxHeight
  BY <1>1, EmptySeq, MaxHeightType DEF Genesis
<1>3. Payee(b) \in Payees
  BY <1>1, <1>2 DEF Payee, Last
<1> DEFINE p == SubSeq(b, 1, Len(b) - 1)
<1>4. Parent(b) = p
  BY DEF Parent, Front
<1>5. p \in Blocks /\ Len(p) = Len(b) - 1 /\ \A i \in 1 .. Len(b) - 1 : p[i] = b[i]
  <2>1. Len(b) - 1 \in 0 .. Len(b)
    BY <1>2
  <2> QED BY <2>1, BranchBlocks
<1>6. \A n \in 1 .. Len(b) - 1 : SubSeq(p, 1, n) = SubSeq(b, 1, n)
  <2> SUFFICES ASSUME NEW n \in 1 .. Len(b) - 1 PROVE SubSeq(p, 1, n) = SubSeq(b, 1, n)
    OBVIOUS
  <2> HIDE DEF p
  <2>1. /\ SubSeq(p, 1, n) \in Seq(Payees) /\ Len(SubSeq(p, 1, n)) = n
        /\ \A i \in 1 .. n : SubSeq(p, 1, n)[i] = p[i]
    BY <1>2, <1>5, BranchBlocks, BlockIsSeq
  <2>2. /\ SubSeq(b, 1, n) \in Seq(Payees) /\ Len(SubSeq(b, 1, n)) = n
        /\ \A i \in 1 .. n : SubSeq(b, 1, n)[i] = b[i]
    BY <1>2, BranchBlocks, BlockIsSeq
  <2>3. \A i \in 1 .. n : SubSeq(p, 1, n)[i] = SubSeq(b, 1, n)[i]
    BY <2>1, <2>2, <1>5, <1>2
  <2> QED BY <2>1, <2>2, <2>3, SeqEqual
<1>7. SubSeq(b, 1, Len(b)) = b
  BY <1>1, SubSeqFull
<1> HIDE DEF p
<1>8. Branch(b) = {SubSeq(b, 1, n) : n \in 1 .. Len(b) - 1} \cup {b}
  BY <1>2, <1>7 DEF Branch
<1>9. Branch(p) = {SubSeq(b, 1, n) : n \in 1 .. Len(b) - 1}
  BY <1>5, <1>6 DEF Branch
<1> QED BY <1>2, <1>3, <1>4, <1>5, <1>8, <1>9

-----------------------------------------------------------------------------
\* Attested payees.

\* OnBlockAccepted keeps heights of earlier entries, drops some, and gives the
\* payee of the block no other height than its own or the one it had.
LEMMA AttestedAfter ==
  ASSUME TypeOK, NEW b \in Blocks \ {Genesis}
  PROVE  /\ OnBlockAccepted(b) \in [Payees -> 0 .. MaxHeight]
         /\ \A p \in Payees :
              \/ OnBlockAccepted(b)[p] \in {0, attested[p]}
              \/ p = Payee(b) /\ OnBlockAccepted(b)[p] = Len(b)
<1> DEFINE a == [attested EXCEPT ![Payee(b)] = IF Len(b) > @ THEN Len(b) ELSE @]
           e == EvictBelow(a)
<1>1. Len(b) \in 1 .. MaxHeight /\ Payee(b) \in Payees
  BY BranchOfBlock
<1>2. attested \in [Payees -> 0 .. MaxHeight]
  BY DEF TypeOK
<1>3. /\ a \in [Payees -> 0 .. MaxHeight]
      /\ \A p \in Payees : a[p] = attested[p] \/ (p = Payee(b) /\ a[p] = Len(b))
  BY <1>1, <1>2, MaxHeightType
<1>4. OnBlockAccepted(b) = [p \in Payees |-> IF a[p] < e THEN 0 ELSE a[p]]
  BY DEF OnBlockAccepted
<1> HIDE DEF a, e
<1> QED BY <1>3, <1>4, MaxHeightType

\* The walk at startup finds for each payee a block of the chain that paid it.
LEMMA WalkAttests ==
  ASSUME NEW c \in Blocks
  PROVE  /\ WalkBack(c) \in [Payees -> 0 .. MaxHeight]
         /\ \A p \in Payees : WalkBack(c)[p] # 0 =>
              \E b \in Branch(c) : Len(b) = WalkBack(c)[p] /\ Payee(b) = p
<1>1. Len(c) \in Nat /\ Len(c) <= MaxHeight
  BY BlockIsSeq, LenProperties
<1> DEFINE paid(p) == {h \in 1 .. Len(c) : c[h] = p /\ h > Len(c) - ScanDepth}
<1>2. \A p \in Payees : paid(p) # {} => WalkBack(c)[p] \in paid(p)
  <2> SUFFICES ASSUME NEW p \in Payees, paid(p) # {} PROVE WalkBack(c)[p] \in paid(p)
    OBVIOUS
  <2>1. WalkBack(c)[p] = CHOOSE h \in paid(p) : \A k \in paid(p) : k <= h
    BY DEF WalkBack
  <2>2. paid(p) \in SUBSET (0 .. Len(c))
    BY <1>1
  <2> HIDE DEF paid
  <2>3. \E h \in paid(p) : \A k \in paid(p) : k <= h
    BY <1>1, <2>2, GreatestElement
  <2> QED BY <2>1, <2>3
<1>3. \A p \in Payees : paid(p) = {} => WalkBack(c)[p] = 0
  BY DEF WalkBack
<1>4. \A p \in Payees : WalkBack(c)[p] \in 0 .. MaxHeight
  BY <1>1, <1>2, <1>3, MaxHeightType
<1>5. WalkBack(c) \in [Payees -> 0 .. MaxHeight]
  BY <1>4 DEF WalkBack
<1>6. ASSUME NEW p \in Payees, WalkBack(c)[p] # 0
      PROVE  \E b \in Branch(c) : Len(b) = WalkBack(c)[p] /\ Payee(b) = p
  <2> DEFINE h == WalkBack(c)[p]
  <2>1. h \in 1 .. Len(c) /\ c[h] = p
    BY <1>2, <1>3, <1>6
  <2> HIDE DEF h
  <2>2. Len(SubSeq(c, 1, h)) = h /\ SubSeq(c, 1, h)[h] = c[h]
    BY <1>1, <2>1, BranchBlocks
  <2>3. SubSeq(c, 1, h) \in Branch(c)
    BY <2>1 DEF Branch
  <2> QED BY <2>1, <2>2, <2>3 DEF Payee, Last, h
<1> QED BY <1>5, <1>6

-----------------------------------------------------------------------------
\* AcceptBlock.

\* What AcceptBlock leaves of the chain state: the types, the fork choice, the
\* attested payees, and a block that is refused or not.
LEMMA AcceptKeeps ==
  ASSUME Inv, NEW b \in Blocks \ {Genesis}, Parent(b) \in index, AcceptBlock(b)
  PROVE  /\ index' \subseteq Blocks /\ best' \in index' /\ rejected' \subseteq index'
         /\ vetted' \subseteq index' /\ onBest' \subseteq index' /\ ibd' \in BOOLEAN
         /\ stranded' \subseteq index'
         /\ attested' \in [Payees -> 0 .. MaxHeight]
         /\ index' = index \cup {b} /\ rejected \subseteq rejected'
         /\ IndexHasBranches' /\ BestOnRecord' /\ ForkChoice' /\ AttestedByBestChain'
<1> DEFINE first == CheckedBlock(b)
           checks == Heavier(b) /\ ExtendsBest(b) /\ ~ibd'
           fails == checks /\ ~PayeeAccepted(first)
           connects == Heavier(b) /\ ~fails
<1>1. /\ ibd' \in BOOLEAN
      /\ index' = index \cup {b}
      /\ best' = IF connects THEN b ELSE best
      /\ attested' = IF connects THEN OnBlockAccepted(b) ELSE attested
      /\ rejected' = IF fails THEN rejected \cup {b} ELSE rejected
      /\ vetted' = vetted \cup (IF ibd' THEN {b} ELSE {})
                         \cup (IF checks /\ ~fails THEN {first} ELSE {})
      /\ onBest' = IF connects THEN onBest \cup Branch(b) ELSE onBest
      /\ stranded' = stranded
  BY DEF AcceptBlock, Attest
<1>2. /\ index \subseteq Blocks /\ best \in index /\ rejected \subseteq index
      /\ vetted \subseteq index /\ onBest \subseteq index /\ stranded \subseteq index
      /\ attested \in [Payees -> 0 .. MaxHeight]
  BY DEF Inv, TypeOK
<1>3. /\ Len(b) \in 1 .. MaxHeight /\ Payee(b) \in Payees
      /\ Branch(b) = Branch(Parent(b)) \cup {b}
  BY BranchOfBlock
<1>4. Branch(b) \subseteq index'
  BY <1>1, <1>3 DEF Inv, IndexHasBranches
<1>5. Len(best) \in Nat /\ \A x \in index' : Len(x) \in Nat
  BY <1>1, <1>2, BlockIsSeq, LenProperties
<1>6. checks => first \in Branch(b)
  BY <1>3, <1>5 DEF CheckedBlock, Branch, Heavier
<1>7. index' \subseteq Blocks /\ best' \in index' /\ rejected' \subseteq index'
      /\ onBest' \subseteq index' /\ stranded' \subseteq index'
  BY <1>1, <1>2, <1>4
<1>8. vetted' \subseteq index'
  BY <1>1, <1>2, <1>4, <1>6
<1>9. attested' \in [Payees -> 0 .. MaxHeight]
  BY <1>1, <1>2, AttestedAfter DEF Inv
<1>10. IndexHasBranches'
  BY <1>1, <1>4 DEF Inv, IndexHasBranches, Branch
<1>11. BestOnRecord'
  BY <1>1 DEF Inv, BestOnRecord
<1>12. ForkChoice'
  <2> SUFFICES ASSUME NEW x \in index', Len(x) > Len(best')
               PROVE  x \in rejected' \cup stranded'
    BY DEF ForkChoice
  <2>1. CASE connects
    <3>1. best' = b /\ Len(b) > Len(best)
      BY <1>1, <2>1 DEF Heavier
    <3>2. x \in index /\ Len(x) > Len(best)
      BY <3>1, <1>1, <1>3, <1>5
    <3> QED BY <3>2, <1>1 DEF Inv, ForkChoice
  <2>2. CASE ~connects
    <3>1. best' = best
      BY <1>1, <2>2
    <3>2. CASE x \in index
      BY <3>1, <3>2, <1>1 DEF Inv, ForkChoice
    <3>3. CASE x = b
      BY <3>1, <3>3, <1>1, <2>2 DEF Heavier
    <3> QED BY <3>2, <3>3, <1>1
  <2> QED BY <2>1, <2>2
<1>13. AttestedByBestChain'
  <2> SUFFICES ASSUME NEW p \in Payees, attested'[p] # 0
               PROVE  \E x \in onBest' : Len(x) = attested'[p] /\ Payee(x) = p
    BY DEF AttestedByBestChain
  <2>1. CASE attested'[p] = attested[p]
    BY <2>1, <1>1 DEF Inv, AttestedByBestChain
  <2>2. CASE connects /\ p = Payee(b) /\ attested'[p] = Len(b)
    BY <2>2, <1>1, <1>3
  <2> QED BY <2>1, <2>2, <1>1, AttestedAfter DEF Inv
<1> QED BY <1>1, <1>7, <1>8, <1>9, <1>10, <1>11, <1>12, <1>13

-----------------------------------------------------------------------------
\* The invariant.

\* The steps that leave the chain, its orphans and the block at work alone.
ChainUnchanged == UNCHANGED <<chainVars, orphans, work>>

\* At the start there is the genesis block alone.
LEMMA InitInv == Init => Inv
<1> SUFFICES ASSUME Init PROVE Inv
  OBVIOUS
<1>1. Genesis \in Blocks /\ Len(Genesis) = 0
  BY GenesisIsBlock
<1>2. Branch(Genesis) = {}
  BY <1>1 DEF Branch
<1>3. TypeOK
  BY <1>1, MaxHeightType DEF Init, TypeOK, NoVotes, Unattested
<1>4. ForkChoice
  BY <1>1 DEF Init, ForkChoice
<1>5. AttestedByBestChain
  BY DEF Init, AttestedByBestChain, Unattested
<1> QED BY <1>2, <1>3, <1>4, <1>5
        DEF Init, Inv, IndexHasBranches, OrphansApart, OrphansWait, BestOnRecord

\* A block with a known parent comes in while no other ProcessBlock runs.
LEMMA ReceiveKeeps ==
  ASSUME Inv, NEW b \in Blocks \ {Genesis}, work = {}, b \notin index, b \notin orphans,
         Parent(b) \in index, AcceptBlock(b), built' \in Blocks,
         work' = IF b \in rejected' THEN {} ELSE {b}, UNCHANGED <<orphans, viewVars>>
  PROVE  Inv'
<1>1. /\ index' \subseteq Blocks /\ best' \in index' /\ rejected' \subseteq index'
      /\ vetted' \subseteq index' /\ onBest' \subseteq index' /\ ibd' \in BOOLEAN
      /\ stranded' \subseteq index'
      /\ attested' \in [Payees -> 0 .. MaxHeight]
      /\ index' = index \cup {b} /\ rejected \subseteq rejected'
      /\ IndexHasBranches' /\ BestOnRecord' /\ ForkChoice' /\ AttestedByBestChain'
  BY AcceptKeeps
<1>2. TypeOK'
  BY <1>1 DEF Inv, TypeOK, viewVars
<1>3. OrphansApart'
  BY <1>1 DEF Inv, OrphansApart
<1>4. OrphansWait'
  BY <1>1 DEF Inv, OrphansWait, Parent
<1> QED BY <1>1, <1>2, <1>3, <1>4 DEF Inv

\* The node starts with a stored best chain of its index.
LEMMA StartKeeps ==
  ASSUME StartOn(best'), index' \subseteq Blocks, best' \in index', ibd' \in BOOLEAN,
         rejected' \subseteq index', stranded' \subseteq index', vetted' \subseteq index',
         onBest' \subseteq index', IndexHasBranches', BestOnRecord', ForkChoice'
  PROVE  Inv'
<1>1. /\ orphans' = {} /\ work' = {} /\ voted' = NoVotes /\ eligible' \in SUBSET Scripts
      /\ attested' \in {Unattested, WalkBack(best')} /\ spork' = NoSpork /\ built' = Genesis
  BY DEF StartOn
<1>2. Genesis \in Blocks
  BY GenesisIsBlock
<1>3. attested' \in [Payees -> 0 .. MaxHeight] /\ AttestedByBestChain'
  <2>1. CASE attested' = Unattested
    BY <2>1, MaxHeightType DEF Unattested, AttestedByBestChain
  <2>2. CASE attested' = WalkBack(best')
    <3>1. /\ WalkBack(best') \in [Payees -> 0 .. MaxHeight]
          /\ \A p \in Payees : WalkBack(best')[p] # 0 =>
               \E b \in Branch(best') : Len(b) = WalkBack(best')[p] /\ Payee(b) = p
      BY WalkAttests
    <3>2. Branch(best') \subseteq onBest'
      BY DEF BestOnRecord
    <3> QED BY <2>2, <3>1, <3>2 DEF AttestedByBestChain
  <2> QED BY <1>1, <2>1, <2>2
<1>4. TypeOK'
  BY <1>1, <1>2, <1>3 DEF TypeOK, NoVotes
<1>5. OrphansApart' /\ OrphansWait'
  BY <1>1 DEF OrphansApart, OrphansWait
<1> QED BY <1>3, <1>4, <1>5 DEF Inv

\* The blocks on a part of a branch are blocks of the branch.
LEMMA BranchOfPart ==
  ASSUME NEW b \in Blocks, NEW n \in 0 .. Len(b)
  PROVE  Branch(SubSeq(b, 1, n)) \subseteq Branch(b)
<1> DEFINE c == SubSeq(b, 1, n)
<1>1. c \in Blocks /\ Len(c) = n /\ \A i \in 1 .. n : c[i] = b[i]
  BY BranchBlocks
<1>2. Len(b) \in Nat
  BY BlockIsSeq, LenProperties
<1> HIDE DEF c
<1>3. ASSUME NEW k \in 1 .. n PROVE SubSeq(c, 1, k) = SubSeq(b, 1, k)
  BY <1>1, <1>2, PartOfPart
<1>4. Branch(c) = {SubSeq(b, 1, k) : k \in 1 .. n}
  BY <1>1, <1>3 DEF Branch
<1> QED BY <1>2, <1>4 DEF Branch, c

\* A crash cuts the acceptance of a heavier block off: the block stays above the
\* best chain, and every other heavier block was there before.
LEMMA CrashKeeps ==
  ASSUME Inv, NEW b \in UnderWay, CrashInAccept(b)
  PROVE  Inv'
<1>1. /\ Heavier(b) /\ ibd' \in BOOLEAN /\ index' = index \cup {b}
      /\ best' \in {best} \cup CommittedBelow(b)
      /\ stranded' = stranded \cup {b}
      /\ vetted' \subseteq vetted \cup {b, CheckedBlock(b)}
      /\ onBest' = onBest \cup Branch(best') /\ StartOn(best') /\ UNCHANGED rejected
  BY DEF CrashInAccept
<1>2. b \in Blocks \ {Genesis} /\ Parent(b) \in index
  BY EnforcementConstants DEF UnderWay, Inv, TypeOK, OrphansApart
<1>3. /\ index \subseteq Blocks /\ best \in index /\ rejected \subseteq index
      /\ vetted \subseteq index /\ onBest \subseteq index /\ stranded \subseteq index
  BY DEF Inv, TypeOK
<1>4. /\ Len(b) \in 1 .. MaxHeight /\ Branch(b) = Branch(Parent(b)) \cup {b}
  BY <1>2, BranchOfBlock
<1>5. Branch(b) \subseteq index'
  BY <1>1, <1>2, <1>4 DEF Inv, IndexHasBranches
<1>6. Len(best) \in Nat /\ \A x \in index' : Len(x) \in Nat
  BY <1>1, <1>2, <1>3, BlockIsSeq, LenProperties
<1>7. CheckedBlock(b) \in Branch(b)
  BY <1>1, <1>4, <1>6 DEF CheckedBlock, Branch, Heavier
<1>8. IndexHasBranches'
  BY <1>1, <1>5 DEF Inv, IndexHasBranches, Branch
<1>9. \/ best' = best
      \/ /\ best' \in Branch(b) /\ Branch(best') \subseteq Branch(b)
         /\ Len(best') > Len(best) /\ Len(best') < Len(b)
  <2> SUFFICES ASSUME NEW n \in Len(best) + 1 .. Len(b) - 1, best' = SubSeq(b, 1, n)
               PROVE  /\ best' \in Branch(b) /\ Branch(best') \subseteq Branch(b)
                      /\ Len(best') > Len(best) /\ Len(best') < Len(b)
    BY <1>1 DEF CommittedBelow
  <2>1. n \in 0 .. Len(b) /\ n \in 1 .. Len(b) /\ n > Len(best) /\ n < Len(b)
    BY <1>4, <1>6
  <2>2. Len(SubSeq(b, 1, n)) = n
    BY <1>2, <2>1, BranchBlocks
  <2> QED BY <1>2, <2>1, <2>2, BranchOfPart DEF Branch
<1>10. best' \in index' /\ Branch(best') \subseteq index'
  BY <1>1, <1>3, <1>5, <1>9 DEF Inv, IndexHasBranches
<1>11. BestOnRecord'
  BY <1>1 DEF BestOnRecord, Branch
<1>12. ForkChoice'
  <2> SUFFICES ASSUME NEW x \in index', Len(x) > Len(best') PROVE x \in rejected' \cup stranded'
    BY DEF ForkChoice
  <2>1. CASE x = b
    BY <1>1, <2>1
  <2>2. CASE x \in index
    <3>1. Len(x) > Len(best)
      BY <1>6, <1>9, <1>10
    <3> QED BY <1>1, <2>2, <3>1 DEF Inv, ForkChoice
  <2> QED BY <1>1, <2>1, <2>2
<1>13. vetted' \subseteq index' /\ onBest' \subseteq index' /\ index' \subseteq Blocks
  BY <1>1, <1>2, <1>3, <1>5, <1>7, <1>10
<1>14. rejected' \subseteq index' /\ stranded' \subseteq index'
  BY <1>1, <1>3
<1> QED BY <1>1, <1>8, <1>10, <1>11, <1>12, <1>13, <1>14, StartKeeps

\* Every step preserves the invariant.
LEMMA StepInv == Inv /\ [Next]_vars => Inv'
<1> SUFFICES ASSUME Inv, [Next]_vars PROVE Inv'
  OBVIOUS
<1>s. Supply \subseteq Blocks \ {Genesis} /\ VotedHeights \subseteq Heights
  BY EnforcementConstants
<1>f. ASSUME ChainUnchanged, built' \in Blocks, voted' \in [Heights -> Scripts \cup {NoPayee}],
             eligible' \subseteq Scripts, spork' \in Sporks \cup {NoSpork}
      PROVE  Inv'
  BY <1>f DEF ChainUnchanged, chainVars, Inv, TypeOK, IndexHasBranches, OrphansApart, OrphansWait,
     BestOnRecord, ForkChoice, AttestedByBestChain
<1>t. /\ built \in Blocks /\ voted \in [Heights -> Scripts \cup {NoPayee}]
      /\ eligible \subseteq Scripts /\ spork \in Sporks \cup {NoSpork}
  BY DEF Inv, TypeOK
<1>1. ASSUME NEW b \in Supply, ReceiveBlock(b) PROVE Inv'
  BY <1>1, <1>s, <1>t, ReceiveKeeps DEF ReceiveBlock
<1>2. ASSUME NEW b \in Supply, ReceiveOrphan(b) PROVE Inv'
  <2>1. /\ b \notin index /\ Parent(b) \notin index /\ work = {}
        /\ orphans' \subseteq orphans \cup {b}
        /\ UNCHANGED <<work, built, chainVars, viewVars>>
    BY <1>2 DEF ReceiveOrphan
  <2>2. TypeOK'
    BY <2>1, <1>s DEF chainVars, viewVars, Inv, TypeOK
  <2>3. OrphansApart' /\ OrphansWait'
    BY <2>1 DEF chainVars, Inv, OrphansApart, OrphansWait
  <2>4. IndexHasBranches' /\ BestOnRecord' /\ ForkChoice' /\ AttestedByBestChain'
    BY <2>1 DEF chainVars, Inv, IndexHasBranches, BestOnRecord, ForkChoice, AttestedByBestChain
  <2> QED BY <2>2, <2>3, <2>4 DEF Inv
<1>3. ASSUME NEW o \in orphans, AcceptOrphan(o) PROVE Inv'
  <2>1. /\ Parent(o) \in work /\ AcceptBlock(o) /\ orphans' = orphans \ {o}
        /\ work' = IF o \in rejected' THEN work ELSE work \cup {o}
        /\ UNCHANGED <<built, viewVars>>
    BY <1>3 DEF AcceptOrphan
  <2>2. o \in Blocks \ {Genesis} /\ Parent(o) \in index
    BY <2>1, <1>s DEF Inv, TypeOK, OrphansApart
  <2>3. /\ index' \subseteq Blocks /\ best' \in index' /\ rejected' \subseteq index'
        /\ vetted' \subseteq index' /\ onBest' \subseteq index' /\ ibd' \in BOOLEAN
        /\ stranded' \subseteq index'
        /\ attested' \in [Payees -> 0 .. MaxHeight]
        /\ index' = index \cup {o} /\ rejected \subseteq rejected'
        /\ IndexHasBranches' /\ BestOnRecord' /\ ForkChoice' /\ AttestedByBestChain'
    BY <2>1, <2>2, AcceptKeeps
  <2>4. TypeOK'
    BY <2>1, <2>3 DEF Inv, TypeOK, viewVars
  <2>5. OrphansApart'
    BY <2>1, <2>3 DEF Inv, OrphansApart
  <2>6. OrphansWait'
    BY <2>1, <2>3 DEF Inv, OrphansWait
  <2> QED BY <2>3, <2>4, <2>5, <2>6 DEF Inv
<1>4. CASE FinishProcessBlock
  <2>1. /\ \A o \in orphans : Parent(o) \notin work
        /\ work' = {} /\ UNCHANGED <<orphans, built, chainVars, viewVars>>
    BY <1>4 DEF FinishProcessBlock
  <2>2. TypeOK'
    BY <2>1 DEF chainVars, viewVars, Inv, TypeOK
  <2>3. OrphansApart' /\ OrphansWait'
    BY <2>1 DEF chainVars, Inv, OrphansApart, OrphansWait
  <2>4. IndexHasBranches' /\ BestOnRecord' /\ ForkChoice' /\ AttestedByBestChain'
    BY <2>1 DEF chainVars, Inv, IndexHasBranches, BestOnRecord, ForkChoice, AttestedByBestChain
  <2> QED BY <2>2, <2>3, <2>4 DEF Inv
<1>5. CASE BuildWork \/ BuildStake
  <2>1. BuildOn(best, Len(best) + 1)
    BY <1>5 DEF BuildWork, BuildStake
  <2>2. PICK p \in BuilderPayees(Len(best) + 1) : built' = Append(best, p)
    BY <2>1 DEF BuildOn
  <2>3. Len(best) + 1 <= MaxHeight /\ ChainUnchanged /\ UNCHANGED viewVars
    BY <2>1 DEF BuildOn, ChainUnchanged
  <2>4. best \in Seq(Payees) /\ Len(best) \in Nat
    BY BlockIsSeq, LenProperties DEF Inv, TypeOK
  <2>5. p \in Payees
    <3>1. \A w : IsPayeeAValidMasternode(w) /\ w \in Scripts \cup {NoPayee} /\ w # NoPayee => w \in Payees
      BY DEF Payees
    <3>2. GetEnforcedPayee(Len(best) + 1) \in Scripts \cup {NoPayee}
      BY <2>3, <2>4, <1>t DEF GetEnforcedPayee, Heights
    <3> QED BY <3>1, <3>2 DEF BuilderPayees
  <2>6. built' \in Blocks
    BY <2>2, <2>3, <2>4, <2>5, AppendProperties, BlockIsSeq
  <2> QED BY <2>3, <2>6, <1>f, <1>t DEF viewVars
<1>6. CASE SubmitBuilt
  <2>1. CASE Parent(built) # best \/ built \in index \/ built \in orphans
    <3>1. built' = Genesis /\ ChainUnchanged /\ UNCHANGED viewVars
      BY <1>6, <2>1 DEF SubmitBuilt, ChainUnchanged
    <3>2. Genesis \in Blocks
      BY GenesisIsBlock
    <3> QED BY <3>1, <3>2, <1>f, <1>t DEF viewVars
  <2>2. CASE ~(Parent(built) # best \/ built \in index \/ built \in orphans)
    <3>1. Genesis \in Blocks
      BY GenesisIsBlock
    <3>2. built \in Blocks \ {Genesis} /\ Parent(built) \in index
      BY <1>6, <2>2, <1>t DEF SubmitBuilt, Inv, TypeOK
    <3> QED BY <1>6, <2>2, <3>1, <3>2, ReceiveKeeps DEF SubmitBuilt
  <2> QED BY <2>1, <2>2
<1>7. ASSUME NEW h \in VotedHeights, NEW w \in Scripts \cup {NoPayee}, VotesChange(h, w) PROVE Inv'
  BY <1>7, <1>f, <1>s, <1>t DEF VotesChange, ChainUnchanged
<1>8. ASSUME NEW e \in SUBSET Scripts, ListChanges(e) PROVE Inv'
  BY <1>8, <1>f, <1>t DEF ListChanges, ChainUnchanged
<1>9. ASSUME NEW s \in Sporks, ProcessSpork(s) PROVE Inv'
  BY <1>9, <1>f, <1>t DEF ProcessSpork, ChainUnchanged
<1>10. CASE Restart
  <2>1. StartOn(best) /\ UNCHANGED <<index, best, ibd, rejected, stranded, vetted, onBest>>
    BY <1>10 DEF Restart
  <2>2. IndexHasBranches' /\ BestOnRecord' /\ ForkChoice'
    BY <2>1 DEF Inv, IndexHasBranches, BestOnRecord, ForkChoice
  <2> QED BY <2>1, <2>2, StartKeeps DEF Inv, TypeOK
<1>12. ASSUME NEW b \in UnderWay, CrashInAccept(b) PROVE Inv'
  BY <1>12, CrashKeeps
<1>11. CASE UNCHANGED vars
  BY <1>11, <1>f, <1>t DEF vars, ChainUnchanged, chainVars
<1> QED
  BY <1>1, <1>2, <1>3, <1>4, <1>5, <1>6, <1>7, <1>8, <1>9, <1>10, <1>11,
     <1>12 DEF Next

-----------------------------------------------------------------------------
\* For every instance: the chain state, the views and the histories keep their
\* types; in particular an entry of the attested payees is a height.
THEOREM EnforcementTypes == Spec => []TypeOK
<1>1. Inv => TypeOK
  BY DEF Inv
<1> QED BY <1>1, InitInv, StepInv, PTL DEF Spec

\* For every instance: AddToBlockIndex and SetBestChain leave the node on the
\* heaviest chain, but for blocks whose payee was refused and blocks whose
\* acceptance a crash cut off between its database transactions.
THEOREM HeaviestUnlessRefused == Spec => []ForkChoice
<1>1. Inv => ForkChoice
  BY DEF Inv
<1> QED BY <1>1, InitInv, StepInv, PTL DEF Spec

\* For every instance: the work queue of ProcessBlock leaves no orphan behind
\* whose parent was accepted.
THEOREM NoOrphanForgotten == Spec => []OrphansOnlyBehindRefused
<1>1. Inv => OrphansOnlyBehindRefused
  BY DEF Inv, OrphansWait, OrphansOnlyBehindRefused
<1> QED BY <1>1, InitInv, StepInv, PTL DEF Spec

\* For every instance: mapHistoricalPayees vouches only for payees of blocks
\* that were on the best chain, at their heights, also after a restart.
THEOREM AttestationIsEarned == Spec => []AttestedByBestChain
<1>1. Inv => AttestedByBestChain
  BY DEF Inv
<1> QED BY <1>1, InitInv, StepInv, PTL DEF Spec

\* A step that moves the tip outside initial download to a chain on top of it has
\* accepted the payee of the first new block, also when a crash cut it off.
LEMMA TipIsChecked ==
  ASSUME Inv, Next, best' # best, IsPrefix(best, best'), ~ibd'
  PROVE  PayeeAccepted(SubSeq(best', 1, Len(best) + 1))
<1>1. ASSUME NEW b, AcceptBlock(b) PROVE PayeeAccepted(SubSeq(best', 1, Len(best) + 1))
  <2>1. best' = b
    BY <1>1 DEF AcceptBlock
  <2>2. Heavier(b) /\ ~(ExtendsBest(b) /\ ~PayeeAccepted(CheckedBlock(b)))
    BY <1>1, <2>1 DEF AcceptBlock
  <2> QED BY <2>1, <2>2 DEF Heavier, ExtendsBest, CheckedBlock
<1>2. ASSUME NEW b \in UnderWay, CrashInAccept(b)
      PROVE  PayeeAccepted(SubSeq(best', 1, Len(best) + 1))
  <2>1. /\ Heavier(b) /\ best' \in CommittedBelow(b)
        /\ ExtendsBest(b) => PayeeAccepted(CheckedBlock(b))
    BY <1>2 DEF CrashInAccept
  <2>2. PICK n \in Len(best) + 1 .. Len(b) - 1 : best' = SubSeq(b, 1, n)
    BY <2>1 DEF CommittedBelow
  <2>3. b \in Blocks /\ best \in Blocks
    BY EnforcementConstants DEF UnderWay, Inv, TypeOK, OrphansApart
  <2>4. Len(best) \in Nat /\ Len(b) \in Nat /\ best \in Seq(Payees) /\ b \in Seq(Payees)
    BY <2>3, BlockIsSeq, LenProperties
  <2>5. n \in 0 .. Len(b) /\ Len(best) + 1 \in 0 .. n /\ Len(best) \in 0 .. n
    BY <2>4
  <2>6. best' \in Blocks /\ Len(best') = n /\ \A i \in 1 .. n : best'[i] = b[i]
    BY <2>2, <2>3, <2>5, BranchBlocks
  <2>7. /\ SubSeq(best', 1, Len(best) + 1) = SubSeq(b, 1, Len(best) + 1)
        /\ SubSeq(best', 1, Len(best)) = SubSeq(b, 1, Len(best))
    BY <2>3, <2>5, <2>6, PartOfPart
  <2>8. IsPrefix(best, b)
    BY <2>1, <2>4, <2>6, <2>7 DEF IsPrefix, Heavier
  <2> QED BY <2>1, <2>7, <2>8 DEF ExtendsBest, Heavier, CheckedBlock
<1>3. ASSUME NEW b \in Supply, ReceiveBlock(b) PROVE AcceptBlock(b)
  BY <1>3 DEF ReceiveBlock
<1>4. ASSUME NEW o \in orphans, AcceptOrphan(o) PROVE AcceptBlock(o)
  BY <1>4 DEF AcceptOrphan
<1>5. SubmitBuilt => AcceptBlock(built)
  BY DEF SubmitBuilt, chainVars
<1>6. ASSUME NEW b \in Supply PROVE ~ReceiveOrphan(b)
  BY DEF ReceiveOrphan, chainVars
<1>7. /\ ~FinishProcessBlock /\ ~BuildWork /\ ~BuildStake /\ ~Restart
      /\ \A h \in VotedHeights, w \in Scripts \cup {NoPayee} : ~VotesChange(h, w)
      /\ \A e \in SUBSET Scripts : ~ListChanges(e)
      /\ \A s \in Sporks : ~ProcessSpork(s)
  BY DEF FinishProcessBlock, BuildWork, BuildStake, BuildOn, Restart, VotesChange, ListChanges,
         ProcessSpork, chainVars
<1> QED BY <1>1, <1>2, <1>3, <1>4, <1>5, <1>6, <1>7 DEF Next

\* For every instance: whatever extends the tip outside initial download pays
\* the voted winner of the height, if there is one, or devops.
THEOREM TipPaysWinner == Spec => WinnerEnforcedAtTip
<1> DEFINE b == SubSeq(best', 1, Len(best) + 1)
           Step == best' # best /\ IsPrefix(best, best') /\ ~ibd'
                     => GetEnforcedPayee(Len(b)) \in {NoPayee, Payee(b)} \/ Payee(b) = Devops
<1>1. Inv /\ [Next]_vars => [Step]_vars
  <2> SUFFICES ASSUME Inv, Next, best' # best, IsPrefix(best, best'), ~ibd'
               PROVE  GetEnforcedPayee(Len(b)) \in {NoPayee, Payee(b)} \/ Payee(b) = Devops
    OBVIOUS
  <2>1. PayeeAccepted(b)
    BY TipIsChecked
  <2> QED BY <2>1 DEF PayeeAccepted
<1> QED BY <1>1, InitInv, StepInv, PTL DEF Spec, WinnerEnforcedAtTip
=============================================================================
