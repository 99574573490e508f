-------------------------- MODULE TemplatesProofs --------------------------
(***************************************************************************)
(* What the pool's integer arithmetic on difficulties is worth, for hashes *)
(* of any width, and that the miners and monerod get the benefit of it     *)
(* whatever the templates are; that the block the pool submits is          *)
(* monerod's; that the package blocktemplate reads every block it can be   *)
(* offered, writes the same bytes again, and takes the right reward from   *)
(* a blob that was cut short; and that the pool hashes what the miner and  *)
(* monerod hash: for blocks with any number of transactions and bytes of   *)
(* any width.                                                              *)
(***************************************************************************)
EXTENDS Templates, SequenceTheorems, FiniteSetTheorems, TLAPS

(* A quotient that is rounded down, as big.Int.Div does *)
LEMMA DivBounds ==
    ASSUME NEW n \in Nat, NEW m \in Nat, m > 0
    PROVE  /\ n \div m \in Nat
           /\ (n \div m) * m =< n
           /\ n < (n \div m + 1) * m
BY SMT

LEMMA DivLarge ==
    ASSUME NEW n \in Nat, NEW m \in Nat, m > 0, NEW k \in Nat
    PROVE  k =< n \div m <=> k * m =< n
<1> DEFINE q == n \div m
<1>1. q \in Nat /\ q * m =< n /\ n < (q + 1) * m
    BY DivBounds
<1> HIDE DEF q
<1>2. ASSUME k =< q PROVE k * m =< n
    <2>1. k * m =< q * m
        BY <1>1, <1>2
    <2> QED
        BY <2>1, <1>1
<1>3. ASSUME k * m =< n PROVE k =< q
    <2>1. k * m < (q + 1) * m
        BY <1>1, <1>3
    <2>2. k < q + 1
        BY <2>1, <1>1
    <2> QED
        BY <2>2, <1>1
<1> QED
    BY <1>2, <1>3 DEF q

(* hashDiff.Cmp(t.difficulty) >= 0 in processShare is exactly the test of  *)
(* monerod: the pool submits every hash monerod takes for a block, and no  *)
(* other, whatever rounding GetHashDifficulty does.                        *)
THEOREM BlockIffMonerodAccepts ==
    ASSUME NEW hash \in Nat \ {0}, NEW diff \in Difficulties
    PROVE  IsBlock(hash, diff) <=> MonerodAccepts(hash, diff)
<1>1. diff =< Diff1 \div hash <=> diff * hash =< Diff1
    BY DivLarge, TargetsAssumption DEF Difficulties
<1>2. diff * hash = hash * diff
    BY DEF Difficulties
<1>3. Diff1 \div hash \in Nat
    BY DivBounds, TargetsAssumption
<1> QED
    BY <1>1, <1>2, <1>3 DEF IsBlock, HashDifficulty, MonerodAccepts, Difficulties

(* A hash below the target that GetTargetHex gives for a difficulty has at *)
(* least that difficulty: cutting the target to four bytes only makes it   *)
(* harder, so a miner that does what its job says is never told that its   *)
(* share has a low difficulty.                                             *)
THEOREM TargetSuffices ==
    ASSUME NEW hash \in Nat \ {0}, NEW shareDiff \in Difficulties,
           NEW blockDiff \in Difficulties,
           MeetsTarget(hash, TargetOf(shareDiff))
    PROVE  Verdict(hash, blockDiff, shareDiff) \in {"block", "share"}
<1> DEFINE best == Diff1 \div shareDiff
           top == hash \div TargetUnit
           target == best \div TargetUnit
<1>1. best \in Nat /\ best * shareDiff =< Diff1
    BY DivBounds, TargetsAssumption DEF Difficulties
<1>2. top \in Nat /\ hash < (top + 1) * TargetUnit
    BY DivBounds, TargetsAssumption
<1>3. target \in Nat /\ target * TargetUnit =< best
    BY <1>1, DivBounds, TargetsAssumption
<1>4. top + 1 =< target
    BY <1>2, <1>3 DEF MeetsTarget, TargetOf
<1> HIDE DEF best, top, target
<1>5. (top + 1) * TargetUnit =< target * TargetUnit
    BY <1>2, <1>3, <1>4, TargetsAssumption
<1>6. hash =< best
    BY <1>1, <1>2, <1>3, <1>5, TargetsAssumption
<1>7. shareDiff * hash =< best * shareDiff
    BY <1>1, <1>6 DEF Difficulties
<1>8. shareDiff * hash =< Diff1
    BY <1>1, <1>7, TargetsAssumption DEF Difficulties
<1>9. shareDiff =< Diff1 \div hash
    BY <1>8, DivLarge, TargetsAssumption DEF Difficulties
<1>10. ~(Diff1 \div hash < shareDiff)
    BY <1>9, DivBounds, TargetsAssumption DEF Difficulties
<1> QED
    BY <1>10 DEF Verdict, IsLow, HashDifficulty

-----------------------------------------------------------------------------
(* Verdicts on shares *)

(* A hash is read as a number. *)
HashIsNumber == \A blob : Hash(blob) \in Nat

(* Jobs have the target of the endpoint, and a share that is not bad was   *)
(* judged by its hash.                                                     *)
VerdictInv ==
    /\ \E J : jobs \in Seq(J) /\ \A job \in J : job.target = TargetOf(Difficulty)
    /\ share # NoShare =>
          /\ share.job.target = TargetOf(Difficulty)
          /\ share.hash \in Nat
          /\ share.ok => share.verdict = Verdict(share.hash, BlockDifficulty, Difficulty)

LEMMA NextVerdictInv ==
    ASSUME HashIsNumber, VerdictInv, [Next]_vars
    PROVE  VerdictInv'
<1>1. PICK J : jobs \in Seq(J) /\ \A job \in J : job.target = TargetOf(Difficulty)
  BY DEF VerdictInv
<1>2. ASSUME UNCHANGED <<jobs, share>> PROVE VerdictInv'
  BY <1>2 DEF VerdictInv
<1>3. CASE GetJob
  <2>1. PICK job : job = NextJob
    OBVIOUS
  <2>2. job.target = TargetOf(Difficulty)
    BY <2>1 DEF NextJob
  <2>3. jobs' = Append(jobs, job) /\ share' = share
    BY <1>3, <2>1 DEF GetJob
  <2>4. jobs' \in Seq(J \cup {job})
    BY <1>1, <2>3
  <2>5. \A j \in J \cup {job} : j.target = TargetOf(Difficulty)
    BY <1>1, <2>2
  <2>6. QED
    BY <2>3, <2>4, <2>5 DEF VerdictInv
<1>4. ASSUME NEW i \in DOMAIN jobs, NEW nonce \in MinerNonces, Submit(jobs[i], nonce)
      PROVE  VerdictInv'
  <2>1. PICK buffer, blob : share' = ShareOf(jobs[i], nonce, buffer, blob, Hash(blob))
    BY <1>4 DEF Submit
  <2>2. jobs' = jobs /\ jobs[i].target = TargetOf(Difficulty) /\ Hash(blob) \in Nat
    BY <1>1, <1>4 DEF Submit, HashIsNumber
  <2>3. /\ share'.job = jobs[i] /\ share'.hash = Hash(blob)
        /\ share'.ok => share'.verdict = Verdict(Hash(blob), BlockDifficulty, Difficulty)
    BY <2>1 DEF ShareOf
  <2>4. QED
    BY <2>2, <2>3, <1>1 DEF VerdictInv
<1>5. CASE Fetch \/ (\E prev \in Prevs, height \in Heights : NewTip(prev, height)) \/ UNCHANGED vars
  BY <1>2, <1>5 DEF Fetch, NewTip, vars
<1>6. QED
  BY <1>3, <1>4, <1>5 DEF Next

LEMMA VerdictAlways ==
    ASSUME HashIsNumber
    PROVE  Spec => []VerdictInv
<1>1. Init => VerdictInv
  <2> SUFFICES ASSUME Init PROVE VerdictInv
    OBVIOUS
  <2>1. jobs \in Seq({}) /\ share = NoShare
    BY DEF Init
  <2>2. QED
    BY <2>1 DEF VerdictInv
<1>2. VerdictInv /\ [Next]_vars => VerdictInv'
  BY NextVerdictInv
<1>3. QED
  BY <1>1, <1>2, PTL DEF Spec

(* A miner that hashed what its job says and met its target is never told  *)
(* that its share has a low difficulty, whatever template was current when *)
(* it answered.                                                            *)
THEOREM TargetsSuffice ==
    ASSUME HashIsNumber
    PROVE  Spec => []TargetSufficient
<1>1. VerdictInv => TargetSufficient
  BY TargetSuffices, TemplatesAssumption DEF VerdictInv, TargetSufficient
<1>2. QED
  BY <1>1, VerdictAlways, PTL

(* Of the shares that are not refused as bad, processShare submits exactly *)
(* those whose hash monerod takes for a block of the template's difficulty.*)
THEOREM SubmittedIffMonerods ==
    ASSUME HashIsNumber
    PROVE  Spec => []SubmitsMonerodsBlocks
<1>1. VerdictInv => SubmitsMonerodsBlocks
  <2> SUFFICES ASSUME VerdictInv, share # NoShare, share.ok
               PROVE  share.verdict = "block"
                          <=> share.hash # 0 /\ MonerodAccepts(share.hash, BlockDifficulty)
    BY DEF SubmitsMonerodsBlocks
  <2>1. /\ share.hash \in Nat
        /\ share.verdict = Verdict(share.hash, BlockDifficulty, Difficulty)
    BY DEF VerdictInv
  <2>2. share.verdict = "block" <=> share.hash # 0 /\ IsBlock(share.hash, BlockDifficulty)
    BY <2>1 DEF Verdict
  <2>3. QED
    BY <2>1, <2>2, BlockIffMonerodAccepts, TemplatesAssumption
<1>2. QED
  BY <1>1, VerdictAlways, PTL

-----------------------------------------------------------------------------
(* The pieces of a sequence may be put together from the left or the right. *)
Cat(s, t) == s \o t

LEMMA CatType ==
    ASSUME NEW S, NEW s \in Seq(S), NEW t \in Seq(S)
    PROVE  Cat(s, t) \in Seq(S) /\ Len(Cat(s, t)) = Len(s) + Len(t)
BY DEF Cat

LEMMA CatAssociative ==
    ASSUME NEW S, NEW s \in Seq(S), NEW t \in Seq(S), NEW u \in Seq(S)
    PROVE  Cat(Cat(s, t), u) = Cat(s, Cat(t, u))
BY DEF Cat

(* Sequences, where nothing but their concatenation matters *)
Words(S) == Seq(S)

LEMMA WordType ==
    ASSUME NEW S, NEW x \in Words(S), NEW y \in Words(S)
    PROVE  Cat(x, y) \in Words(S)
BY CatType DEF Words

LEMMA WordAssociative ==
    ASSUME NEW S, NEW x \in Words(S), NEW y \in Words(S), NEW z \in Words(S)
    PROVE  Cat(Cat(x, y), z) = Cat(x, Cat(y, z))
BY CatAssociative DEF Words

LEMMA WordLength ==
    ASSUME NEW S, NEW x \in Words(S), NEW y \in Words(S)
    PROVE  Len(x) \in Nat /\ Len(Cat(x, y)) = Len(x) + Len(y)
BY CatType, LenProperties DEF Words

LEMMA CatThree ==
    ASSUME NEW S, NEW a \in Seq(S), NEW p \in Seq(S), NEW q \in Seq(S), NEW r \in Seq(S)
    PROVE  /\ Cat(Cat(Cat(a, p), q), r) = Cat(a, Cat(Cat(p, q), r))
           /\ Cat(Cat(p, q), r) \in Seq(S)
<1> DEFINE b == Cat(p, q)
<1>1. b \in Seq(S) /\ Cat(Cat(a, p), q) = Cat(a, b)
  BY CatType, CatAssociative
<1>2. Cat(Cat(a, b), r) = Cat(a, Cat(b, r)) /\ Cat(b, r) \in Seq(S)
  BY <1>1, CatType, CatAssociative
<1>3. QED
  BY <1>1, <1>2

-----------------------------------------------------------------------------
(* Writing into the middle of a sequence *)

LEMMA CopyMiddle ==
    ASSUME NEW S, NEW p \in Words(S), NEW x \in Words(S), NEW q \in Words(S), NEW y \in Words(S),
           Len(y) = Len(x)
    PROVE  Copy(Cat(Cat(p, x), q), Len(p), y) = Cat(Cat(p, y), q)
<1> USE DEF Words
<1> DEFINE old == (p \o x) \o q
           new == (p \o y) \o q
           m == Len(p)
           k == Len(x)
           n == Len(p) + Len(x) + Len(q)
<1>1. m \in Nat /\ k \in Nat /\ Len(q) \in Nat /\ n = m + k + Len(q)
  BY LenProperties
<1>2. /\ old \in Seq(S) /\ new \in Seq(S) /\ Len(old) = n /\ Len(new) = n
      /\ Len(p \o x) = m + k /\ Len(p \o y) = m + k
  <2>1. /\ p \o x \in Seq(S) /\ p \o y \in Seq(S)
        /\ Len(p \o x) = m + k /\ Len(p \o y) = m + k
    <3>1. p \o x \in Seq(S) /\ Len(p \o x) = Len(p) + Len(x)
      BY ConcatProperties
    <3>2. p \o y \in Seq(S) /\ Len(p \o y) = Len(p) + Len(y)
      BY ConcatProperties
    <3>3. QED
      BY <3>1, <3>2
  <2>2. PICK s, t : s = p \o x /\ t = p \o y
    OBVIOUS
  <2>3. /\ s \o q \in Seq(S) /\ t \o q \in Seq(S)
        /\ Len(s \o q) = Len(s) + Len(q) /\ Len(t \o q) = Len(t) + Len(q)
    BY <2>1, <2>2, ConcatProperties
  <2>4. QED
    BY <2>1, <2>2, <2>3
<1>3. DOMAIN old = 1 .. n /\ DOMAIN new = 1 .. n /\ DOMAIN y = 1 .. k
  BY <1>2, LenProperties
<1>4. ASSUME NEW i \in 1 .. n
      PROVE  new[i] = IF i - m \in 1 .. k THEN y[i - m] ELSE old[i]
  <2>1. CASE i =< m
    BY <1>1, <1>2, <2>1
  <2>2. CASE m < i /\ i =< m + k
    BY <1>1, <1>2, <2>2
  <2>3. CASE m + k < i
    BY <1>1, <1>2, <2>3
  <2>4. QED
    BY <1>1, <2>1, <2>2, <2>3
<1>5. new = [i \in 1 .. n |-> new[i]]
  <2>1. new \in [1 .. Len(new) -> S]
    BY <1>2, LenProperties
  <2> HIDE DEF new, n
  <2>2. QED
    BY <1>2, <2>1
<1>6. Copy(old, m, y) = [i \in 1 .. n |-> IF i - m \in 1 .. k THEN y[i - m] ELSE old[i]]
  BY <1>3 DEF Copy
<1> HIDE DEF old, new, m, k, n
<1>7. Copy(old, m, y) = new
  BY <1>4, <1>5, <1>6
<1>8. QED
  BY <1>7 DEF old, new, m, Cat

-----------------------------------------------------------------------------
(* The recursion of PackVarInt.  That a function solves it is shown by     *)
(* putting it together from solutions up to any bound; induction is        *)
(* reasoning about the least counterexample.                               *)

LEMMA Least ==
    ASSUME NEW T, T \subseteq Nat, T # {}
    PROVE  \E k \in T : \A j \in T : k =< j
<1>1. PICK n \in T : n \in Nat
  OBVIOUS
<1> DEFINE below == {k \in T : k =< n}
           sets == {1 .. k : k \in below}
<1>2. IsFiniteSet(1 .. n)
  BY <1>1, FS_Interval
<1>3. IsWellFoundedOn(StrictSubsetOrdering(1 .. n), SUBSET (1 .. n))
  BY <1>2, FS_StrictSubsetOrderingWellFounded, FS_FiniteSubsetsOfFinite
<1>4. sets \subseteq SUBSET (1 .. n) /\ sets # {}
  <2>1. n \in below
    BY <1>1
  <2>2. \A k \in below : k \in Nat /\ k =< n
    OBVIOUS
  <2> HIDE DEF below
  <2>3. QED
    BY <1>1, <2>1, <2>2
<1>5. PICK x \in sets : \A y \in sets : ~(<<y, x>> \in StrictSubsetOrdering(1 .. n))
  <2> HIDE DEF sets
  <2>1. QED
    BY <1>3, <1>4, WFMin
<1>6. PICK k \in below : x = 1 .. k
  OBVIOUS
<1>7. k \in T /\ k \in Nat /\ k =< n
  BY <1>6
<1>8. ASSUME NEW j \in T, j < k PROVE FALSE
  <2>1. j \in Nat /\ j =< n
    BY <1>1, <1>7, <1>8
  <2>2. 1 .. j \in sets
    BY <1>8, <2>1
  <2>3. 1 .. j \subseteq 1 .. k /\ k \in 1 .. k /\ k \notin 1 .. j
    BY <1>7, <1>8, <2>1
  <2>4. <<1 .. j, x>> \in StrictSubsetOrdering(1 .. n)
    BY <1>4, <1>6, <2>2, <2>3 DEF StrictSubsetOrdering
  <2>5. QED
    BY <1>5, <2>2, <2>4
<1>9. \A j \in T : j \in Nat
  OBVIOUS
<1>10. QED
  BY <1>7, <1>8, <1>9

(* f solves the recursion on its domain D. *)
IsPack(f, D) ==
    f = [n \in D |-> IF n < Base THEN <<n>> ELSE <<(n % Base) + Base>> \o f[n \div Base]]

LEMMA Digits ==
    ASSUME NEW n \in Nat
    PROVE  /\ n \div Base \in Nat /\ n % Base \in 0 .. Base - 1
           /\ Base =< n => n \div Base < n
<1>1. Base \in Nat /\ 1 < Base
  BY CodecAssumption
<1>2. n \div Base \in Nat /\ (n \div Base) * Base =< n /\ n % Base \in 0 .. Base - 1
  BY <1>1
<1> DEFINE q == n \div Base
<1>3. q \in Nat /\ q * Base =< n
  BY <1>2
<1> HIDE DEF q
<1>4. Base =< n => q < n
  <2> SUFFICES ASSUME Base =< n, n =< q PROVE FALSE
    BY <1>3
  <2>1. q * 2 =< q * Base
    BY <1>1, <1>3
  <2>2. q * Base \in Int
    BY <1>1, <1>3
  <2>3. q * 2 =< n /\ 0 < n
    BY <1>1, <1>3, <2>1, <2>2
  <2>4. QED
    BY <1>3, <2>3
<1>5. QED
  BY <1>2, <1>4 DEF q

(* Two solutions agree where both are defined. *)
LEMMA PackUnique ==
    ASSUME NEW m \in Nat, NEW k \in Nat, NEW f, NEW g, IsPack(f, 0 .. m), IsPack(g, 0 .. k)
    PROVE  \A n \in (0 .. m) \cap (0 .. k) : f[n] = g[n]
<1> DEFINE bad == {n \in (0 .. m) \cap (0 .. k) : f[n] # g[n]}
<1>1. SUFFICES ASSUME bad # {} PROVE FALSE
  OBVIOUS
<1>2. PICK n \in bad : \A j \in bad : n =< j
  <2>1. bad \subseteq Nat
    OBVIOUS
  <2> HIDE DEF bad
  <2>2. QED
    BY <1>1, <2>1, Least
<1>3. n \in Nat /\ n =< m /\ n =< k /\ f[n] # g[n]
  BY <1>2
<1>4. /\ f[n] = IF n < Base THEN <<n>> ELSE <<(n % Base) + Base>> \o f[n \div Base]
      /\ g[n] = IF n < Base THEN <<n>> ELSE <<(n % Base) + Base>> \o g[n \div Base]
  BY <1>3 DEF IsPack
<1>5. Base \in Nat
  BY CodecAssumption
<1>6. n \div Base \in Nat /\ n \div Base < n
  BY <1>3, <1>4, <1>5, Digits
<1>7. f[n \div Base] # g[n \div Base]
  BY <1>3, <1>4
<1>8. n \div Base \in bad
  BY <1>3, <1>6, <1>7
<1>9. QED
  BY <1>2, <1>3, <1>6, <1>8

LEMMA PackUpTo ==
    ASSUME NEW m \in Nat
    PROVE  \E f : IsPack(f, 0 .. m)
<1> DEFINE bad == {n \in Nat : ~\E f : IsPack(f, 0 .. n)}
<1>1. SUFFICES ASSUME bad # {} PROVE FALSE
  OBVIOUS
<1>2. PICK n \in bad : \A j \in bad : n =< j
  <2>1. bad \subseteq Nat
    OBVIOUS
  <2> HIDE DEF bad
  <2>2. QED
    BY <1>1, <2>1, Least
<1>3. n \in Nat /\ ~\E f : IsPack(f, 0 .. n)
  BY <1>2
<1>4. Base \in Nat /\ 1 < Base
  BY CodecAssumption
<1>5. CASE n = 0
  <2> DEFINE f == [j \in 0 .. 0 |-> <<j>>]
  <2>1. \A j \in 0 .. 0 : j < Base
    BY <1>4
  <2>2. IsPack(f, 0 .. 0)
    BY <2>1 DEF IsPack
  <2>3. QED
    BY <1>3, <1>5, <2>2
<1>6. CASE n # 0
  <2>1. n - 1 \in Nat /\ ~(n =< n - 1)
    BY <1>3, <1>6
  <2>2. PICK f : IsPack(f, 0 .. n - 1)
    BY <1>2, <2>1
  <2> DEFINE step(j) == IF j < Base THEN <<j>> ELSE <<(j % Base) + Base>> \o f[j \div Base]
             g == [j \in 0 .. n |-> step(j)]
  <2>3. \A j \in 0 .. n - 1 : g[j] = f[j]
    <3>1. ASSUME NEW j \in 0 .. n - 1 PROVE g[j] = f[j]
      <4>1. j \in 0 .. n
        BY <1>3
      <4>2. f[j] = step(j)
        BY <2>2 DEF IsPack
      <4>3. QED
        BY <4>1, <4>2
    <3>2. QED
      BY <3>1
  <2>4. ASSUME NEW j \in 0 .. n, ~(j < Base) PROVE f[j \div Base] = g[j \div Base]
    <3>1. j \in Nat /\ Base =< j /\ j =< n
      BY <1>3, <1>4, <2>4
    <3>2. j \div Base \in Nat /\ j \div Base < j
      BY <3>1, Digits
    <3>3. j \div Base \in 0 .. n - 1
      BY <1>3, <3>1, <3>2
    <3> HIDE DEF g
    <3>4. QED
      BY <2>3, <3>3
  <2>5. \A j \in 0 .. n : step(j) = IF j < Base THEN <<j>>
                                    ELSE <<(j % Base) + Base>> \o g[j \div Base]
    <3> HIDE DEF g
    <3>1. QED
      BY <2>4
  <2>6. g = [j \in 0 .. n |-> IF j < Base THEN <<j>> ELSE <<(j % Base) + Base>> \o g[j \div Base]]
    BY <2>5, Zenon
  <2> HIDE DEF g
  <2>7. IsPack(g, 0 .. n)
    BY <2>6 DEF IsPack
  <2>8. QED
    BY <1>3, <2>7
<1>7. QED
  BY <1>5, <1>6

LEMMA PackExists == \E f : IsPack(f, Nat)
<1> DEFINE part(n) == CHOOSE f : IsPack(f, 0 .. n)
           g == [n \in Nat |-> part(n)[n]]
<1>1. ASSUME NEW n \in Nat PROVE IsPack(part(n), 0 .. n)
  BY PackUpTo
<1> HIDE DEF part
<1>2. ASSUME NEW n \in Nat
      PROVE  g[n] = IF n < Base THEN <<n>> ELSE <<(n % Base) + Base>> \o g[n \div Base]
  <2>1. n \in 0 .. n /\ Base \in Nat
    BY CodecAssumption
  <2>2. part(n)[n] = IF n < Base THEN <<n>> ELSE <<(n % Base) + Base>> \o part(n)[n \div Base]
    BY <1>1, <2>1 DEF IsPack
  <2>3. ASSUME ~(n < Base) PROVE part(n)[n \div Base] = g[n \div Base]
    <3>1. Base =< n
      BY <2>1, <2>3
    <3>2. n \div Base \in Nat /\ n \div Base < n
      BY <3>1, Digits
    <3>3. PICK q \in Nat : q = n \div Base /\ q =< n
      BY <3>2
    <3>4. q \in (0 .. n) \cap (0 .. q)
      BY <3>3
    <3>5. IsPack(part(n), 0 .. n) /\ IsPack(part(q), 0 .. q)
      BY <1>1, <3>3
    <3>6. part(n)[q] = part(q)[q]
      BY <3>3, <3>4, <3>5, PackUnique
    <3>7. QED
      BY <3>3, <3>6
  <2>4. QED
    BY <2>2, <2>3
<1> HIDE DEF g
<1>3. g = [n \in Nat |-> g[n]]
  BY DEF g
<1>4. g = [n \in Nat |-> IF n < Base THEN <<n>> ELSE <<(n % Base) + Base>> \o g[n \div Base]]
  BY <1>2, <1>3, Zenon
<1>5. QED
  BY <1>4 DEF IsPack

(* PackVarInt is a solution. *)
LEMMA PackVarIntIs ==
    ASSUME NEW n \in Nat
    PROVE  PackVarInt[n] = IF n < Base THEN <<n>>
                           ELSE <<(n % Base) + Base>> \o PackVarInt[n \div Base]
<1>1. PackVarInt = CHOOSE f : IsPack(f, Nat)
  BY Zenon DEF PackVarInt, IsPack
<1>2. IsPack(PackVarInt, Nat)
  BY <1>1, PackExists
<1>3. QED
  BY <1>2 DEF IsPack

LEMMA FunctionIsSeq ==
    ASSUME NEW S, NEW n \in Nat, NEW f \in [1 .. n -> S]
    PROVE  f \in Seq(S) /\ Len(f) = n
OBVIOUS

LEMMA OneByte ==
    ASSUME NEW S, NEW x \in S
    PROVE  <<x>> \in Seq(S) /\ Len(<<x>>) = 1
OBVIOUS

LEMMA PackShort ==
    ASSUME NEW n \in Nat, n < Base
    PROVE  PackVarInt[n] \in Seq(Int) /\ Len(PackVarInt[n]) = 1
<1>1. PackVarInt[n] = <<n>>
  BY PackVarIntIs
<1>2. n \in Int
  OBVIOUS
<1>3. QED
  BY <1>1, <1>2, OneByte

LEMMA PackLong ==
    ASSUME NEW n \in Nat, Base =< n, PackVarInt[n \div Base] \in Seq(Int)
    PROVE  /\ PackVarInt[n] \in Seq(Int)
           /\ Len(PackVarInt[n]) = 1 + Len(PackVarInt[n \div Base])
<1>1. PICK d : d = (n % Base) + Base
  OBVIOUS
<1>2. ~(n < Base)
  BY CodecAssumption
<1>3. PackVarInt[n] = <<d>> \o PackVarInt[n \div Base]
  BY <1>1, <1>2, PackVarIntIs
<1>4. d \in Int
  BY <1>1, CodecAssumption
<1>5. QED
  BY <1>3, <1>4, OneByte, ConcatProperties

(* A varint is a sequence, of one byte if seven bits are enough. *)
LEMMA PackVarIntSeq ==
    ASSUME NEW n \in Nat
    PROVE  /\ PackVarInt[n] \in Seq(Int)
           /\ n < Base => Len(PackVarInt[n]) = 1
<1> DEFINE bad == {k \in Nat : PackVarInt[k] \notin Seq(Int)}
<1>1. Base \in Nat /\ 1 < Base
  BY CodecAssumption
<1>2. bad = {}
  <2> SUFFICES ASSUME bad # {} PROVE FALSE
    OBVIOUS
  <2>1. PICK k \in bad : \A j \in bad : k =< j
    <3>1. bad \subseteq Nat
      OBVIOUS
    <3> HIDE DEF bad
    <3>2. QED
      BY <3>1, Least
  <2>2. k \in Nat /\ PackVarInt[k] \notin Seq(Int)
    BY <2>1
  <2>3. Base =< k
    BY <1>1, <2>2, PackShort
  <2>4. PICK q \in Nat : q = k \div Base /\ ~(k =< q)
    BY <2>2, <2>3, Digits
  <2>5. PackVarInt[q] \in Seq(Int)
    BY <2>1, <2>4
  <2>6. QED
    BY <2>2, <2>3, <2>4, <2>5, PackLong
<1>3. PackVarInt[n] \in Seq(Int)
  BY <1>2
<1>4. QED
  BY <1>3, PackShort

-----------------------------------------------------------------------------
(* The recursion of FlattenSeq, in the same way *)

IsFlat(f, seqs, n) ==
    f = [i \in 1 .. n |-> IF i = 1 THEN seqs[i] ELSE f[i - 1] \o seqs[i]]

(* The recursion of FlattenSeq has a solution too. *)
LEMMA FlatExists ==
    ASSUME NEW seqs, NEW m \in Nat
    PROVE  \E f : IsFlat(f, seqs, m)
<1> DEFINE bad == {n \in Nat : ~\E f : IsFlat(f, seqs, n)}
<1>1. SUFFICES ASSUME bad # {} PROVE FALSE
  OBVIOUS
<1>2. PICK n \in bad : \A j \in bad : n =< j
  <2>1. bad \subseteq Nat
    OBVIOUS
  <2> HIDE DEF bad
  <2>2. QED
    BY <1>1, <2>1, Least
<1>3. n \in Nat /\ ~\E f : IsFlat(f, seqs, n)
  BY <1>2
<1>4. CASE n = 0
  <2> DEFINE f == [i \in 1 .. 0 |-> seqs[i]]
  <2>1. 1 .. 0 = {}
    OBVIOUS
  <2>2. IsFlat(f, seqs, 0)
    BY <2>1 DEF IsFlat
  <2>3. QED
    BY <1>3, <1>4, <2>2
<1>5. CASE n # 0
  <2>1. n - 1 \in Nat /\ ~(n =< n - 1)
    BY <1>3, <1>5
  <2>2. PICK f : IsFlat(f, seqs, n - 1)
    BY <1>2, <2>1
  <2> DEFINE step(i) == IF i = 1 THEN seqs[i] ELSE f[i - 1] \o seqs[i]
             g == [i \in 1 .. n |-> step(i)]
  <2>3. \A i \in 1 .. n - 1 : g[i] = f[i]
    <3>1. ASSUME NEW i \in 1 .. n - 1 PROVE g[i] = f[i]
      <4>1. i \in 1 .. n
        BY <1>3
      <4>2. f[i] = step(i)
        BY <2>2 DEF IsFlat
      <4>3. QED
        BY <4>1, <4>2
    <3>2. QED
      BY <3>1
  <2>4. ASSUME NEW i \in 1 .. n, i # 1 PROVE f[i - 1] = g[i - 1]
    <3>1. i - 1 \in 1 .. n - 1
      BY <1>3, <2>4
    <3> HIDE DEF g
    <3>2. QED
      BY <2>3, <3>1
  <2>5. \A i \in 1 .. n : step(i) = IF i = 1 THEN seqs[i] ELSE g[i - 1] \o seqs[i]
    <3> HIDE DEF g
    <3>1. QED
      BY <2>4
  <2>6. g = [i \in 1 .. n |-> IF i = 1 THEN seqs[i] ELSE g[i - 1] \o seqs[i]]
    BY <2>5, Zenon
  <2> HIDE DEF g
  <2>7. IsFlat(g, seqs, n)
    BY <2>6 DEF IsFlat
  <2>8. QED
    BY <1>3, <2>7
<1>6. QED
  BY <1>4, <1>5

LEMMA FlatSeqs ==
    ASSUME NEW S, NEW seqs \in Seq(Seq(S)), NEW f, IsFlat(f, seqs, Len(seqs)),
           NEW m \in 1 .. Len(seqs)
    PROVE  f[m] \in Seq(S)
<1> DEFINE bad == {i \in 1 .. Len(seqs) : f[i] \notin Seq(S)}
<1>1. SUFFICES ASSUME bad # {} PROVE FALSE
  OBVIOUS
<1>2. PICK i \in bad : \A j \in bad : i =< j
  <2>1. bad \subseteq Nat
    OBVIOUS
  <2> HIDE DEF bad
  <2>2. QED
    BY <1>1, <2>1, Least
<1>3. i \in 1 .. Len(seqs) /\ f[i] \notin Seq(S) /\ seqs[i] \in Seq(S)
  BY <1>2
<1>4. f[i] = IF i = 1 THEN seqs[i] ELSE f[i - 1] \o seqs[i]
  BY <1>3 DEF IsFlat
<1>5. CASE i = 1
  BY <1>3, <1>4, <1>5
<1>6. CASE i # 1
  <2>1. i - 1 \in 1 .. Len(seqs) /\ ~(i =< i - 1)
    BY <1>3, <1>6
  <2>2. f[i - 1] \in Seq(S)
    BY <1>2, <2>1
  <2>3. f[i - 1] \o seqs[i] \in Seq(S)
    BY <1>3, <2>2, ConcatProperties
  <2>4. QED
    BY <1>3, <1>4, <1>6, <2>3
<1>7. QED
  BY <1>5, <1>6

(* Flattening sequences of S gives a sequence of S. *)
LEMMA FlattenSeqs ==
    ASSUME NEW S, NEW seqs \in Seq(Seq(S))
    PROVE  /\ FlattenSeq(seqs) \in Seq(S)
           /\ Len(seqs) = 0 => FlattenSeq(seqs) = <<>>
           /\ Len(seqs) = 1 => FlattenSeq(seqs) = seqs[1]
<1>1. CASE Len(seqs) = 0
  BY <1>1 DEF FlattenSeq
<1>2. CASE Len(seqs) # 0
  <2> DEFINE f == CHOOSE g : IsFlat(g, seqs, Len(seqs))
  <2>1. FlattenSeq(seqs) = f[Len(seqs)]
    BY <1>2, Zenon DEF FlattenSeq, IsFlat
  <2>2. Len(seqs) \in 1 .. Len(seqs)
    BY <1>2, LenProperties
  <2>3. IsFlat(f, seqs, Len(seqs))
    <3>1. Len(seqs) \in Nat
      BY LenProperties
    <3>2. \E g : IsFlat(g, seqs, Len(seqs))
      BY <3>1, FlatExists
    <3>3. QED
      BY <3>2
  <2> HIDE DEF f
  <2>4. FlattenSeq(seqs) \in Seq(S)
    BY <2>1, <2>2, <2>3, FlatSeqs
  <2>5. f[1] = seqs[1]
    BY <2>2, <2>3 DEF IsFlat
  <2>6. QED
    BY <1>2, <2>1, <2>4, <2>5
<1>3. QED
  BY <1>1, <1>2

-----------------------------------------------------------------------------
(* The parts of a block in binary form *)

(* What monerod offers, as far as its layout goes *)
WellFormed ==
    [major : 0 .. Base - 1, minor : 0 .. Base - 1,
     timestamp : {t \in Nat : Len(PackVarInt[t]) = TimestampLen},
     prevId : {p \in Seq(Int) : Len(p) = HashLen}, nonce : {0}, version : Nat, unlockTime : Nat,
     vin : Seq(Nat), vout : Seq([amount : Nat, pubKey : Seq(Int), viewTag : Seq(Int)]),
     extra : {TxPubKey \o Zeros(Reserved)}, rctSigType : Nat, txHashes : Seq(Seq(Int))]

BeforeNonce(b) ==
    PackVarInt[b.major] \o PackVarInt[b.minor] \o PackVarInt[b.timestamp] \o b.prevId

WireVin(b) == FlattenSeq([i \in DOMAIN b.vin |-> <<TxInTag>> \o PackVarInt[b.vin[i]]])
WireVout(b) == FlattenSeq([i \in DOMAIN b.vout |-> PackTxOut(b.vout[i])])

(* ... given the length of the extra field *)
BeforeExtra(b, len) ==
    PackVarInt[b.version] \o PackVarInt[b.unlockTime]
        \o PackVarInt[Len(b.vin)] \o WireVin(b)
        \o PackVarInt[Len(b.vout)] \o WireVout(b) \o PackVarInt[len]

AfterExtra(b) ==
    PackVarInt[b.rctSigType] \o PackVarInt[Len(b.txHashes)] \o FlattenSeq(b.txHashes)

(* The block with a nonce and an extra field filled in *)
Filled(b, n, e) == [b EXCEPT !.nonce = n, !.extra = e]

(* The fields of a block are sequences. *)
LEMMA SeqParts ==
    ASSUME NEW b \in WellFormed
    PROVE  /\ WireVin(b) \in Seq(Int) /\ WireVout(b) \in Seq(Int)
           /\ FlattenSeq(b.txHashes) \in Seq(Int)
           /\ Len(b.txHashes) = 0 => FlattenSeq(b.txHashes) = <<>>
           /\ Len(b.vin) \in Nat /\ Len(b.vout) \in Nat /\ Len(b.txHashes) \in Nat
           /\ b.major \in Nat /\ b.minor \in Nat /\ b.timestamp \in Nat
           /\ b.version \in Nat /\ b.unlockTime \in Nat /\ b.rctSigType \in Nat
<1>1. /\ b.vin \in Seq(Nat) /\ b.vout \in Seq([amount : Nat, pubKey : Seq(Int), viewTag : Seq(Int)])
      /\ b.txHashes \in Seq(Seq(Int))
      /\ b.major \in Nat /\ b.minor \in Nat /\ b.timestamp \in Nat
      /\ b.version \in Nat /\ b.unlockTime \in Nat /\ b.rctSigType \in Nat
  BY CodecAssumption DEF WellFormed
<1>2. WireVin(b) \in Seq(Int)
  <2> DEFINE ins == [i \in DOMAIN b.vin |-> <<TxInTag>> \o PackVarInt[b.vin[i]]]
  <2>1. ASSUME NEW i \in DOMAIN b.vin PROVE ins[i] \in Seq(Int)
    <3>1. b.vin[i] \in Nat /\ TxInTag \in Int
      BY <1>1, CodecAssumption, SMTT(30) DEF TxInTag, W8
    <3>2. <<TxInTag>> \in Seq(Int) /\ PackVarInt[b.vin[i]] \in Seq(Int)
      BY <3>1, OneByte, PackVarIntSeq
    <3>3. QED
      BY <3>2, ConcatProperties
  <2>2. DOMAIN b.vin = 1 .. Len(b.vin) /\ Len(b.vin) \in Nat
    BY <1>1, LenProperties
  <2>3. ins \in Seq(Seq(Int))
    <3>1. ins \in [1 .. Len(b.vin) -> Seq(Int)]
      BY <2>1, <2>2
    <3> HIDE DEF ins
    <3>2. QED
      BY <2>2, <3>1, FunctionIsSeq
  <2>4. QED
    BY <2>3, FlattenSeqs DEF WireVin
<1>3. WireVout(b) \in Seq(Int)
  <2> DEFINE outs == [i \in DOMAIN b.vout |-> PackTxOut(b.vout[i])]
  <2>1. ASSUME NEW i \in DOMAIN b.vout PROVE outs[i] \in Seq(Int)
    <3>1. b.vout[i] \in [amount : Nat, pubKey : Seq(Int), viewTag : Seq(Int)]
      BY <1>1, ElementOfSeq, LenProperties
    <3>2. PICK o \in [amount : Nat, pubKey : Seq(Int), viewTag : Seq(Int)] : o = b.vout[i]
      BY <3>1
    <3>3. PackVarInt[o.amount] \in Seq(Int) /\ o.pubKey \in Seq(Int) /\ o.viewTag \in Seq(Int)
      BY PackVarIntSeq
    <3>4. PackTxOut(o) \in Seq(Int)
      BY <3>3, ConcatProperties DEF PackTxOut
    <3>5. QED
      BY <3>2, <3>4
  <2>2. DOMAIN b.vout = 1 .. Len(b.vout) /\ Len(b.vout) \in Nat
    BY <1>1, LenProperties
  <2>3. outs \in Seq(Seq(Int))
    <3>1. outs \in [1 .. Len(b.vout) -> Seq(Int)]
      BY <2>1, <2>2
    <3> HIDE DEF outs
    <3>2. QED
      BY <2>2, <3>1, FunctionIsSeq
  <2>4. QED
    BY <2>3, FlattenSeqs DEF WireVout
<1>4. QED
  BY <1>1, <1>2, <1>3, FlattenSeqs, LenProperties

LEMMA HeadLength ==
    ASSUME NEW S, NEW p \in Seq(S), NEW q \in Seq(S), NEW r \in Seq(S), NEW s \in Seq(S),
           Len(p) = 1, Len(q) = 1, Len(r) = TimestampLen, Len(s) = HashLen
    PROVE  Cat(Cat(Cat(p, q), r), s) \in Seq(S) /\ Len(Cat(Cat(Cat(p, q), r), s)) = NonceOffset
<1> DEFINE t == Cat(p, q)
           u == Cat(t, r)
<1>1. t \in Seq(S) /\ Len(t) = Len(p) + Len(q)
  BY CatType, Zenon
<1>2. u \in Seq(S) /\ Len(u) = Len(t) + Len(r)
  BY <1>1, CatType, Zenon
<1> HIDE DEF t
<1>3. Len(u) = 1 + 1 + TimestampLen
  BY <1>1, <1>2, TemplatesAssumption
<1> HIDE DEF u
<1>4. Cat(u, s) \in Seq(S) /\ Len(Cat(u, s)) = Len(u) + Len(s)
  BY <1>2, CatType, Zenon
<1>5. Cat(u, s) \in Seq(S) /\ Len(Cat(u, s)) = 1 + 1 + TimestampLen + HashLen
  BY <1>3, <1>4
<1>6. QED
  BY <1>5 DEF NonceOffset, t, u

(* A block is five pieces: the nonce and the extra field, and what is about them. *)
LEMMA WireParts ==
    ASSUME NEW S, Int \subseteq S, NEW b \in WellFormed, NEW n, packU32(n) \in Seq(S),
           NEW e \in Seq(S)
    PROVE  /\ BeforeNonce(b) \in Seq(S) /\ Len(BeforeNonce(b)) = NonceOffset
           /\ BeforeExtra(b, Len(e)) \in Seq(S) /\ AfterExtra(b) \in Seq(S)
           /\ Wire(Filled(b, n, e)) =
                 Cat(Cat(Cat(Cat(BeforeNonce(b), packU32(n)), BeforeExtra(b, Len(e))), e),
                     AfterExtra(b))
<1>1. \A s \in Seq(Int) : s \in Seq(S)
  BY SeqMonotonic
<1>2. PICK major, minor, time, version, unlock, ins, vin, outs, vout, len, rct, txs, hashes, prev :
         /\ major = PackVarInt[b.major] /\ minor = PackVarInt[b.minor]
         /\ time = PackVarInt[b.timestamp] /\ prev = b.prevId
         /\ version = PackVarInt[b.version] /\ unlock = PackVarInt[b.unlockTime]
         /\ ins = PackVarInt[Len(b.vin)] /\ vin = WireVin(b)
         /\ outs = PackVarInt[Len(b.vout)] /\ vout = WireVout(b)
         /\ len = PackVarInt[Len(e)]
         /\ rct = PackVarInt[b.rctSigType] /\ txs = PackVarInt[Len(b.txHashes)]
         /\ hashes = FlattenSeq(b.txHashes)
  OBVIOUS
<1>3. Len(e) \in Nat
  BY LenProperties
<1>4. /\ major \in Seq(S) /\ minor \in Seq(S) /\ time \in Seq(S)
      /\ version \in Seq(S) /\ unlock \in Seq(S) /\ ins \in Seq(S) /\ vin \in Seq(S)
      /\ outs \in Seq(S) /\ vout \in Seq(S) /\ len \in Seq(S) /\ rct \in Seq(S)
      /\ txs \in Seq(S) /\ hashes \in Seq(S)
  BY <1>1, <1>2, <1>3, SeqParts, PackVarIntSeq
<1>5. prev \in Seq(S) /\ Len(prev) = HashLen
  <2>1. b.prevId \in Seq(Int) /\ Len(b.prevId) = HashLen
    BY DEF WellFormed
  <2>2. QED
    BY <1>1, <1>2, <2>1
<1>6. Len(major) = 1 /\ Len(minor) = 1 /\ Len(time) = TimestampLen
  <2>1. /\ b.major \in 0 .. Base - 1 /\ b.minor \in 0 .. Base - 1
        /\ Len(PackVarInt[b.timestamp]) = TimestampLen
    BY DEF WellFormed
  <2>2. Base \in Nat
    BY CodecAssumption
  <2>3. b.major \in Nat /\ b.major < Base /\ b.minor \in Nat /\ b.minor < Base
    BY <2>1, <2>2
  <2>4. QED
    BY <1>2, <2>1, <2>3, PackVarIntSeq
<1> DEFINE head == Cat(Cat(Cat(major, minor), time), prev)
           left == Cat(head, packU32(n))
           middle == Cat(Cat(Cat(Cat(Cat(Cat(version, unlock), ins), vin), outs), vout), len)
           tail == Cat(Cat(rct, txs), hashes)
<1>7. head \in Seq(S) /\ Len(head) = NonceOffset
  BY <1>4, <1>5, <1>6, HeadLength, SMTT(30)
<1>8. /\ BeforeNonce(b) = head /\ BeforeExtra(b, Len(e)) = middle /\ AfterExtra(b) = tail
  BY <1>2 DEF BeforeNonce, BeforeExtra, AfterExtra, Cat
<1>9. PICK c : c = Filled(b, n, e)
  OBVIOUS
<1>10. Wire(c) = Cat(Cat(Cat(Cat(Cat(Cat(Cat(Cat(Cat(Cat(Cat(left, version), unlock), ins), vin),
                                               outs), vout), len), e), rct), txs), hashes)
  <2>1. /\ c.major = b.major /\ c.minor = b.minor /\ c.timestamp = b.timestamp
        /\ c.prevId = b.prevId /\ c.version = b.version /\ c.unlockTime = b.unlockTime
        /\ c.vin = b.vin /\ c.vout = b.vout /\ c.rctSigType = b.rctSigType
        /\ c.txHashes = b.txHashes /\ c.nonce = n /\ c.extra = e
    BY <1>9 DEF WellFormed, Filled
  <2>2. WireVin(c) = vin /\ WireVout(c) = vout
    BY <1>2, <2>1 DEF WireVin, WireVout
  <2>3. PackHeader(c) = Cat(Cat(Cat(Cat(PackVarInt[c.major], PackVarInt[c.minor]),
                                    PackVarInt[c.timestamp]), c.prevId), packU32(c.nonce))
    BY DEF PackHeader, Cat
  <2>4. PackHeader(c) = left
    BY <1>2, <2>1, <2>3
  <2>5. Wire(c) = Cat(Cat(Cat(Cat(Cat(Cat(Cat(Cat(Cat(Cat(Cat(PackHeader(c),
                      PackVarInt[c.version]), PackVarInt[c.unlockTime]), PackVarInt[Len(c.vin)]),
                      WireVin(c)), PackVarInt[Len(c.vout)]), WireVout(c)),
                      PackVarInt[Len(c.extra)]), c.extra), PackVarInt[c.rctSigType]),
                      PackVarInt[Len(c.txHashes)]), FlattenSeq(c.txHashes))
    BY DEF Wire, PackWith, WireVin, WireVout, Cat
  <2>6. QED
    BY <1>2, <2>1, <2>2, <2>4, <2>5
<1> HIDE DEF head
<1>11. left \in Seq(S)
  <2>1. packU32(n) \in Seq(S)
    OBVIOUS
  <2>2. QED
    BY <1>7, <2>1, CatType
<1> HIDE DEF left
<1>12. /\ Cat(Cat(Cat(Cat(Cat(Cat(Cat(left, version), unlock), ins), vin), outs), vout), len)
             = Cat(left, middle)
       /\ middle \in Seq(S)
  <2>1. /\ version \in Words(S) /\ unlock \in Words(S) /\ ins \in Words(S) /\ vin \in Words(S)
        /\ outs \in Words(S) /\ vout \in Words(S) /\ len \in Words(S)
    BY <1>4 DEF Words
  <2>2. PICK a : a = left
    OBVIOUS
  <2>3. a \in Words(S)
    BY <1>11, <2>2 DEF Words
  <2>4. PICK two : two = Cat(version, unlock)
    OBVIOUS
  <2>5. two \in Words(S) /\ Cat(Cat(a, version), unlock) = Cat(a, two)
    BY WordType, WordAssociative, <2>1, <2>3, <2>4
  <2>6. PICK three : three = Cat(two, ins)
    OBVIOUS
  <2>7. three \in Words(S) /\ Cat(Cat(a, two), ins) = Cat(a, three)
    BY WordType, WordAssociative, <2>1, <2>3, <2>5, <2>6
  <2>8. PICK four : four = Cat(three, vin)
    OBVIOUS
  <2>9. four \in Words(S) /\ Cat(Cat(a, three), vin) = Cat(a, four)
    BY WordType, WordAssociative, <2>1, <2>3, <2>7, <2>8
  <2>10. PICK five : five = Cat(four, outs)
    OBVIOUS
  <2>11. five \in Words(S) /\ Cat(Cat(a, four), outs) = Cat(a, five)
    BY WordType, WordAssociative, <2>1, <2>3, <2>9, <2>10
  <2>12. PICK six : six = Cat(five, vout)
    OBVIOUS
  <2>13. six \in Words(S) /\ Cat(Cat(a, five), vout) = Cat(a, six)
    BY WordType, WordAssociative, <2>1, <2>3, <2>11, <2>12
  <2>14. Cat(six, len) \in Words(S) /\ Cat(Cat(a, six), len) = Cat(a, Cat(six, len))
    BY WordType, WordAssociative, <2>1, <2>3, <2>13
  <2>15. middle = Cat(six, len)
    BY <2>4, <2>6, <2>8, <2>10, <2>12
  <2>16. QED
    BY <2>2, <2>5, <2>7, <2>9, <2>11, <2>13, <2>14, <2>15 DEF Words
<1> HIDE DEF middle
<1>13. Cat(left, middle) \in Seq(S) /\ Cat(Cat(left, middle), e) \in Seq(S)
  <2>1. Cat(left, middle) \in Seq(S)
    BY <1>11, <1>12, CatType
  <2>2. QED
    BY <2>1, CatType
<1>14. /\ Cat(Cat(Cat(Cat(Cat(left, middle), e), rct), txs), hashes)
             = Cat(Cat(Cat(left, middle), e), tail)
       /\ tail \in Seq(S)
  <2>1. rct \in Seq(S) /\ txs \in Seq(S) /\ hashes \in Seq(S)
    BY <1>4
  <2>2. QED
    BY <1>13, <2>1, CatThree
<1> USE DEF left
<1> HIDE DEF head, middle, tail
<1>15. Wire(c) = Cat(Cat(Cat(Cat(head, packU32(n)), middle), e), tail)
  BY <1>10, <1>12, <1>14
<1>16. QED
  BY <1>7, <1>8, <1>9, <1>12, <1>14, <1>15 DEF Cat

(* The nonce written into its place *)
LEMMA NonceWritten ==
    ASSUME NEW S, NEW p \in Words(S), NEW old \in Words(S), NEW new \in Words(S),
           NEW m \in Words(S), NEW e \in Words(S), NEW t \in Words(S), Len(new) = Len(old)
    PROVE  Copy(Cat(Cat(Cat(Cat(p, old), m), e), t), Len(p), new)
             = Cat(Cat(Cat(Cat(p, new), m), e), t)
<1>1. PICK r : r = Cat(m, Cat(e, t))
  OBVIOUS
<1>2. Cat(e, t) \in Words(S) /\ r \in Words(S)
  BY <1>1, WordType
<1>3. ASSUME NEW x \in Words(S)
      PROVE  Cat(Cat(Cat(Cat(p, x), m), e), t) = Cat(Cat(p, x), r)
  <2>1. Cat(p, x) \in Words(S) /\ Cat(Cat(p, x), m) \in Words(S)
    BY WordType
  <2>2. Cat(Cat(Cat(Cat(p, x), m), e), t) = Cat(Cat(Cat(p, x), m), Cat(e, t))
    BY <2>1, WordAssociative
  <2>3. Cat(Cat(Cat(p, x), m), Cat(e, t)) = Cat(Cat(p, x), r)
    BY <1>1, <1>2, <2>1, WordAssociative
  <2>4. QED
    BY <2>2, <2>3
<1>4. Copy(Cat(Cat(p, old), r), Len(p), new) = Cat(Cat(p, new), r)
  BY <1>2, CopyMiddle
<1>5. QED
  BY <1>3, <1>4

(* Both halves of the reserved bytes written into their places *)
LEMMA ReservedWritten ==
    ASSUME NEW S, NEW a \in Words(S), NEW k \in Words(S), NEW z \in Words(S),
           NEW u \in Words(S), NEW v \in Words(S), NEW t \in Words(S),
           Len(u) = Len(z), Len(v) = Len(z)
    PROVE  Copy(Copy(Cat(Cat(a, Cat(Cat(k, z), z)), t), Len(Cat(a, k)), u),
                Len(Cat(Cat(a, k), u)), v)
             = Cat(Cat(a, Cat(Cat(k, u), v)), t)
<1>1. PICK b : b = Cat(a, k)
  OBVIOUS
<1>2. b \in Words(S)
  BY <1>1, WordType
<1>3. Cat(Cat(a, Cat(Cat(k, z), z)), t) = Cat(Cat(b, z), Cat(z, t))
  <2>1. Cat(k, z) \in Words(S) /\ Cat(a, Cat(k, z)) = Cat(b, z) /\ Cat(b, z) \in Words(S)
    BY <1>1, <1>2, WordType, WordAssociative
  <2>2. Cat(a, Cat(Cat(k, z), z)) = Cat(Cat(b, z), z)
    BY <2>1, WordAssociative
  <2>3. QED
    BY <2>1, <2>2, WordAssociative
<1>4. PICK c : c = Cat(b, u)
  OBVIOUS
<1>5. c \in Words(S)
  BY <1>2, <1>4, WordType
<1>6. Copy(Cat(Cat(b, z), Cat(z, t)), Len(b), u) = Cat(Cat(c, z), t)
  <2>1. Cat(z, t) \in Words(S)
    BY WordType
  <2>2. Copy(Cat(Cat(b, z), Cat(z, t)), Len(b), u) = Cat(Cat(b, u), Cat(z, t))
    BY <1>2, <2>1, CopyMiddle
  <2>3. QED
    BY <1>2, <1>4, <1>5, <2>2, WordAssociative
<1>7. Copy(Cat(Cat(c, z), t), Len(c), v) = Cat(Cat(c, v), t)
  BY <1>5, CopyMiddle
<1>8. Cat(c, v) = Cat(a, Cat(Cat(k, u), v))
  <2>1. Cat(k, u) \in Words(S) /\ c = Cat(a, Cat(k, u))
    BY <1>1, <1>4, WordType, WordAssociative
  <2>2. QED
    BY <2>1, WordAssociative
<1>9. QED
  BY <1>1, <1>3, <1>4, <1>6, <1>7, <1>8

(* The pieces *)

LEMMA BytesOf ==
    ASSUME NEW S, NEW n, \A i \in 1 .. U32Len : packU32(n)[i] \in S
    PROVE  /\ packU32(n) \in Seq(S) /\ Len(packU32(n)) = U32Len
           /\ BigEndian(n) \in Seq(S) /\ Len(BigEndian(n)) = U32Len
<1>1. PICK f : f = packU32(n)
  OBVIOUS
<1>2. U32Len \in Nat
  BY CodecAssumption
<1>3. f \in [1 .. U32Len -> S]
  <2>1. f = [i \in 1 .. U32Len |-> f[i]]
    BY <1>1 DEF packU32
  <2>2. QED
    BY <1>1, <2>1
<1>4. f \in Seq(S) /\ Len(f) = U32Len
  BY <1>2, <1>3, FunctionIsSeq
<1>5. PICK g : g = BigEndian(n)
  OBVIOUS
<1>6. g = [i \in 1 .. Len(f) |-> f[(Len(f) - i) + 1]]
  BY <1>1, <1>5 DEF BigEndian, Reverse
<1>7. ASSUME NEW i \in 1 .. U32Len PROVE f[(U32Len - i) + 1] \in S
  <2>1. (U32Len - i) + 1 \in 1 .. U32Len
    BY <1>2
  <2>2. QED
    BY <1>3, <2>1
<1>8. g \in [1 .. U32Len -> S]
  BY <1>4, <1>6, <1>7
<1>9. QED
  BY <1>1, <1>2, <1>4, <1>5, <1>8, FunctionIsSeq

LEMMA ZeroBytes ==
    ASSUME NEW S, 0 \in S
    PROVE  /\ Zeros(U32Len) \in Seq(S) /\ Len(Zeros(U32Len)) = U32Len
           /\ Zeros(Reserved) = Cat(Zeros(U32Len), Zeros(U32Len))
<1>1. U32Len \in Nat /\ Reserved = 2 * U32Len /\ Reserved \in Nat
  BY CodecAssumption DEF Reserved
<1>2. PICK z : z = Zeros(U32Len)
  OBVIOUS
<1>3. z = [i \in 1 .. U32Len |-> 0] /\ z \in [1 .. U32Len -> S]
  BY <1>2 DEF Zeros
<1>4. z \in Seq(S) /\ Len(z) = U32Len
  BY <1>1, <1>3, FunctionIsSeq
<1>5. PICK d : d = z \o z
  OBVIOUS
<1>6. d \in Seq(S) /\ Len(d) = Reserved
  <2>1. z \o z \in Seq(S) /\ Len(z \o z) = Len(z) + Len(z)
    BY <1>4, ConcatProperties, Zenon
  <2>2. QED
    BY <1>1, <1>4, <1>5, <2>1
<1>7. ASSUME NEW i \in 1 .. Reserved PROVE d[i] = 0
  <2>1. d[i] = IF i =< U32Len THEN z[i] ELSE z[i - U32Len]
    BY <1>1, <1>4, <1>5, ConcatProperties
  <2>2. CASE i =< U32Len
    BY <1>1, <1>3, <2>1, <2>2
  <2>3. CASE ~(i =< U32Len)
    <3>1. i - U32Len \in 1 .. U32Len
      BY <1>1, <2>3
    <3>2. QED
      BY <1>3, <2>1, <2>3, <3>1
  <2>4. QED
    BY <2>2, <2>3
<1>8. d = [i \in 1 .. Reserved |-> 0]
  <2>1. d = [i \in 1 .. Reserved |-> d[i]]
    BY <1>6, LenProperties
  <2>2. QED
    BY <1>7, <2>1
<1>9. QED
  BY <1>2, <1>4, <1>5, <1>8 DEF Zeros, Cat

(* A set with all the bytes of some integers *)
LEMMA EnoughBytes ==
    ASSUME NEW k, NEW n
    PROVE  \E S : /\ Int \subseteq S
                  /\ \A i \in 1 .. U32Len :
                        packU32(0)[i] \in S /\ packU32(k)[i] \in S /\ packU32(n)[i] \in S
<1> DEFINE S == Int \cup {packU32(0)[i] : i \in 1 .. U32Len}
                    \cup {packU32(k)[i] : i \in 1 .. U32Len}
                    \cup {packU32(n)[i] : i \in 1 .. U32Len}
<1>1. /\ Int \subseteq S
      /\ \A i \in 1 .. U32Len :
            packU32(0)[i] \in S /\ packU32(k)[i] \in S /\ packU32(n)[i] \in S
  OBVIOUS
<1> HIDE DEF S
<1>2. QED
  BY <1>1

(* The extra field of an offered block *)
LEMMA ExtraParts ==
    ASSUME NEW S, Int \subseteq S
    PROVE  /\ TxPubKey \in Seq(S) /\ Len(TxPubKey) = 1
           /\ TxPubKey \o Zeros(Reserved) = Cat(Cat(TxPubKey, Zeros(U32Len)), Zeros(U32Len))
           /\ TxPubKey \o Zeros(Reserved) \in Seq(S)
           /\ Len(TxPubKey \o Zeros(Reserved)) = 1 + Reserved
<1>1. 0 \in S /\ 1 \in S
  OBVIOUS
<1>2. PICK k, z : k = TxPubKey /\ z = Zeros(U32Len)
  OBVIOUS
<1>3. k \in Words(S) /\ Len(k) = 1
  BY <1>1, <1>2, OneByte DEF TxPubKey, Words
<1>4. z \in Words(S) /\ Len(z) = U32Len
  BY <1>1, <1>2, ZeroBytes DEF Words
<1>5. Zeros(Reserved) = Cat(z, z)
  BY <1>1, <1>2, ZeroBytes
<1>6. Cat(z, z) \in Words(S) /\ Len(Cat(z, z)) = U32Len + U32Len
  BY <1>4, WordType, WordLength
<1>7. Cat(k, Cat(z, z)) = Cat(Cat(k, z), z)
  BY <1>3, <1>4, WordAssociative
<1>8. Cat(k, Cat(z, z)) \in Words(S) /\ Len(Cat(k, Cat(z, z))) = 1 + (U32Len + U32Len)
  BY <1>3, <1>6, WordType, WordLength
<1>9. TxPubKey \o Zeros(Reserved) = Cat(k, Cat(z, z))
  BY <1>2, <1>5 DEF Cat
<1>10. 1 + (U32Len + U32Len) = 1 + Reserved
  BY CodecAssumption DEF Reserved
<1>11. QED
  BY <1>2, <1>3, <1>7, <1>8, <1>9, <1>10 DEF Words

(* Where the reserved bytes are *)
LEMMA OffsetIs ==
    ASSUME NEW b \in WellFormed
    PROVE  ReservedOffset(b) = NonceOffset + U32Len + Len(BeforeExtra(b, 1 + Reserved)) + 1
<1>1. PICK S : /\ Int \subseteq S
               /\ \A i \in 1 .. U32Len : packU32(0)[i] \in S
  BY EnoughBytes
<1>2. PICK d : d = [b EXCEPT !.txHashes = <<>>]
  OBVIOUS
<1>3. d \in WellFormed
  <2>1. <<>> \in Seq(Seq(Int))
    OBVIOUS
  <2>2. QED
    BY <1>2, <2>1 DEF WellFormed
<1>4. PICK e : e = TxPubKey \o Zeros(Reserved)
  OBVIOUS
<1>5. e \in Seq(S) /\ Len(e) = 1 + Reserved
  BY <1>1, <1>4, ExtraParts
<1>6. Filled(d, 0, e) = d
  BY <1>3, <1>4 DEF WellFormed, Filled
<1>7. packU32(0) \in Seq(S) /\ Len(packU32(0)) = U32Len
  BY <1>1, BytesOf
<1>8. PICK p, u, m, t : /\ p = BeforeNonce(d) /\ u = packU32(0)
                        /\ m = BeforeExtra(d, 1 + Reserved) /\ t = AfterExtra(d)
  OBVIOUS
<1>9. /\ p \in Seq(S) /\ Len(p) = NonceOffset /\ m \in Seq(S) /\ t \in Seq(S)
      /\ Wire(d) = Cat(Cat(Cat(Cat(p, u), m), e), t)
  <2>1. /\ BeforeNonce(d) \in Seq(S) /\ Len(BeforeNonce(d)) = NonceOffset
        /\ BeforeExtra(d, Len(e)) \in Seq(S) /\ AfterExtra(d) \in Seq(S)
        /\ Wire(Filled(d, 0, e)) =
              Cat(Cat(Cat(Cat(BeforeNonce(d), packU32(0)), BeforeExtra(d, Len(e))), e),
                  AfterExtra(d))
    BY <1>1, <1>3, <1>5, <1>7, WireParts, SMTT(30)
  <2>2. QED
    BY <1>5, <1>6, <1>8, <2>1
<1>10. m = BeforeExtra(b, 1 + Reserved)
  BY <1>2, <1>8 DEF BeforeExtra, WireVin, WireVout, WellFormed
<1>11. Len(t) = Len(PackVarInt[b.rctSigType] \o PackVarInt[0]) /\ Len(t) \in Nat
  <2>1. d.rctSigType = b.rctSigType /\ d.txHashes = <<>> /\ Len(d.txHashes) = 0
    BY <1>2 DEF WellFormed
  <2>2. FlattenSeq(d.txHashes) = <<>>
    BY <1>3, <2>1, SeqParts
  <2>3. PackVarInt[b.rctSigType] \in Seq(Int) /\ PackVarInt[0] \in Seq(Int)
    BY PackVarIntSeq, SeqParts
  <2>4. PICK x, y : x = PackVarInt[b.rctSigType] /\ y = PackVarInt[0]
    OBVIOUS
  <2>5. t = x \o y \o <<>>
    BY <1>8, <2>1, <2>2, <2>4 DEF AfterExtra
  <2>6. (x \o y) \o <<>> = x \o y /\ Len(x \o y) \in Nat
    <3>1. PICK s : s = x \o y
      OBVIOUS
    <3>2. s \in Seq(Int)
      BY <2>3, <2>4, <3>1, ConcatProperties
    <3>3. s \o <<>> = s /\ Len(s) \in Nat
      BY <3>2
    <3>4. QED
      BY <3>1, <3>3
  <2>7. QED
    BY <2>4, <2>5, <2>6
<1>12. Len(Wire(d)) = NonceOffset + U32Len + Len(m) + Len(e) + Len(t)
  <2>1. p \in Words(S) /\ u \in Words(S) /\ m \in Words(S) /\ e \in Words(S) /\ t \in Words(S)
    BY <1>5, <1>7, <1>8, <1>9 DEF Words
  <2>2. Cat(p, u) \in Words(S) /\ Len(Cat(p, u)) = NonceOffset + U32Len
    BY <1>7, <1>8, <1>9, <2>1, WordType, WordLength
  <2>3. PICK q : q = Cat(Cat(p, u), m)
    OBVIOUS
  <2>4. q \in Words(S) /\ Len(q) = NonceOffset + U32Len + Len(m)
    BY <2>1, <2>2, <2>3, WordType, WordLength
  <2>5. Cat(q, e) \in Words(S) /\ Len(Cat(q, e)) = NonceOffset + U32Len + Len(m) + Len(e)
    BY <2>1, <2>4, WordType, WordLength
  <2>6. Len(Cat(Cat(q, e), t)) = Len(Cat(q, e)) + Len(t)
    BY <2>1, <2>5, WordLength
  <2>7. QED
    BY <1>9, <2>3, <2>5, <2>6
<1>13. NonceOffset \in Nat /\ U32Len \in Nat /\ Len(m) \in Nat /\ Reserved \in Nat
  BY <1>9, LenProperties, CodecAssumption, TemplatesAssumption DEF NonceOffset, Reserved
<1>14. ReservedOffset(b) = Len(Wire(d)) - Len(t) - Reserved
  BY <1>2, <1>11 DEF ReservedOffset
<1>15. QED
  BY <1>5, <1>10, <1>11, <1>12, <1>13, <1>14

(* What nextBlob and processShare write into the blob of a template makes  *)
(* it the blob of the same block with the extra field, or the extra field  *)
(* and the nonce, filled in.                                               *)
LEMMA ShareBuffIs ==
    ASSUME NEW b \in WellFormed, NEW t, t.buffer = Wire(b), t.reservedOffset = ReservedOffset(b),
           NEW k, NEW n
    PROVE  /\ ShareBuff(t, k, n) =
                 Wire(Filled(b, n, TxPubKey \o BigEndian(k) \o InstanceId))
           /\ WithReserved(t, k) =
                 Wire(Filled(b, 0, TxPubKey \o BigEndian(k) \o InstanceId))
<1>1. PICK S : /\ Int \subseteq S
               /\ \A i \in 1 .. U32Len :
                     packU32(0)[i] \in S /\ packU32(k)[i] \in S /\ packU32(n)[i] \in S
  BY EnoughBytes
<1>2. PICK p, old, new, m, x, z, u, v, w :
         /\ p = BeforeNonce(b) /\ old = packU32(0) /\ new = packU32(n)
         /\ m = BeforeExtra(b, 1 + Reserved) /\ x = TxPubKey /\ z = Zeros(U32Len)
         /\ u = BigEndian(k) /\ v = InstanceId /\ w = AfterExtra(b)
  OBVIOUS
<1>3. /\ old \in Words(S) /\ Len(old) = U32Len /\ new \in Words(S) /\ Len(new) = U32Len
      /\ u \in Words(S) /\ Len(u) = U32Len
  BY <1>1, <1>2, BytesOf DEF Words
<1>4. v \in Words(S) /\ Len(v) = U32Len
  <2>1. U32Len \in Nat /\ 0 .. W8 - 1 \subseteq S
    BY <1>1, CodecAssumption DEF W8
  <2>2. v \in [1 .. U32Len -> S]
    BY <1>2, <2>1, TemplatesAssumption
  <2>3. QED
    BY <2>1, <2>2, FunctionIsSeq DEF Words
<1>5. x \in Words(S) /\ Len(x) = 1
  BY <1>1, <1>2, ExtraParts DEF Words
<1>6. z \in Words(S) /\ Len(z) = U32Len
  BY <1>1, <1>2, ZeroBytes DEF Words
<1>7. PICK e, f : e = Cat(Cat(x, z), z) /\ f = Cat(Cat(x, u), v)
  OBVIOUS
<1>8. e \in Seq(S) /\ Len(e) = 1 + Reserved /\ e = TxPubKey \o Zeros(Reserved)
  BY <1>1, <1>2, <1>7, ExtraParts
<1>9. f \in Seq(S) /\ Len(f) = 1 + Reserved /\ f = TxPubKey \o BigEndian(k) \o InstanceId
  <2>1. Cat(x, u) \in Words(S) /\ Len(Cat(x, u)) = 1 + U32Len
    BY <1>3, <1>5, WordType, WordLength
  <2>2. f \in Words(S) /\ Len(f) = 1 + U32Len + U32Len
    BY <1>4, <1>7, <2>1, WordType, WordLength
  <2>3. 1 + U32Len + U32Len = 1 + Reserved
    BY CodecAssumption DEF Reserved
  <2>4. QED
    BY <1>2, <1>7, <2>2, <2>3 DEF Words, Cat
<1>10. Filled(b, 0, e) = b
  BY <1>8 DEF WellFormed, Filled
<1>11. packU32(0) \in Seq(S) /\ packU32(n) \in Seq(S)
  BY <1>2, <1>3 DEF Words
<1>12. /\ p \in Words(S) /\ Len(p) = NonceOffset /\ m \in Words(S) /\ w \in Words(S)
       /\ Wire(b) = Cat(Cat(Cat(Cat(p, old), m), e), w)
  <2>1. /\ BeforeNonce(b) \in Seq(S) /\ Len(BeforeNonce(b)) = NonceOffset
        /\ BeforeExtra(b, Len(e)) \in Seq(S) /\ AfterExtra(b) \in Seq(S)
        /\ Wire(Filled(b, 0, e)) =
              Cat(Cat(Cat(Cat(BeforeNonce(b), packU32(0)), BeforeExtra(b, Len(e))), e),
                  AfterExtra(b))
    <3>1. Int \subseteq S /\ e \in Seq(S) /\ packU32(0) \in Seq(S)
      BY <1>1, <1>8, <1>11
    <3>2. QED
      BY <3>1, WireParts
  <2>2. QED
    BY <1>2, <1>8, <1>10, <2>1 DEF Words
<1>13. PICK c : c = Filled(b, n, f)
  OBVIOUS
<1>14. Wire(c) = Cat(Cat(Cat(Cat(p, new), m), f), w)
  <2>1. Wire(Filled(b, n, f)) =
              Cat(Cat(Cat(Cat(BeforeNonce(b), packU32(n)), BeforeExtra(b, Len(f))), f),
                  AfterExtra(b))
    <3>1. Int \subseteq S /\ f \in Seq(S) /\ packU32(n) \in Seq(S)
      BY <1>1, <1>9, <1>11
    <3>2. QED
      BY <3>1, WireParts
  <2>2. QED
    BY <1>2, <1>9, <1>13, <2>1
<1>15. PICK at : at = ReservedOffset(b)
  OBVIOUS
<1>16. PICK a : a = Cat(Cat(p, old), m)
  OBVIOUS
<1>17. a \in Words(S) /\ at = Len(Cat(a, x)) /\ at + U32Len = Len(Cat(Cat(a, x), u))
  <2>1. Cat(p, old) \in Words(S) /\ Len(Cat(p, old)) = NonceOffset + U32Len
    BY <1>3, <1>12, WordType, WordLength
  <2>2. a \in Words(S) /\ Len(a) = NonceOffset + U32Len + Len(m)
    BY <1>12, <1>16, <2>1, WordType, WordLength
  <2>3. Cat(a, x) \in Words(S) /\ Len(Cat(a, x)) = NonceOffset + U32Len + Len(m) + 1
    BY <1>5, <2>2, WordType, WordLength
  <2>4. Len(Cat(Cat(a, x), u)) = Len(Cat(a, x)) + U32Len
    BY <1>3, <2>3, WordLength
  <2>5. QED
    BY <1>2, <1>15, <2>2, <2>3, <2>4, OffsetIs
<1>18. Copy(Copy(Cat(Cat(a, Cat(Cat(x, z), z)), w), Len(Cat(a, x)), u), Len(Cat(Cat(a, x), u)), v)
         = Cat(Cat(a, Cat(Cat(x, u), v)), w)
  <2>1. /\ a \in Words(S) /\ x \in Words(S) /\ z \in Words(S) /\ u \in Words(S)
        /\ v \in Words(S) /\ w \in Words(S) /\ Len(u) = Len(z) /\ Len(v) = Len(z)
    BY <1>3, <1>4, <1>5, <1>6, <1>12, <1>17
  <2>2. QED
    BY <2>1, ReservedWritten
<1>19. Copy(Cat(Cat(a, f), w), Len(p), new) = Cat(Cat(Cat(Cat(p, new), m), f), w)
  <2>1. /\ p \in Words(S) /\ old \in Words(S) /\ new \in Words(S) /\ m \in Words(S)
        /\ f \in Words(S) /\ w \in Words(S) /\ Len(new) = Len(old)
    BY <1>3, <1>9, <1>12 DEF Words
  <2>2. QED
    BY <1>16, <2>1, NonceWritten
<1>20. ShareBuff(t, k, n) = Copy(Copy(Copy(Wire(b), at, u), at + U32Len, v), NonceOffset, new)
  BY <1>2, <1>15 DEF ShareBuff, WithReserved
<1>21. Copy(Copy(Wire(b), at, u), at + U32Len, v) = Cat(Cat(a, f), w)
  BY <1>7, <1>12, <1>16, <1>17, <1>18
<1>22. ShareBuff(t, k, n) = Wire(c)
  BY <1>12, <1>14, <1>19, <1>20, <1>21
<1>23. WithReserved(t, k) = Wire(Filled(b, 0, f))
  <2>1. Wire(Filled(b, 0, f)) =
              Cat(Cat(Cat(Cat(BeforeNonce(b), packU32(0)), BeforeExtra(b, Len(f))), f),
                  AfterExtra(b))
    <3>1. Int \subseteq S /\ f \in Seq(S) /\ packU32(0) \in Seq(S)
      BY <1>1, <1>9, <1>11
    <3>2. QED
      BY <3>1, WireParts
  <2>2. Wire(Filled(b, 0, f)) = Cat(Cat(a, f), w)
    BY <1>2, <1>9, <1>16, <2>1
  <2>3. WithReserved(t, k) = Copy(Copy(Wire(b), at, u), at + U32Len, v)
    BY <1>2, <1>15 DEF WithReserved
  <2>4. QED
    BY <1>21, <2>2, <2>3
<1>24. QED
  BY <1>9, <1>13, <1>22, <1>23

-----------------------------------------------------------------------------
(* The submitted block *)

(* Blocks are those monerod builds, a template points to the reserved      *)
(* bytes of the block it was made from, and a share's buffer is what       *)
(* processShare wrote into its template.                                   *)
Placed(t) == t.from.block \in WellFormed /\ t.reservedOffset = ReservedOffset(t.from.block)
BlockInv ==
    /\ offer.block \in WellFormed
    /\ template # None => Placed(template)
    /\ share # NoShare =>
          /\ Placed(share.by)
          /\ share.buffer = ShareBuff(share.by, share.job.extraNonce, share.nonce)

LEMMA PrevWellFormed ==
    ASSUME NEW prev \in Prevs
    PROVE  prev \in Seq(Int) /\ Len(prev) = HashLen
<1>1. HashLen \in Nat /\ 0 .. W8 - 1 \subseteq Int
  BY CodecAssumption DEF W8
<1>2. prev \in [1 .. HashLen -> Int]
  BY <1>1, TemplatesAssumption
<1>3. QED
  BY <1>1, <1>2, FunctionIsSeq

(* What monerod offers is well formed. *)
LEMMA BlockWellFormed ==
    ASSUME NEW prev \in Prevs, NEW timestamp \in Timestamps, NEW height \in Heights,
           NEW amount \in Amounts, NEW txs \in TxCounts
    PROVE  Block(prev, timestamp, height, amount, txs) \in WellFormed
<1>1. PICK b : b = Block(prev, timestamp, height, amount, txs)
  OBVIOUS
<1>2. /\ height \in Nat /\ txs \in Nat /\ amount \in Nat
      /\ timestamp \in {t \in Nat : Len(PackVarInt[t]) = TimestampLen}
  <2>1. amount \in 1 .. (W64 \div 2) - 1 /\ W64 \div 2 \in Int
    BY TemplatesAssumption, CodecAssumption
  <2>2. amount \in Nat
    BY <2>1
  <2>3. timestamp \in 0 .. W64 - 1 /\ Len(PackVarInt[timestamp]) = TimestampLen
    BY TemplatesAssumption
  <2>4. timestamp \in Nat
    BY <2>3, CodecAssumption
  <2>5. height \in Nat /\ txs \in Nat
    BY TemplatesAssumption, CodecAssumption
  <2>6. QED
    BY <2>2, <2>3, <2>4, <2>5
<1>3. 0 \in 0 .. Base - 1 /\ 1 \in 0 .. Base - 1
  BY CodecAssumption
<1>4. PICK key, hashes : /\ key = [i \in 1 .. PubKeyLen |-> TxInTag]
                         /\ hashes = [i \in 1 .. txs |-> [j \in 1 .. HashLen |-> i]]
  OBVIOUS
<1>5. key \in Seq(Int)
  <2>1. PubKeyLen \in Nat /\ TxInTag \in Int
    BY CodecAssumption DEF PubKeyLen, TxInTag, W8
  <2>2. key \in [1 .. PubKeyLen -> Int]
    BY <1>4, <2>1
  <2>3. QED
    BY <2>1, <2>2, FunctionIsSeq
<1>6. hashes \in Seq(Seq(Int))
  <2>1. HashLen \in Nat
    BY CodecAssumption
  <2>2. ASSUME NEW i \in 1 .. txs PROVE [j \in 1 .. HashLen |-> i] \in Seq(Int)
    <3>1. PICK f : f = [j \in 1 .. HashLen |-> i]
      OBVIOUS
    <3>2. f \in [1 .. HashLen -> Int]
      BY <1>2, <3>1
    <3>3. QED
      BY <2>1, <3>1, <3>2, FunctionIsSeq
  <2>3. hashes \in [1 .. txs -> Seq(Int)]
    BY <1>4, <2>2
  <2>4. QED
    BY <1>2, <2>3, FunctionIsSeq
<1>7. PICK out : out = [amount |-> amount, pubKey |-> key, viewTag |-> <<Base>>]
  OBVIOUS
<1>8. out \in [amount : Nat, pubKey : Seq(Int), viewTag : Seq(Int)]
  <2>1. Base \in Int
    BY CodecAssumption
  <2>2. <<Base>> \in Seq(Int)
    BY <2>1, OneByte
  <2>3. QED
    BY <1>2, <1>5, <1>7, <2>2
<1>9. <<out>> \in Seq([amount : Nat, pubKey : Seq(Int), viewTag : Seq(Int)])
      /\ <<height>> \in Seq(Nat)
  BY <1>2, <1>8, OneByte
<1>10. PICK outs, ins, extra :
          outs = <<out>> /\ ins = <<height>> /\ extra = TxPubKey \o Zeros(Reserved)
  OBVIOUS
<1>11. b = [major |-> 1, minor |-> 1, timestamp |-> timestamp, prevId |-> prev, nonce |-> 0,
            version |-> 2, unlockTime |-> height + 1, vin |-> ins, vout |-> outs,
            extra |-> extra, rctSigType |-> 0, txHashes |-> hashes]
  BY <1>1, <1>4, <1>7, <1>10 DEF Block
<1>12. /\ prev \in {p \in Seq(Int) : Len(p) = HashLen} /\ ins \in Seq(Nat)
       /\ outs \in Seq([amount : Nat, pubKey : Seq(Int), viewTag : Seq(Int)])
       /\ 2 \in Nat /\ height + 1 \in Nat /\ 0 \in Nat
  BY <1>2, <1>9, <1>10, PrevWellFormed
<1>13. b \in WellFormed
  BY <1>2, <1>3, <1>6, <1>10, <1>11, <1>12 DEF WellFormed
<1>14. QED
  BY <1>1, <1>13

LEMMA InitBlockInv ==
    ASSUME Init
    PROVE  BlockInv
<1>1. PICK prev \in Prevs, timestamp \in Timestamps, height \in Heights, amount \in Amounts,
           txs \in TxCounts, more \in {-1, 0, 1} :
         offer = [block |-> Block(prev, timestamp, height, amount, txs),
                  expectedReward |-> amount + more]
  BY DEF Init, Offers
<1>2. offer.block \in WellFormed
  BY <1>1, BlockWellFormed
<1>3. QED
  BY <1>2 DEF Init, BlockInv

LEMMA NextBlockInv ==
    ASSUME BlockInv, [Next]_vars
    PROVE  BlockInv'
<1>1. ASSUME NEW prev \in Prevs, NEW height \in Heights, NewTip(prev, height)
      PROVE  BlockInv'
  <2>1. PICK b : b = offer.block
    OBVIOUS
  <2>2. PICK new : new = [b EXCEPT !.prevId = prev, !.vin = <<height>>]
    OBVIOUS
  <2>3. height \in Nat
    BY TemplatesAssumption
  <2>4. <<height>> \in Seq(Nat) /\ prev \in {p \in Seq(Int) : Len(p) = HashLen}
    BY <2>3, OneByte, PrevWellFormed
  <2>5. new \in WellFormed
    BY <2>1, <2>2, <2>4 DEF BlockInv, WellFormed
  <2>6. offer'.block = new
    BY <1>1, <2>1, <2>2 DEF NewTip
  <2>7. QED
    BY <1>1, <2>5, <2>6 DEF NewTip, BlockInv, Placed
<1>2. CASE Fetch
  <2>1. PICK buffer : template' = IF Accepts(UnpackBlock(buffer))
                                  THEN Stored(buffer, UnpackBlock(buffer).val) ELSE template
    BY <1>2 DEF Fetch
  <2>2. ASSUME template' = Stored(buffer, UnpackBlock(buffer).val) PROVE Placed(template')
    BY <2>2 DEF Stored, Placed, BlockInv
  <2>3. QED
    BY <1>2, <2>1, <2>2 DEF Fetch, BlockInv, Placed
<1>3. CASE GetJob
  BY <1>3 DEF GetJob, BlockInv, Placed
<1>4. ASSUME NEW i \in DOMAIN jobs, NEW nonce \in MinerNonces, Submit(jobs[i], nonce)
      PROVE  BlockInv'
  <2>1. PICK blob : share' = ShareOf(jobs[i], nonce, ShareBuff(template, jobs[i].extraNonce, nonce),
                                     blob, Hash(blob))
    BY <1>4 DEF Submit
  <2>2. /\ share'.by = template /\ share'.job = jobs[i] /\ share'.nonce = nonce
        /\ share'.buffer = ShareBuff(template, jobs[i].extraNonce, nonce)
    BY <2>1 DEF ShareOf
  <2>3. QED
    BY <1>4, <2>2 DEF Submit, BlockInv, Placed
<1>5. CASE UNCHANGED vars
  BY <1>5 DEF vars, BlockInv, Placed
<1>6. QED
  BY <1>1, <1>2, <1>3, <1>4, <1>5 DEF Next

(* The block that is submitted is monerod's, with the nonce of the miner   *)
(* and the reserved bytes of the extra field filled in and every other     *)
(* byte as it was: nextBlob and processShare write at offsets they do not  *)
(* compute from the bytes, and the nonce's is a constant.                  *)
THEOREM OfferedBlocksSubmitted == Spec => []SubmitsOfferedBlock
<1>1. BlockInv => SubmitsOfferedBlock
  <2>1. SUFFICES ASSUME BlockInv, share # NoShare, Uncut(share.by)
                 PROVE  share.buffer = Wire([share.by.from.block EXCEPT
                            !.nonce = share.nonce,
                            !.extra = TxPubKey \o BigEndian(share.job.extraNonce) \o InstanceId])
    BY DEF SubmitsOfferedBlock
  <2>2. PICK t, b, k, n : /\ t = share.by /\ b = share.by.from.block
                          /\ k = share.job.extraNonce /\ n = share.nonce
    OBVIOUS
  <2>3. /\ b \in WellFormed /\ t.buffer = Wire(b) /\ t.reservedOffset = ReservedOffset(b)
        /\ share.buffer = ShareBuff(t, k, n)
    BY <2>1, <2>2 DEF BlockInv, Placed, Uncut
  <2>4. share.buffer = Wire(Filled(b, n, TxPubKey \o BigEndian(k) \o InstanceId))
    BY <2>3, ShareBuffIs
  <2>5. QED
    BY <2>2, <2>4 DEF Filled
<1>2. QED
  BY <1>1, InitBlockInv, NextBlockInv, PTL DEF Spec

-----------------------------------------------------------------------------
(* Numbers and their digits.  Both recursions of the codec have this form.  *)

IsLinear(f, first, term, base, m) ==
    f = [i \in 0 .. m |-> IF i = 0 THEN first ELSE term[i] + base * f[i - 1]]

LEMMA LinearExists ==
    ASSUME NEW first, NEW term, NEW base, NEW m \in Nat
    PROVE  \E f : IsLinear(f, first, term, base, m)
<1> DEFINE bad == {n \in Nat : ~\E f : IsLinear(f, first, term, base, n)}
<1>1. SUFFICES ASSUME bad # {} PROVE FALSE
  OBVIOUS
<1>2. PICK n \in bad : \A j \in bad : n =< j
  <2>1. bad \subseteq Nat
    OBVIOUS
  <2> HIDE DEF bad
  <2>2. QED
    BY <1>1, <2>1, Least
<1>3. n \in Nat /\ ~\E f : IsLinear(f, first, term, base, n)
  BY <1>2
<1>4. CASE n = 0
  <2> DEFINE f == [i \in 0 .. 0 |-> first]
  <2>1. \A i \in 0 .. 0 : i = 0
    OBVIOUS
  <2>2. f = [i \in 0 .. 0 |-> IF i = 0 THEN first ELSE term[i] + base * f[i - 1]]
    BY <2>1
  <2> HIDE DEF f
  <2>3. IsLinear(f, first, term, base, 0)
    BY <2>2 DEF IsLinear
  <2>4. QED
    BY <1>3, <1>4, <2>3
<1>5. CASE n # 0
  <2>1. n - 1 \in Nat /\ ~(n =< n - 1)
    BY <1>3, <1>5
  <2>2. PICK f : IsLinear(f, first, term, base, n - 1)
    BY <1>2, <2>1
  <2> DEFINE step(i) == IF i = 0 THEN first ELSE term[i] + base * f[i - 1]
             g == [i \in 0 .. n |-> step(i)]
  <2>3. \A i \in 0 .. n - 1 : g[i] = f[i]
    <3>1. ASSUME NEW i \in 0 .. n - 1 PROVE g[i] = f[i]
      <4>1. i \in 0 .. n
        BY <1>3
      <4>2. f[i] = step(i)
        BY <2>2 DEF IsLinear
      <4>3. QED
        BY <4>1, <4>2
    <3>2. QED
      BY <3>1
  <2>4. ASSUME NEW i \in 0 .. n, i # 0 PROVE f[i - 1] = g[i - 1]
    <3>1. i - 1 \in 0 .. n - 1
      BY <1>3, <2>4
    <3> HIDE DEF g
    <3>2. QED
      BY <2>3, <3>1
  <2>5. \A i \in 0 .. n : step(i) = IF i = 0 THEN first ELSE term[i] + base * g[i - 1]
    <3> HIDE DEF g
    <3>1. QED
      BY <2>4
  <2>6. g = [i \in 0 .. n |-> IF i = 0 THEN first ELSE term[i] + base * g[i - 1]]
    BY <2>5, Zenon
  <2> HIDE DEF g
  <2>7. IsLinear(g, first, term, base, n)
    BY <2>6 DEF IsLinear
  <2>8. QED
    BY <1>3, <2>7
<1>6. QED
  BY <1>4, <1>5

(* Solutions of the same recursion agree as far as their terms do. *)
LEMMA LinearUnique ==
    ASSUME NEW first, NEW base, NEW m \in Nat, NEW k \in Nat, NEW c, NEW d, NEW f, NEW g,
           IsLinear(f, first, c, base, m), IsLinear(g, first, d, base, k),
           NEW l \in (0 .. m) \cap (0 .. k), \A i \in 1 .. l : c[i] = d[i]
    PROVE  f[l] = g[l]
<1> DEFINE bad == {n \in 0 .. l : f[n] # g[n]}
<1>1. SUFFICES ASSUME bad # {} PROVE FALSE
  BY DEF bad
<1>2. PICK n \in bad : \A j \in bad : n =< j
  <2>1. bad \subseteq Nat
    OBVIOUS
  <2> HIDE DEF bad
  <2>2. QED
    BY <1>1, <2>1, Least
<1>3. n \in Nat /\ n =< l /\ l =< m /\ l =< k /\ f[n] # g[n]
  BY <1>2
<1>4. /\ f[n] = IF n = 0 THEN first ELSE c[n] + base * f[n - 1]
      /\ g[n] = IF n = 0 THEN first ELSE d[n] + base * g[n - 1]
  BY <1>3 DEF IsLinear
<1>5. n # 0 /\ c[n] = d[n]
  BY <1>3, <1>4
<1>6. f[n - 1] # g[n - 1]
  BY <1>3, <1>4, <1>5
<1>7. n - 1 \in bad /\ ~(n =< n - 1)
  BY <1>3, <1>5, <1>6
<1>8. QED
  BY <1>2, <1>7

LEMMA LinearType ==
    ASSUME NEW first \in Nat, NEW base \in Nat, NEW m \in Nat, NEW c, NEW f,
           \A i \in 1 .. m : c[i] \in Nat, IsLinear(f, first, c, base, m), NEW l \in 0 .. m
    PROVE  f[l] \in Nat
<1> DEFINE bad == {n \in 0 .. m : f[n] \notin Nat}
<1>1. SUFFICES ASSUME bad # {} PROVE FALSE
  BY DEF bad
<1>2. PICK n \in bad : \A j \in bad : n =< j
  <2>1. bad \subseteq Nat
    OBVIOUS
  <2> HIDE DEF bad
  <2>2. QED
    BY <1>1, <2>1, Least
<1>3. n \in Nat /\ n =< m /\ f[n] \notin Nat
  BY <1>2
<1>4. f[n] = IF n = 0 THEN first ELSE c[n] + base * f[n - 1]
  BY <1>3 DEF IsLinear
<1>5. n # 0 /\ c[n] \in Nat
  BY <1>3, <1>4
<1>6. n - 1 \in 0 .. m /\ ~(n =< n - 1)
  BY <1>3, <1>5
<1>7. f[n - 1] \in Nat
  BY <1>2, <1>6
<1>8. PICK x \in Nat, y \in Nat : x = c[n] /\ y = f[n - 1]
  BY <1>5, <1>7
<1>9. f[n] = x + base * y
  BY <1>4, <1>5, <1>8
<1>10. QED
  BY <1>3, <1>9

(* The powers of W8 *)
LEMMA Powers ==
    /\ PowerOfW8(0) = 1
    /\ \A k \in Nat : PowerOfW8(k) \in Nat \ {0} /\ PowerOfW8(k + 1) = W8 * PowerOfW8(k)
<1> DEFINE IsPower(f, k) == f = [i \in 0 .. k |-> IF i = 0 THEN 1 ELSE W8 * f[i - 1]]
           none == [i \in Nat |-> 0]
<1>1. W8 \in Nat /\ 0 < W8
  BY CodecAssumption DEF W8
<1>2. ASSUME NEW k \in Nat, NEW f, IsPower(f, k)
      PROVE  \A i \in 0 .. k : f[i] \in Nat \ {0}
  <2> DEFINE bad == {n \in 0 .. k : f[n] \notin Nat \ {0}}
  <2>1. SUFFICES ASSUME bad # {} PROVE FALSE
    BY DEF bad
  <2>2. PICK n \in bad : \A j \in bad : n =< j
    <3>1. bad \subseteq Nat
      OBVIOUS
    <3> HIDE DEF bad
    <3>2. QED
      BY <2>1, <3>1, Least
  <2>3. n \in Nat /\ n =< k /\ f[n] \notin Nat \ {0}
    BY <2>2
  <2>4. f[n] = IF n = 0 THEN 1 ELSE W8 * f[n - 1]
    BY <1>2, <2>3
  <2>5. n # 0
    BY <2>3, <2>4
  <2>6. n - 1 \in 0 .. k /\ ~(n =< n - 1)
    BY <2>3, <2>5
  <2>7. PICK x \in Nat \ {0} : x = f[n - 1]
    BY <2>2, <2>6
  <2>8. W8 * x \in Nat /\ W8 * x # 0
    BY <1>1
  <2>9. QED
    BY <2>3, <2>4, <2>5, <2>7, <2>8
<1>3. ASSUME NEW k \in Nat, NEW f, IsPower(f, k)
      PROVE  IsLinear(f, 1, none, W8, k)
  <2>1. \A i \in 0 .. k : f[i] = IF i = 0 THEN 1 ELSE W8 * f[i - 1]
    BY <1>3
  <2>2. \A i \in 0 .. k : i # 0 => none[i] + W8 * f[i - 1] = W8 * f[i - 1]
    <3>1. ASSUME NEW i \in 0 .. k, i # 0
          PROVE  none[i] + W8 * f[i - 1] = W8 * f[i - 1]
      <4>1. i - 1 \in 0 .. k /\ i \in Nat
        BY <3>1
      <4>2. PICK x \in Nat : x = f[i - 1]
        BY <1>2, <1>3, <4>1
      <4>3. 0 + W8 * x = W8 * x
        BY <1>1
      <4>4. QED
        BY <4>1, <4>2, <4>3
    <3>2. QED
      BY <3>1
  <2> HIDE DEF none
  <2>3. \A i \in 0 .. k : (IF i = 0 THEN 1 ELSE W8 * f[i - 1])
                             = (IF i = 0 THEN 1 ELSE none[i] + W8 * f[i - 1])
    BY <2>2
  <2>4. f = [i \in 0 .. k |-> IF i = 0 THEN 1 ELSE none[i] + W8 * f[i - 1]]
    BY <1>3, <2>3, Zenon
  <2>5. QED
    BY <2>4 DEF IsLinear
<1>4. ASSUME NEW k \in Nat PROVE \E f : IsPower(f, k)
  <2>1. PICK f : IsLinear(f, 1, none, W8, k)
    BY <1>4, LinearExists
  <2>2. \A i \in 1 .. k : none[i] \in Nat
    OBVIOUS
  <2>3. \A i \in 0 .. k : f[i] \in Nat
    <3> HIDE DEF none
    <3>1. QED
      BY <1>1, <2>1, <2>2, LinearType
  <2>4. \A i \in 0 .. k : i # 0 => none[i] + W8 * f[i - 1] = W8 * f[i - 1]
    <3>1. ASSUME NEW i \in 0 .. k, i # 0
          PROVE  none[i] + W8 * f[i - 1] = W8 * f[i - 1]
      <4>1. i - 1 \in 0 .. k /\ i \in Nat
        BY <3>1
      <4>2. PICK x \in Nat : x = f[i - 1]
        BY <2>3, <4>1
      <4>3. 0 + W8 * x = W8 * x
        BY <1>1
      <4>4. QED
        BY <4>1, <4>2, <4>3
    <3>2. QED
      BY <3>1
  <2> HIDE DEF none
  <2>5. \A i \in 0 .. k : (IF i = 0 THEN 1 ELSE W8 * f[i - 1])
                             = (IF i = 0 THEN 1 ELSE none[i] + W8 * f[i - 1])
    BY <2>4
  <2>6. f = [i \in 0 .. k |-> IF i = 0 THEN 1 ELSE none[i] + W8 * f[i - 1]]
    BY <2>1 DEF IsLinear
  <2>7. f = [i \in 0 .. k |-> IF i = 0 THEN 1 ELSE W8 * f[i - 1]]
    BY <2>5, <2>6, Zenon
  <2>8. QED
    BY <2>7
<1> DEFINE power(k) == CHOOSE f : IsPower(f, k)
<1>5. ASSUME NEW k \in Nat
      PROVE  PowerOfW8(k) = power(k)[k] /\ IsPower(power(k), k)
  <2>1. PowerOfW8(k) = power(k)[k]
    BY Zenon DEF PowerOfW8
  <2>2. QED
    BY <1>4, <2>1, Zenon
<1> HIDE DEF power
<1>6. PowerOfW8(0) = 1
  <2>1. PowerOfW8(0) = power(0)[0] /\ IsPower(power(0), 0)
    BY <1>5
  <2>2. QED
    BY <2>1
<1>7. ASSUME NEW k \in Nat
      PROVE  PowerOfW8(k) \in Nat \ {0} /\ PowerOfW8(k + 1) = W8 * PowerOfW8(k)
  <2>1. PICK f, g : f = power(k) /\ g = power(k + 1)
    OBVIOUS
  <2>2. PICK j \in Nat : j = k + 1
    OBVIOUS
  <2>3. /\ PowerOfW8(k) = f[k] /\ PowerOfW8(j) = g[j] /\ IsPower(f, k) /\ IsPower(g, j)
    BY <1>5, <2>1, <2>2
  <2>4. f[k] = g[k]
    <3>1. IsLinear(f, 1, none, W8, k) /\ IsLinear(g, 1, none, W8, j)
      BY <1>3, <2>3
    <3>2. k \in (0 .. k) \cap (0 .. j)
      BY <2>2
    <3> HIDE DEF none
    <3>3. QED
      BY <2>2, <3>1, <3>2, LinearUnique
  <2>5. g[j] = W8 * g[j - 1] /\ j - 1 = k
    BY <2>2, <2>3
  <2>6. f[k] \in Nat \ {0}
    BY <1>2, <2>3
  <2>7. QED
    BY <2>2, <2>3, <2>4, <2>5, <2>6
<1>8. QED
  BY <1>6, <1>7

(* The value of a sequence of digits *)
LEMMA ValueIs ==
    ASSUME NEW digits \in Seq(Nat), NEW base \in Nat
    PROVE  \E f : /\ IsLinear(f, 0, [i \in 1 .. Len(digits) |-> digits[Len(digits) + 1 - i]],
                              base, Len(digits))
                  /\ Value(digits, base) = f[Len(digits)]
                  /\ Value(digits, base) \in Nat
<1> DEFINE m == Len(digits)
           term == [i \in 1 .. m |-> digits[m + 1 - i]]
           f == CHOOSE g : IsLinear(g, 0, term, base, m)
           step(g) == g = [i \in 0 .. m |-> IF i = 0 THEN 0 ELSE digits[m + 1 - i] + base * g[i - 1]]
           h == CHOOSE g : step(g)
<1>1. m \in Nat
  BY LenProperties
<1>2. \A i \in 1 .. m : term[i] \in Nat
  <2>1. ASSUME NEW i \in 1 .. m PROVE digits[m + 1 - i] \in Nat
    <3>1. m + 1 - i \in 1 .. m
      BY <1>1
    <3>2. QED
      BY <3>1, ElementOfSeq
  <2>2. QED
    BY <2>1
<1>3. ASSUME NEW g PROVE step(g) <=> IsLinear(g, 0, term, base, m)
  <2>1. \A i \in 0 .. m : (IF i = 0 THEN 0 ELSE digits[m + 1 - i] + base * g[i - 1])
                             = (IF i = 0 THEN 0 ELSE term[i] + base * g[i - 1])
    <3>1. \A i \in 0 .. m : i # 0 => i \in 1 .. m
      BY <1>1
    <3>2. \A i \in 1 .. m : term[i] = digits[m + 1 - i]
      OBVIOUS
    <3> HIDE DEF term
    <3>3. QED
      BY <3>1, <3>2
  <2> HIDE DEF term
  <2>2. [i \in 0 .. m |-> IF i = 0 THEN 0 ELSE digits[m + 1 - i] + base * g[i - 1]]
           = [i \in 0 .. m |-> IF i = 0 THEN 0 ELSE term[i] + base * g[i - 1]]
    BY <2>1, Zenon
  <2>3. QED
    BY <2>2 DEF IsLinear
<1>4. Value(digits, base) = h[m]
  BY Zenon DEF Value
<1>5. step(h)
  <2>1. \E g : IsLinear(g, 0, term, base, m)
    BY <1>1, LinearExists
  <2>2. PICK g : step(g)
    <3> HIDE DEF step, term
    <3>1. QED
      BY <1>3, <2>1
  <2> HIDE DEF step
  <2>3. QED
    BY <2>2, Zenon
<1> HIDE DEF step, h, term
<1>6. IsLinear(h, 0, term, base, m)
  BY <1>3, <1>5
<1>7. h[m] \in Nat
  <2>1. m \in 0 .. m /\ 0 \in Nat
    BY <1>1
  <2>2. QED
    BY <1>1, <1>2, <1>6, <2>1, LinearType
<1>8. QED
  BY <1>4, <1>6, <1>7 DEF term

LEMMA ValueEmpty ==
    ASSUME NEW base \in Nat
    PROVE  Value(<<>>, base) = 0
<1>1. PICK digits : digits = <<>>
  OBVIOUS
<1>2. digits \in Seq(Nat) /\ Len(digits) = 0
  BY <1>1
<1>3. PICK f : /\ IsLinear(f, 0, [i \in 1 .. Len(digits) |-> digits[Len(digits) + 1 - i]],
                           base, Len(digits))
               /\ Value(digits, base) = f[Len(digits)]
  BY <1>2, ValueIs
<1>4. f[0] = 0
  BY <1>2, <1>3 DEF IsLinear
<1>5. QED
  BY <1>1, <1>2, <1>3, <1>4

Prepended(x, q) == Cat(<<x>>, q)

LEMMA ConsType ==
    ASSUME NEW S, NEW x \in S, NEW q \in Seq(S)
    PROVE  Prepended(x, q) \in Seq(S) /\ Len(Prepended(x, q)) = Len(q) + 1
<1>1. PICK s : s = <<x>>
  OBVIOUS
<1>2. s \in Seq(S) /\ Len(s) = 1
  BY <1>1
<1>3. Len(q) \in Nat
  BY LenProperties
<1>4. s \o q \in Seq(S) /\ Len(s \o q) = 1 + Len(q)
  BY <1>2, ConcatProperties, ZenonT(60)
<1>5. QED
  BY <1>1, <1>3, <1>4 DEF Prepended, Cat

(* Another digit in front *)
LEMMA ValueCat ==
    ASSUME NEW base \in Nat, NEW d \in Nat, NEW q \in Seq(Nat)
    PROVE  /\ Value(Prepended(d, q), base) = d + base * Value(q, base)
           /\ Value(q, base) \in Nat
<1>1. PICK p : p = Prepended(d, q)
  OBVIOUS
<1>2. PICK k \in Nat, m \in Nat : k = Len(q) /\ m = k + 1
  BY LenProperties
<1>3. p \in Seq(Nat) /\ Len(p) = m
  BY <1>1, <1>2, ConsType
<1>4. \A i \in 1 .. k : p[m + 1 - i] = q[k + 1 - i]
  BY <1>1, <1>2 DEF Prepended, Cat
<1>5. p[1] = d
  BY <1>1 DEF Prepended, Cat
<1> DEFINE pTerm == [i \in 1 .. m |-> p[m + 1 - i]]
           qTerm == [i \in 1 .. k |-> q[k + 1 - i]]
<1>6. PICK f : IsLinear(f, 0, pTerm, base, m) /\ Value(p, base) = f[m] /\ Value(p, base) \in Nat
  BY <1>3, ValueIs
<1>7. PICK g : IsLinear(g, 0, qTerm, base, k) /\ Value(q, base) = g[k] /\ Value(q, base) \in Nat
  BY <1>2, ValueIs
<1>8. \A i \in 1 .. k : pTerm[i] = qTerm[i]
  <2>1. \A i \in 1 .. k : i \in 1 .. m
    BY <1>2
  <2>2. QED
    BY <1>4, <2>1
<1>9. pTerm[m] = d
  BY <1>2, <1>5
<1> HIDE DEF pTerm, qTerm
<1>10. f[k] = g[k]
  <2>1. k \in (0 .. m) \cap (0 .. k)
    BY <1>2
  <2>2. PICK c, e, z : c = pTerm /\ e = qTerm /\ z = 0
    OBVIOUS
  <2>3. /\ IsLinear(f, z, c, base, m) /\ IsLinear(g, z, e, base, k)
        /\ \A i \in 1 .. k : c[i] = e[i]
    BY <1>6, <1>7, <1>8, <2>2
  <2>4. QED
    BY <1>2, <2>1, <2>3, LinearUnique
<1>11. f[m] = pTerm[m] + base * f[m - 1] /\ m - 1 = k
  BY <1>2, <1>6 DEF IsLinear
<1>12. QED
  BY <1>1, <1>6, <1>7, <1>9, <1>10, <1>11

-----------------------------------------------------------------------------
(* Varints *)

(* The seven bits of each byte *)
Low(s) == [i \in DOMAIN s |-> s[i] % Base]

LEMMA LowCat ==
    ASSUME NEW d \in Nat, NEW q \in Seq(Nat)
    PROVE  Low(Prepended(d, q)) = Prepended(d % Base, Low(q)) /\ Low(q) \in Seq(Nat)
<1>1. PICK k \in Nat : k = Len(q)
  BY LenProperties
<1>2. DOMAIN q = 1 .. k /\ \A i \in 1 .. k : q[i] \in Nat
  BY <1>1, ElementOfSeq
<1>3. Base \in Nat /\ 1 < Base
  BY CodecAssumption
<1>4. PICK l : l = Low(q)
  OBVIOUS
<1>5. l \in Seq(Nat) /\ Len(l) = k
  <2>1. \A i \in 1 .. k : q[i] % Base \in Nat
    BY <1>2, <1>3
  <2>2. l \in [1 .. k -> Nat]
    BY <1>2, <1>4, <2>1 DEF Low
  <2>3. QED
    BY <2>2, FunctionIsSeq
<1>6. PICK s, t : s = Prepended(d, q) /\ t = Prepended(d % Base, l)
  OBVIOUS
<1>7. d % Base \in Nat
  BY <1>3
<1>8. /\ s \in Seq(Nat) /\ t \in Seq(Nat) /\ Len(s) = k + 1 /\ Len(t) = k + 1
  <2>1. s \in Seq(Nat) /\ Len(s) = k + 1
    BY <1>1, <1>6, ConsType
  <2>2. t \in Seq(Nat) /\ Len(t) = k + 1
    BY <1>5, <1>6, <1>7, ConsType
  <2>3. QED
    BY <2>1, <2>2
<1>9. DOMAIN s = 1 .. k + 1 /\ DOMAIN t = 1 .. k + 1
  BY <1>8, LenProperties
<1>10. ASSUME NEW i \in 1 .. k + 1 PROVE t[i] = s[i] % Base
  <2>1. CASE i = 1
    BY <1>6, <2>1 DEF Prepended, Cat
  <2>2. CASE i # 1
    <3>1. i - 1 \in 1 .. k
      BY <2>2
    <3>2. s[i] = q[i - 1] /\ t[i] = l[i - 1]
      BY <1>1, <1>5, <1>6, <2>2, <3>1 DEF Prepended, Cat
    <3>3. l[i - 1] = q[i - 1] % Base
      BY <1>2, <1>4, <3>1 DEF Low
    <3>4. QED
      BY <3>2, <3>3
  <2>3. QED
    BY <2>1, <2>2
<1>11. t = [i \in 1 .. k + 1 |-> s[i] % Base]
  <2>1. t = [i \in 1 .. k + 1 |-> t[i]]
    BY <1>8, LenProperties
  <2>2. QED
    BY <1>10, <2>1
<1>12. Low(s) = [i \in 1 .. k + 1 |-> s[i] % Base]
  BY <1>9 DEF Low
<1>13. QED
  BY <1>4, <1>5, <1>6, <1>11, <1>12

(* All bytes but the last have the eighth bit, and the others are the number. *)
IsVarInt(p, n) ==
    /\ p \in Seq(Nat) /\ 0 < Len(p)
    /\ \A i \in 1 .. Len(p) : p[i] < Base <=> i = Len(p)
    /\ Value(Low(p), Base) = n

LEMMA VarIntCat ==
    ASSUME NEW n \in Nat, NEW q, IsVarInt(q, n), NEW d \in 0 .. Base - 1
    PROVE  IsVarInt(Prepended(d + Base, q), d + Base * n)
<1>1. Base \in Nat /\ 1 < Base
  BY CodecAssumption
<1>2. PICK c \in Nat : c = d + Base
  BY <1>1
<1>3. c % Base = d /\ d \in Nat /\ Base =< c
  BY <1>1, <1>2
<1>4. PICK p : p = Prepended(c, q)
  OBVIOUS
<1>5. q \in Seq(Nat)
  BY DEF IsVarInt
<1>6. PICK k \in Nat : k = Len(q)
  BY <1>5, LenProperties
<1>7. p \in Seq(Nat) /\ Len(p) = k + 1
  BY <1>4, <1>5, <1>6, ConsType
<1>8. 0 < k /\ \A i \in 1 .. k : q[i] < Base <=> i = k
  BY <1>6 DEF IsVarInt
<1>9. ASSUME NEW i \in 1 .. k + 1 PROVE p[i] < Base <=> i = k + 1
  <2>1. CASE i = 1
    BY <1>1, <1>3, <1>4, <1>8, <2>1 DEF Prepended, Cat
  <2>2. CASE i # 1
    <3>1. PICK j \in 1 .. k : j = i - 1
      BY <2>2
    <3>2. p[i] = q[j]
      BY <1>4, <1>5, <1>6, <3>1 DEF Prepended, Cat
    <3>3. QED
      BY <1>8, <3>1, <3>2
  <2>3. QED
    BY <2>1, <2>2
<1>10. Value(Low(p), Base) = d + Base * n
  <2>1. Low(p) = Prepended(d, Low(q)) /\ Low(q) \in Seq(Nat)
    BY <1>3, <1>4, <1>5, LowCat
  <2>2. Value(Prepended(d, Low(q)), Base) = d + Base * Value(Low(q), Base)
    BY <1>1, <1>3, <2>1, ValueCat
  <2>3. QED
    BY <2>1, <2>2 DEF IsVarInt
<1>11. IsVarInt(p, d + Base * n)
  BY <1>7, <1>8, <1>9, <1>10 DEF IsVarInt
<1>12. QED
  BY <1>2, <1>4, <1>11

LEMMA PackIsVarInt ==
    ASSUME NEW n \in Nat
    PROVE  IsVarInt(PackVarInt[n], n)
<1> DEFINE bad == {k \in Nat : ~IsVarInt(PackVarInt[k], k)}
<1>1. SUFFICES ASSUME bad # {} PROVE FALSE
  OBVIOUS
<1>2. PICK k \in bad : \A j \in bad : k =< j
  <2>1. bad \subseteq Nat
    OBVIOUS
  <2> HIDE DEF bad
  <2>2. QED
    BY <1>1, <2>1, Least
<1>3. k \in Nat /\ ~IsVarInt(PackVarInt[k], k)
  BY <1>2
<1>4. Base \in Nat /\ 1 < Base
  BY CodecAssumption
<1>5. CASE k < Base
  <2>1. PICK p : p = PackVarInt[k] /\ p = <<k>>
    BY <1>3, <1>5, PackVarIntIs
  <2>2. p \in Seq(Nat) /\ Len(p) = 1 /\ p[1] = k
    BY <1>3, <2>1, OneByte
  <2>3. k % Base = k
    BY <1>3, <1>4, <1>5
  <2>4. Value(Low(p), Base) = k
    <3>1. PICK e : e = <<>>
      OBVIOUS
    <3>2. e \in Seq(Nat) /\ p = Prepended(k, e)
      BY <2>1, <3>1 DEF Prepended, Cat
    <3>3. Low(e) = <<>>
      BY <3>1 DEF Low
    <3>4. Low(p) = Prepended(k, e)
      BY <1>3, <2>3, <3>1, <3>2, <3>3, LowCat
    <3>5. Value(Prepended(k, e), Base) = k + Base * Value(e, Base)
      BY <1>3, <1>4, <3>2, ValueCat
    <3>6. Value(e, Base) = 0
      BY <1>4, <3>1, ValueEmpty
    <3>7. QED
      BY <1>3, <1>4, <3>4, <3>5, <3>6
  <2>5. IsVarInt(p, k)
    BY <1>5, <2>2, <2>4 DEF IsVarInt
  <2>6. QED
    BY <1>3, <2>1, <2>5
<1>6. CASE ~(k < Base)
  <2>1. PICK q \in Nat, d \in 0 .. Base - 1 : q = k \div Base /\ d = k % Base
    BY <1>3, Digits
  <2>2. q < k /\ k = d + Base * q
    <3>1. k \div Base < k
      BY <1>3, <1>4, <1>6, Digits
    <3>2. k = Base * (k \div Base) + (k % Base)
      BY <1>3, <1>4
    <3>3. PICK x \in Int : x = Base * q
      BY <1>4
    <3>4. k = x + d
      BY <2>1, <3>2, <3>3
    <3>5. QED
      BY <2>1, <3>1, <3>3, <3>4
  <2>3. IsVarInt(PackVarInt[q], q)
    BY <1>2, <1>3, <2>2
  <2>4. PackVarInt[k] = Prepended(d + Base, PackVarInt[q])
    BY <1>3, <1>6, <2>1, PackVarIntIs DEF Prepended, Cat
  <2>5. IsVarInt(Prepended(d + Base, PackVarInt[q]), d + Base * q)
    BY <2>3, VarIntCat
  <2>6. QED
    BY <1>3, <2>2, <2>4, <2>5
<1>7. QED
  BY <1>5, <1>6

-----------------------------------------------------------------------------
(* The beginning of a sequence and the rest *)
Start(s, n) == SubSeq(s, 1, n)
Back(s, n) == SubSeq(s, n + 1, Len(s))

LEMMA SameSeq ==
    ASSUME NEW S, NEW s \in Seq(S), NEW t \in Seq(S), Len(s) = Len(t),
           \A i \in 1 .. Len(s) : s[i] = t[i]
    PROVE  s = t
BY SeqEqual

LEMMA FrontType ==
    ASSUME NEW S, NEW s \in Seq(S), NEW n \in Nat, n =< Len(s)
    PROVE  Start(s, n) \in Seq(S) /\ Len(Start(s, n)) = n
<1>1. \A i \in 1 .. n : s[i] \in S
  BY LenProperties, ElementOfSeq
<1>2. SubSeq(s, 1, n) \in Seq(S) /\ Len(SubSeq(s, 1, n)) = n
  BY <1>1, SubSeqProperties
<1>3. QED
  BY <1>2 DEF Start

LEMMA BackType ==
    ASSUME NEW S, NEW s \in Seq(S), NEW n \in Nat
    PROVE  /\ Back(s, n) \in Seq(S)
           /\ Len(Back(s, n)) = IF n =< Len(s) THEN Len(s) - n ELSE 0
<1>1. Len(s) \in Nat /\ \A i \in 1 .. Len(s) : s[i] \in S
  BY LenProperties, ElementOfSeq
<1>2. PICK a, b : a = n + 1 /\ b = Len(s)
  OBVIOUS
<1>3. a \in Int /\ b \in Int /\ \A i \in a .. b : s[i] \in S
  BY <1>1, <1>2
<1>4. SubSeq(s, a, b) \in Seq(S) /\ Len(SubSeq(s, a, b)) = IF a =< b THEN b - a + 1 ELSE 0
  BY <1>3, SubSeqProperties
<1>5. QED
  BY <1>1, <1>2, <1>4 DEF Back

LEMMA Rejoin ==
    ASSUME NEW S, NEW s \in Seq(S), NEW n \in Nat, n =< Len(s)
    PROVE  s = Cat(Start(s, n), Back(s, n))
<1>1. PICK f, b : f = Start(s, n) /\ b = Back(s, n)
  OBVIOUS
<1>2. PICK l \in Nat : l = Len(s)
  BY LenProperties
<1>3. /\ f \in Seq(S) /\ Len(f) = n /\ b \in Seq(S) /\ Len(b) = l - n
      /\ \A i \in 1 .. n : f[i] = s[i]
      /\ \A i \in 1 .. l - n : b[i] = s[n + i]
  <2>1. f \in Seq(S) /\ Len(f) = n
    BY <1>1, FrontType
  <2>2. b \in Seq(S) /\ Len(b) = l - n
    BY <1>1, <1>2, BackType
  <2>3. \A i \in 1 .. n : f[i] = s[i]
    BY <1>1, <1>2 DEF Start
  <2>4. \A i \in 1 .. l - n : b[i] = s[n + i]
    BY <1>1, <1>2 DEF Back
  <2>5. QED
    BY <2>1, <2>2, <2>3, <2>4
<1>4. PICK c : c = Cat(f, b)
  OBVIOUS
<1>5. c \in Seq(S) /\ Len(c) = Len(f) + Len(b)
  BY <1>3, <1>4, CatType
<1>6. Len(c) = l
  BY <1>2, <1>3, <1>5
<1>7. ASSUME NEW i \in 1 .. l PROVE s[i] = c[i]
  <2>1. CASE i =< n
    BY <1>3, <1>4, <2>1 DEF Cat
  <2>2. CASE n < i
    <3>1. PICK j \in 1 .. l - n : j = i - n
      BY <1>2, <2>2
    <3>2. c[i] = b[j] /\ n + j = i
      BY <1>2, <1>3, <1>4, <2>2, <3>1 DEF Cat
    <3>3. QED
      BY <1>3, <3>2
  <2>3. QED
    BY <2>1, <2>2
<1>8. QED
  BY <1>1, <1>2, <1>4, <1>5, <1>6, <1>7, SameSeq

LEMMA PartsOfCat ==
    ASSUME NEW S, NEW s \in Seq(S), NEW t \in Seq(S)
    PROVE  Start(Cat(s, t), Len(s)) = s /\ Back(Cat(s, t), Len(s)) = t
<1>1. PICK n \in Nat, k \in Nat : n = Len(s) /\ k = Len(t)
  BY LenProperties
<1>2. PICK c : c = Cat(s, t)
  OBVIOUS
<1>3. c \in Seq(S) /\ Len(c) = n + k
  BY <1>1, <1>2, CatType
<1>4. /\ \A i \in 1 .. n : c[i] = s[i]
      /\ \A i \in 1 .. k : c[n + i] = t[i]
  BY <1>1, <1>2 DEF Cat
<1>5. PICK f, b : f = Start(c, n) /\ b = Back(c, n)
  OBVIOUS
<1>6. /\ f \in Seq(S) /\ Len(f) = n /\ b \in Seq(S) /\ Len(b) = k
      /\ \A i \in 1 .. n : f[i] = c[i]
      /\ \A i \in 1 .. k : b[i] = c[n + i]
  <2>1. n =< Len(c) /\ Len(c) - n = k
    BY <1>3
  <2>2. f \in Seq(S) /\ Len(f) = n
    BY <1>3, <1>5, <2>1, FrontType
  <2>3. b \in Seq(S) /\ Len(b) = k
    BY <1>3, <1>5, <2>1, BackType
  <2>4. \A i \in 1 .. n : f[i] = c[i]
    BY <1>3, <1>5 DEF Start
  <2>5. \A i \in 1 .. k : b[i] = c[n + i]
    BY <1>3, <1>5 DEF Back
  <2>6. QED
    BY <2>2, <2>3, <2>4, <2>5
<1>7. f = s
  BY <1>1, <1>4, <1>6, SameSeq
<1>8. b = t
  BY <1>1, <1>4, <1>6, SameSeq
<1>9. QED
  BY <1>1, <1>2, <1>5, <1>7, <1>8

-----------------------------------------------------------------------------
(* Reading what was written, and what is left of it when it was cut *)

Bin == Seq(Int)

LEMMA BinCat ==
    ASSUME NEW x \in Bin, NEW y \in Bin
    PROVE  Cat(x, y) \in Bin
BY CatType DEF Bin

LEMMA BinLength ==
    ASSUME NEW x \in Bin, NEW y \in Bin
    PROVE  Len(x) \in Nat /\ Len(Cat(x, y)) = Len(x) + Len(y)
BY CatType, LenProperties DEF Bin

LEMMA BinAssociative ==
    ASSUME NEW x \in Bin, NEW y \in Bin, NEW z \in Bin
    PROVE  Cat(Cat(x, y), z) = Cat(x, Cat(y, z))
BY CatAssociative DEF Bin

LEMMA BinEmpty == <<>> \in Bin /\ \A x \in Bin : Cat(x, <<>>) = x
<1>1. \A x \in Bin : Cat(x, <<>>) = x
  BY ConcatEmptySeq DEF Bin, Cat
<1>2. QED
  BY <1>1, EmptySeq DEF Bin

LEMMA BinParts ==
    ASSUME NEW x \in Bin, NEW y \in Bin
    PROVE  Start(Cat(x, y), Len(x)) = x /\ Back(Cat(x, y), Len(x)) = y
BY PartsOfCat DEF Bin

LEMMA BinVarInt ==
    ASSUME NEW n \in Nat
    PROVE  PackVarInt[n] \in Bin
BY PackVarIntSeq DEF Bin

(* c is the beginning of w. *)
Cut(c, w) == c \in Bin /\ w \in Bin /\ Len(c) =< Len(w) /\ \A i \in 1 .. Len(c) : c[i] = w[i]

LEMMA CutWhole ==
    ASSUME NEW w \in Bin
    PROVE  Cut(w, w) /\ Cut(<<>>, w)
<1>1. Len(w) \in Nat /\ <<>> \in Bin /\ Len(<<>>) = 0
  BY LenProperties, EmptySeq DEF Bin
<1>2. QED
  BY <1>1 DEF Cut

LEMMA CutPrefix ==
    ASSUME NEW w \in Bin, NEW c \in Prefixes(w)
    PROVE  Cut(c, w)
<1>1. PICK l \in 0 .. Len(w) : c = SubSeq(w, 1, l)
  BY DEF Prefixes
<1>2. Len(w) \in Nat /\ l \in Nat /\ l =< Len(w)
  BY LenProperties DEF Bin
<1>3. c = Start(w, l)
  BY <1>1 DEF Start
<1>4. c \in Seq(Int) /\ Len(c) = l
  BY <1>2, <1>3, FrontType DEF Bin
<1>5. \A i \in 1 .. l : c[i] = w[i]
  BY <1>2, <1>3 DEF Start, Bin
<1>6. QED
  BY <1>2, <1>4, <1>5 DEF Cut, Bin

(* The cut is behind the first piece ... *)
LEMMA CutBehind ==
    ASSUME NEW p \in Bin, NEW rest \in Bin, NEW c, Cut(c, Cat(p, rest)), Len(p) =< Len(c)
    PROVE  c = Cat(p, Back(c, Len(p))) /\ Cut(Back(c, Len(p)), rest)
<1>1. PICK n \in Nat, k \in Nat, l \in Nat : n = Len(p) /\ k = Len(rest) /\ l = Len(c)
  BY LenProperties DEF Bin, Cut
<1>2. PICK w : w = Cat(p, rest)
  OBVIOUS
<1>3. /\ c \in Seq(Int) /\ n =< l /\ l =< n + k
      /\ \A i \in 1 .. l : c[i] = w[i]
      /\ \A i \in 1 .. n : w[i] = p[i]
      /\ \A i \in 1 .. k : w[n + i] = rest[i]
  <2>1. w \in Bin /\ Len(w) = Len(p) + Len(rest)
    BY <1>2, BinCat, BinLength
  <2>2. c \in Seq(Int) /\ Len(c) =< Len(w) /\ \A i \in 1 .. l : c[i] = w[i]
    BY <1>1, <1>2 DEF Cut, Bin
  <2>3. /\ \A i \in 1 .. n : w[i] = p[i]
        /\ \A i \in 1 .. k : w[n + i] = rest[i]
    BY <1>1, <1>2 DEF Cat, Bin
  <2>4. QED
    BY <1>1, <2>1, <2>2, <2>3
<1>4. PICK f, b : f = Start(c, n) /\ b = Back(c, n)
  OBVIOUS
<1>5. f \in Seq(Int) /\ Len(f) = n /\ \A i \in 1 .. n : f[i] = c[i]
  <2>1. f \in Seq(Int) /\ Len(f) = n
    BY <1>1, <1>3, <1>4, FrontType
  <2>2. \A i \in 1 .. n : f[i] = c[i]
    BY <1>1, <1>3, <1>4 DEF Start
  <2>3. QED
    BY <2>1, <2>2
<1>6. b \in Seq(Int) /\ Len(b) = l - n /\ \A i \in 1 .. l - n : b[i] = c[n + i]
  <2>1. b \in Seq(Int) /\ Len(b) = l - n
    BY <1>1, <1>3, <1>4, BackType
  <2>2. \A i \in 1 .. l - n : b[i] = c[n + i]
    BY <1>1, <1>3, <1>4 DEF Back
  <2>3. QED
    BY <2>1, <2>2
<1>7. f = p
  <2>1. \A i \in 1 .. n : i \in 1 .. l
    BY <1>3
  <2>2. \A i \in 1 .. n : f[i] = p[i]
    BY <1>3, <1>5, <2>1
  <2>3. p \in Seq(Int)
    BY DEF Bin
  <2>4. QED
    BY <1>1, <1>5, <2>2, <2>3, SameSeq
<1>8. c = Cat(f, b)
  BY <1>1, <1>3, <1>4, Rejoin
<1>9. Cut(b, rest)
  <2>1. \A i \in 1 .. l - n : b[i] = rest[i]
    <3>1. \A i \in 1 .. l - n : i \in 1 .. k /\ n + i \in 1 .. l
      BY <1>3
    <3>2. QED
      BY <1>3, <1>6, <3>1
  <2>2. Len(b) =< Len(rest)
    BY <1>1, <1>3, <1>6
  <2>3. QED
    BY <1>6, <2>1, <2>2 DEF Cut, Bin
<1>10. QED
  BY <1>1, <1>4, <1>7, <1>8, <1>9

(* ... or in it. *)
LEMMA CutIn ==
    ASSUME NEW p \in Bin, NEW rest \in Bin, NEW c, Cut(c, Cat(p, rest)), Len(c) < Len(p)
    PROVE  Len(c) \in Nat /\ \A i \in 1 .. Len(c) : c[i] = p[i]
<1>1. PICK n \in Nat, k \in Nat, l \in Nat : n = Len(p) /\ k = Len(rest) /\ l = Len(c)
  BY LenProperties DEF Bin, Cut
<1>2. PICK w : w = Cat(p, rest)
  OBVIOUS
<1>3. \A i \in 1 .. l : c[i] = w[i]
  BY <1>1, <1>2 DEF Cut
<1>4. \A i \in 1 .. n : w[i] = p[i]
  BY <1>1, <1>2 DEF Cat, Bin
<1>5. l < n
  BY <1>1
<1>6. QED
  BY <1>1, <1>3, <1>4, <1>5

-----------------------------------------------------------------------------
(* A varint is read as the number it was written for. *)
LEMMA ReadVarInt ==
    ASSUME NEW n \in Nat, n < W64, NEW w \in Nat, n < w, NEW rest \in Bin
    PROVE  UnPackVarInt(Cat(PackVarInt[n], rest), w) = Got(n, rest)
<1>1. PICK p, buf : p = PackVarInt[n] /\ buf = Cat(p, rest)
  OBVIOUS
<1>2. PICK l \in Nat, k \in Nat : l = Len(p) /\ k = Len(rest)
  BY <1>1, BinVarInt, LenProperties DEF Bin
<1>3. /\ p \in Bin /\ 0 < l /\ \A i \in 1 .. l : p[i] < Base <=> i = l
      /\ Value(Low(p), Base) = n
  BY <1>1, <1>2, PackIsVarInt, BinVarInt DEF IsVarInt
<1>4. /\ DOMAIN buf = 1 .. l + k
      /\ \A i \in 1 .. l : buf[i] = p[i]
  <2>1. buf \in Bin /\ Len(buf) = l + k
    BY <1>1, <1>2, <1>3, BinCat, BinLength
  <2>2. \A i \in 1 .. l : buf[i] = p[i]
    BY <1>1, <1>2, <1>3 DEF Cat, Bin
  <2>3. QED
    BY <2>1, <2>2, LenProperties DEF Bin
<1>5. PICK ends : ends = VarIntEnds(buf)
  OBVIOUS
<1>6. l \in ends /\ \A i \in ends : i \in Nat /\ l =< i
  <2>1. l \in ends
    BY <1>2, <1>3, <1>4, <1>5 DEF VarIntEnds
  <2>2. ASSUME NEW i \in ends PROVE i \in Nat /\ l =< i
    <3>1. i \in 1 .. l + k /\ buf[i] < Base
      BY <1>4, <1>5 DEF VarIntEnds
    <3>2. i < l => ~(buf[i] < Base)
      BY <1>3, <1>4, <3>1
    <3>3. QED
      BY <3>1, <3>2
  <2>3. QED
    BY <2>1, <2>2
<1>7. Min(ends) = l
  <2>1. \E x \in ends : \A y \in ends : x =< y
    BY <1>6
  <2>2. PICK m : m = Min(ends)
    OBVIOUS
  <2>3. m \in ends /\ \A y \in ends : m =< y
    BY <2>1, <2>2, Zenon DEF Min
  <2>4. m \in Nat /\ l =< m /\ m =< l
    BY <1>6, <2>3
  <2>5. QED
    BY <2>2, <2>4
<1>8. SubSeq(buf, 1, l) = p /\ SubSeq(buf, l + 1, Len(buf)) = rest
  BY <1>1, <1>2, <1>3, BinParts DEF Start, Back
<1>9. VarIntValue(p) % w = n
  <2>1. n % W64 = n /\ n % w = n
    BY CodecAssumption
  <2>2. VarIntValue(p) = n
    BY <1>3, <2>1 DEF VarIntValue, Low
  <2>3. QED
    BY <2>1, <2>2
<1>10. UnPackVarInt(buf, w) = Got(VarIntValue(SubSeq(buf, 1, l)) % w, SubSeq(buf, l + 1, Len(buf)))
  BY <1>5, <1>6, <1>7 DEF UnPackVarInt
<1>11. QED
  BY <1>1, <1>8, <1>9, <1>10

(* ... or not at all. *)
LEMMA CutVarInt ==
    ASSUME NEW n \in Nat, n < W64, NEW w \in Nat, n < w, NEW rest \in Bin,
           NEW c, Cut(c, Cat(PackVarInt[n], rest))
    PROVE  \/ UnPackVarInt(c, w) = Failed
           \/ \E d : UnPackVarInt(c, w) = Got(n, d) /\ Cut(d, rest)
<1>1. PICK p : p = PackVarInt[n]
  OBVIOUS
<1>2. p \in Bin /\ Len(p) \in Nat /\ \A i \in 1 .. Len(p) : p[i] < Base <=> i = Len(p)
  BY <1>1, PackIsVarInt, BinVarInt, LenProperties DEF IsVarInt, Bin
<1>3. c \in Bin /\ Len(c) \in Nat /\ DOMAIN c = 1 .. Len(c)
  BY LenProperties DEF Cut, Bin
<1>4. CASE Len(p) =< Len(c)
  <2>1. PICK d : d = Back(c, Len(p))
    OBVIOUS
  <2>2. c = Cat(p, d) /\ Cut(d, rest)
    BY <1>1, <1>2, <1>4, <2>1, CutBehind
  <2>3. d \in Bin
    BY <2>2 DEF Cut
  <2>4. UnPackVarInt(c, w) = Got(n, d)
    BY <1>1, <2>2, <2>3, ReadVarInt
  <2>5. QED
    BY <2>2, <2>4
<1>5. CASE Len(c) < Len(p)
  <2>1. \A i \in 1 .. Len(c) : c[i] = p[i]
    BY <1>1, <1>2, <1>5, CutIn
  <2>2. VarIntEnds(c) = {}
    <3>1. \A i \in 1 .. Len(c) : ~(c[i] < Base)
      BY <1>2, <1>3, <1>5, <2>1
    <3>2. QED
      BY <1>3, <3>1 DEF VarIntEnds
  <2>3. QED
    BY <2>2 DEF UnPackVarInt
<1>6. QED
  BY <1>2, <1>3, <1>4, <1>5

LEMMA ReadBytes ==
    ASSUME NEW s \in Bin, NEW rest \in Bin
    PROVE  Read(Cat(s, rest), Len(s)) = Got(s, rest)
<1>1. PICK n \in Nat, k \in Nat : n = Len(s) /\ k = Len(rest)
  BY LenProperties DEF Bin
<1>2. PICK buf : buf = Cat(s, rest)
  OBVIOUS
<1>3. buf \in Bin /\ Len(buf) = n + k
  BY <1>1, <1>2, BinCat, BinLength
<1>4. ~(n > 0 /\ buf = <<>>)
  BY <1>3
<1>5. [i \in 1 .. n |-> IF i =< Len(buf) THEN buf[i] ELSE 0] = s
  <2>1. \A i \in 1 .. n : (IF i =< Len(buf) THEN buf[i] ELSE 0) = s[i]
    <3>1. \A i \in 1 .. n : buf[i] = s[i]
      BY <1>1, <1>2 DEF Cat, Bin
    <3>2. QED
      BY <1>3, <3>1
  <2>2. s = [i \in 1 .. n |-> s[i]]
    BY <1>1, LenProperties DEF Bin
  <2>3. [i \in 1 .. n |-> IF i =< Len(buf) THEN buf[i] ELSE 0] = [i \in 1 .. n |-> s[i]]
    BY <2>1
  <2>4. QED
    BY <2>2, <2>3
<1>6. SubSeq(buf, n + 1, Len(buf)) = rest
  BY <1>1, <1>2, BinParts DEF Back
<1>7. QED
  BY <1>1, <1>2, <1>4, <1>5, <1>6 DEF Read

(* Bytes that were cut are filled up, and nothing is left. *)
LEMMA CutBytes ==
    ASSUME NEW s \in Bin, NEW rest \in Bin, NEW c, Cut(c, Cat(s, rest))
    PROVE  \/ Read(c, Len(s)) = Failed
           \/ \E v, d : Read(c, Len(s)) = Got(v, d) /\ Cut(d, rest)
<1>1. c \in Bin /\ Len(c) \in Nat /\ Len(s) \in Nat
  BY LenProperties DEF Cut, Bin
<1>2. CASE Len(s) =< Len(c)
  <2>1. PICK d : d = Back(c, Len(s))
    OBVIOUS
  <2>2. c = Cat(s, d) /\ Cut(d, rest)
    BY <1>2, <2>1, CutBehind
  <2>3. d \in Bin
    BY <2>2 DEF Cut
  <2>4. Read(c, Len(s)) = Got(s, d)
    BY <2>2, <2>3, ReadBytes
  <2>5. QED
    BY <2>2, <2>4
<1>3. CASE Len(c) < Len(s)
  <2>1. SubSeq(c, Len(s) + 1, Len(c)) = <<>>
    BY <1>1, <1>3, SubSeqEmpty
  <2>2. Cut(<<>>, rest)
    BY CutWhole
  <2>3. QED
    BY <2>1, <2>2 DEF Read
<1>4. QED
  BY <1>1, <1>2, <1>3

LEMMA DivDiv ==
    ASSUME NEW n \in Nat, NEW a \in Nat, a > 0, NEW b \in Nat, b > 0
    PROVE  n \div (a * b) = (n \div b) \div a
<1>1. PICK c \in Nat : c = a * b /\ c > 0
  OBVIOUS
<1>2. PICK x, y, z : x = n \div c /\ y = n \div b /\ z = y \div a
  OBVIOUS
<1>3. x \in Nat /\ y \in Nat /\ z \in Nat
  BY <1>1, <1>2, DivBounds
<1>4. ASSUME NEW k \in Nat PROVE k =< x <=> k =< z
  <2>1. k =< x <=> k * c =< n
    BY <1>1, <1>2, DivLarge
  <2>2. k =< z <=> k * a =< y
    BY <1>2, <1>3, DivLarge
  <2>3. PICK j \in Nat : j = k * a
    OBVIOUS
  <2>4. j =< y <=> j * b =< n
    BY <1>2, DivLarge
  <2>5. j * b = k * c
    BY <1>1, <2>3
  <2>6. QED
    BY <2>1, <2>2, <2>3, <2>4, <2>5
<1>5. x =< z /\ z =< x
  BY <1>3, <1>4
<1>6. QED
  BY <1>1, <1>2, <1>3, <1>5

LEMMA DivMod ==
    ASSUME NEW n \in Nat, NEW m \in Nat, m > 0
    PROVE  n % m \in 0 .. m - 1 /\ n = (n % m) + m * (n \div m)
<1>1. n = m * (n \div m) + (n % m) /\ n % m \in 0 .. m - 1
  OBVIOUS
<1>2. PICK q \in Nat, x \in Nat : q = n \div m /\ x = m * q
  BY DivBounds
<1>3. n = x + (n % m)
  BY <1>1, <1>2
<1>4. QED
  BY <1>1, <1>2, <1>3

-----------------------------------------------------------------------------
(* The four bytes of a uint32 *)

LEMMA U32Bytes ==
    ASSUME NEW n \in Nat
    PROVE  packU32(n) \in Seq(Nat) /\ packU32(n) \in Bin /\ Len(packU32(n)) = U32Len
<1>1. W8 \in Nat /\ W8 > 0 /\ U32Len \in Nat
  BY CodecAssumption DEF W8
<1>2. ASSUME NEW i \in 1 .. U32Len PROVE (n \div PowerOfW8(i - 1)) % W8 \in Nat
  <2>1. i - 1 \in Nat
    BY <1>1
  <2>2. PICK d \in Nat : d = PowerOfW8(i - 1) /\ d > 0
    BY <2>1, Powers
  <2>3. PICK q \in Nat : q = n \div d
    BY <2>2, DivBounds
  <2>4. q % W8 \in Nat
    BY <1>1
  <2>5. QED
    BY <2>2, <2>3, <2>4
<1>3. packU32(n) \in [1 .. U32Len -> Nat]
  BY <1>2 DEF packU32
<1>4. PICK u : u = packU32(n)
  OBVIOUS
<1>5. u \in Seq(Nat) /\ Len(u) = U32Len
  BY <1>1, <1>3, <1>4, FunctionIsSeq
<1>6. u \in Seq(Int)
  BY <1>5
<1>7. QED
  BY <1>4, <1>5, <1>6 DEF Bin

LEMMA U32Value ==
    ASSUME NEW n \in 0 .. W32 - 1
    PROVE  n \in Nat /\ Value(packU32(n), W8) = n
<1>1. W8 \in Nat /\ W8 > 0 /\ U32Len \in Nat
  BY CodecAssumption DEF W8
<1>2. W32 = PowerOfW8(U32Len) /\ W32 \in Nat \ {0}
  BY <1>1, Powers DEF W32
<1>3. n \in Nat /\ n < W32
  BY <1>2
<1>4. PICK u : u = packU32(n)
  OBVIOUS
<1>5. u \in Seq(Nat) /\ Len(u) = U32Len
  BY <1>3, <1>4, U32Bytes
<1> DEFINE term == [i \in 1 .. U32Len |-> u[U32Len + 1 - i]]
<1>6. PICK f : IsLinear(f, 0, term, W8, U32Len) /\ Value(u, W8) = f[U32Len]
  <2>1. \E f : /\ IsLinear(f, 0, [i \in 1 .. Len(u) |-> u[Len(u) + 1 - i]], W8, Len(u))
               /\ Value(u, W8) = f[Len(u)]
    BY <1>1, <1>5, ValueIs
  <2>2. QED
    BY <1>5, <2>1
<1>7. ASSUME NEW i \in 1 .. U32Len
      PROVE  term[i] = (n \div PowerOfW8(U32Len - i)) % W8
  <2>1. PICK j \in 1 .. U32Len : j = U32Len + 1 - i
    BY <1>1
  <2>2. term[i] = u[j] /\ j - 1 = U32Len - i
    BY <1>1, <2>1
  <2>3. u[j] = (n \div PowerOfW8(j - 1)) % W8
    BY <1>4 DEF packU32
  <2>4. QED
    BY <2>2, <2>3
<1> HIDE DEF term
<1> DEFINE bad == {i \in 0 .. U32Len : f[i] # n \div PowerOfW8(U32Len - i)}
<1>8. bad = {}
  <2>1. SUFFICES ASSUME bad # {} PROVE FALSE
    OBVIOUS
  <2>2. PICK i \in bad : \A j \in bad : i =< j
    <3>1. bad \subseteq Nat
      OBVIOUS
    <3> HIDE DEF bad
    <3>2. QED
      BY <2>1, <3>1, Least
  <2>3. i \in Nat /\ i =< U32Len /\ f[i] # n \div PowerOfW8(U32Len - i)
    BY <2>2
  <2>4. f[i] = IF i = 0 THEN 0 ELSE term[i] + W8 * f[i - 1]
    BY <1>6, <2>3 DEF IsLinear
  <2>5. CASE i = 0
    <3>1. U32Len - i = U32Len
      BY <1>1, <2>5
    <3>2. n \div W32 = 0
      <4>1. PICK q \in Nat : q = n \div W32 /\ q * W32 =< n
        BY <1>2, <1>3, DivBounds
      <4>2. q = 0
        <5> SUFFICES ASSUME 1 =< q PROVE FALSE
          OBVIOUS
        <5>1. 1 * W32 =< q * W32
          BY <1>2
        <5>2. q * W32 \in Int
          BY <1>2
        <5>3. QED
          BY <1>2, <1>3, <4>1, <5>1, <5>2
      <4>3. QED
        BY <4>1, <4>2
    <3>3. QED
      BY <1>2, <2>3, <2>4, <2>5, <3>1, <3>2
  <2>6. CASE i # 0
    <3>1. PICK h \in Nat, j \in Nat : h = i - 1 /\ j = U32Len - i
      <4>1. i - 1 \in Nat /\ U32Len - i \in Nat
        BY <1>1, <2>3, <2>6
      <4>2. QED
        BY <4>1
    <3>2. h \in 0 .. U32Len /\ ~(i =< h) /\ U32Len - h = j + 1
      BY <1>1, <2>3, <3>1
    <3>3. f[h] = n \div PowerOfW8(j + 1)
      BY <2>2, <3>2
    <3>4. PICK d \in Nat : d = PowerOfW8(j) /\ d > 0 /\ PowerOfW8(j + 1) = W8 * d
      BY Powers
    <3>5. PICK q \in Nat : q = n \div d
      BY <1>3, <3>4, DivBounds
    <3>6. n \div (W8 * d) = q \div W8
      BY <1>1, <1>3, <3>4, <3>5, DivDiv
    <3>7. q = (q % W8) + W8 * (q \div W8)
      BY <1>1, DivMod
    <3>8. term[i] = q % W8
      <4>1. i \in 1 .. U32Len
        BY <2>3, <2>6
      <4>2. QED
        BY <1>7, <3>1, <3>4, <3>5, <4>1
    <3>9. f[i] = q
      BY <2>4, <2>6, <3>1, <3>3, <3>4, <3>6, <3>7, <3>8
    <3>10. QED
      BY <2>3, <3>1, <3>4, <3>5, <3>9
  <2>7. QED
    BY <2>5, <2>6
<1>9. f[U32Len] = n \div PowerOfW8(0)
  <2>1. U32Len \in 0 .. U32Len /\ U32Len - U32Len = 0
    BY <1>1
  <2>2. f[U32Len] = n \div PowerOfW8(U32Len - U32Len)
    BY <1>8, <2>1
  <2>3. QED
    BY <2>1, <2>2
<1>10. n \div 1 = n
  BY <1>3
<1>11. QED
  BY <1>3, <1>4, <1>6, <1>9, <1>10, Powers

LEMMA ReadU32 ==
    ASSUME NEW n \in 0 .. W32 - 1, NEW rest \in Bin
    PROVE  UnpackU32(Cat(packU32(n), rest)) = Got(n, rest)
<1>1. n \in Nat /\ Value(packU32(n), W8) = n
  BY U32Value
<1>2. PICK u : u = packU32(n)
  OBVIOUS
<1>3. u \in Bin /\ Len(u) = U32Len
  BY <1>1, <1>2, U32Bytes
<1>4. Read(Cat(u, rest), U32Len) = Got(u, rest)
  BY <1>3, ReadBytes
<1>5. UnpackU32(Cat(u, rest)) = Got(Value(u, W8), rest)
  BY <1>4 DEF UnpackU32, Got
<1>6. QED
  BY <1>1, <1>2, <1>5

LEMMA CutU32 ==
    ASSUME NEW u \in Bin, Len(u) = U32Len, NEW rest \in Bin, NEW c, Cut(c, Cat(u, rest))
    PROVE  \/ UnpackU32(c) = Failed
           \/ \E v, d : UnpackU32(c) = Got(v, d) /\ Cut(d, rest)
<1>1. CASE Read(c, U32Len) = Failed
  BY <1>1 DEF UnpackU32, Failed
<1>2. ASSUME NEW v, NEW d, Read(c, U32Len) = Got(v, d), Cut(d, rest)
      PROVE  UnpackU32(c) = Got(Value(v, W8), d)
  BY <1>2 DEF UnpackU32, Got
<1>3. \/ Read(c, U32Len) = Failed
      \/ \E v, d : Read(c, U32Len) = Got(v, d) /\ Cut(d, rest)
  BY CutBytes
<1>4. QED
  BY <1>1, <1>2, <1>3

-----------------------------------------------------------------------------
(* Structs *)

(* The struct with the fields F of b *)
Fields(b, F) == [f \in F |-> b[f]]

(* Reading has given the fields F of b, and rest is left. *)
ReadOf(r, b, F, rest) == r = Got(Fields(b, F), rest)

(* v with another field *)
Added(v, f, x) == [g \in DOMAIN v \cup {f} |-> IF g = f THEN x ELSE v[g]]

LEMMA NoFields ==
    ASSUME NEW b, NEW rest
    PROVE  ReadOf(Got(<<>>, rest), b, {}, rest)
<1>1. Fields(b, {}) = <<>>
  BY DEF Fields
<1>2. QED
  BY <1>1 DEF ReadOf

LEMMA AddedField ==
    ASSUME NEW b, NEW F, NEW f, f \notin F
    PROVE  Added(Fields(b, F), f, b[f]) = Fields(b, F \cup {f})
BY Zenon DEF Added, Fields

LEMMA WithGot ==
    ASSUME NEW v, NEW d, NEW f, NEW x, NEW e
    PROVE  With(Got(v, d), f, Got(x, e)) = Got(Added(v, f, x), e)
BY DEF With, Got, Added

LEMMA WithFailed ==
    ASSUME NEW r, NEW f, NEW q, r = Failed \/ q = Failed
    PROVE  With(r, f, q) = Failed
BY DEF With, Failed

LEMMA WithRead ==
    ASSUME NEW b, NEW F, NEW f, f \notin F, NEW d, NEW rest
    PROVE  ReadOf(With(Got(Fields(b, F), d), f, Got(b[f], rest)), b, F \cup {f}, rest)
BY WithGot, AddedField DEF ReadOf

LEMMA VarIntRead ==
    ASSUME NEW b, NEW F, NEW f, f \notin F, NEW rest \in Bin, NEW w \in Nat,
           b[f] \in Nat, b[f] < W64, b[f] < w,
           NEW r, ReadOf(r, b, F, Cat(PackVarInt[b[f]], rest))
    PROVE  ReadOf(VarInt(r, f, w), b, F \cup {f}, rest)
<1>1. PICK n \in Nat : n = b[f]
  OBVIOUS
<1>2. PICK c : c = Cat(PackVarInt[n], rest)
  OBVIOUS
<1>3. r = Got(Fields(b, F), c)
  BY <1>1, <1>2 DEF ReadOf
<1>4. VarInt(r, f, w) = With(r, f, UnPackVarInt(c, w))
  BY <1>3 DEF VarInt, Got
<1>5. UnPackVarInt(c, w) = Got(b[f], rest)
  BY <1>1, <1>2, ReadVarInt
<1>6. VarInt(r, f, w) = With(Got(Fields(b, F), c), f, Got(b[f], rest))
  BY <1>3, <1>4, <1>5
<1>7. ReadOf(With(Got(Fields(b, F), c), f, Got(b[f], rest)), b, F \cup {f}, rest)
  BY WithRead
<1>8. QED
  BY <1>6, <1>7

LEMMA BytesRead ==
    ASSUME NEW b, NEW F, NEW f, f \notin F, NEW rest \in Bin, b[f] \in Bin,
           NEW r, ReadOf(r, b, F, Cat(b[f], rest))
    PROVE  ReadOf(Bytes(r, f, Len(b[f])), b, F \cup {f}, rest)
<1>1. PICK s \in Bin : s = b[f]
  OBVIOUS
<1>2. PICK c : c = Cat(s, rest)
  OBVIOUS
<1>3. r = Got(Fields(b, F), c)
  BY <1>1, <1>2 DEF ReadOf
<1>4. Bytes(r, f, Len(s)) = With(r, f, Read(c, Len(s)))
  BY <1>3 DEF Bytes, Got
<1>5. Read(c, Len(s)) = Got(b[f], rest)
  BY <1>1, <1>2, ReadBytes
<1>6. Bytes(r, f, Len(b[f])) = With(Got(Fields(b, F), c), f, Got(b[f], rest))
  BY <1>1, <1>3, <1>4, <1>5
<1>7. ReadOf(With(Got(Fields(b, F), c), f, Got(b[f], rest)), b, F \cup {f}, rest)
  BY WithRead
<1>8. QED
  BY <1>6, <1>7

-----------------------------------------------------------------------------
(* Structs that were cut *)

(* Reading has failed, or is where rest begins. *)
CutOf(r, rest) == r = Failed \/ \E v, d : r = Got(v, d) /\ Cut(d, rest)

LEMMA WithCut ==
    ASSUME NEW r, NEW f, NEW q, NEW rest, CutOf(q, rest), r = Failed \/ \E v, d : r = Got(v, d)
    PROVE  CutOf(With(r, f, q), rest)
<1>1. CASE r = Failed \/ q = Failed
  BY <1>1, WithFailed DEF CutOf
<1>2. ASSUME NEW v, NEW d, r = Got(v, d), NEW x, NEW e, q = Got(x, e), Cut(e, rest)
      PROVE  CutOf(With(r, f, q), rest)
  BY <1>2, WithGot DEF CutOf
<1>3. QED
  BY <1>1, <1>2 DEF CutOf

LEMMA VarIntCut ==
    ASSUME NEW n \in Nat, n < W64, NEW w \in Nat, n < w, NEW rest \in Bin, NEW f,
           NEW r, CutOf(r, Cat(PackVarInt[n], rest))
    PROVE  CutOf(VarInt(r, f, w), rest)
<1>1. CASE r = Failed
  BY <1>1, WithFailed DEF VarInt, CutOf
<1>2. ASSUME NEW v, NEW d, r = Got(v, d), Cut(d, Cat(PackVarInt[n], rest))
      PROVE  CutOf(VarInt(r, f, w), rest)
  <2>1. VarInt(r, f, w) = With(r, f, UnPackVarInt(d, w))
    BY <1>2 DEF VarInt, Got
  <2>2. CutOf(UnPackVarInt(d, w), rest)
    BY <1>2, CutVarInt DEF CutOf
  <2>3. QED
    BY <1>2, <2>1, <2>2, WithCut
<1>3. QED
  BY <1>1, <1>2 DEF CutOf

LEMMA BytesCut ==
    ASSUME NEW s \in Bin, NEW rest \in Bin, NEW f, NEW r, CutOf(r, Cat(s, rest))
    PROVE  CutOf(Bytes(r, f, Len(s)), rest)
<1>1. CASE r = Failed
  BY <1>1, WithFailed DEF Bytes, CutOf
<1>2. ASSUME NEW v, NEW d, r = Got(v, d), Cut(d, Cat(s, rest))
      PROVE  CutOf(Bytes(r, f, Len(s)), rest)
  <2>1. Bytes(r, f, Len(s)) = With(r, f, Read(d, Len(s)))
    BY <1>2 DEF Bytes, Got
  <2>2. CutOf(Read(d, Len(s)), rest)
    BY <1>2, CutBytes DEF CutOf
  <2>3. QED
    BY <1>2, <2>1, <2>2, WithCut
<1>3. QED
  BY <1>1, <1>2 DEF CutOf

-----------------------------------------------------------------------------
(* Blocks whose numbers and hashes have the size of their fields *)

IsHash(x) == x \in Bin /\ Len(x) = HashLen
TxOuts == {out \in [amount : 0 .. W64 - 1, pubKey : Bin, viewTag : Bin] :
              Len(out.pubKey) = PubKeyLen /\ Len(out.viewTag) = 1}
Inputs == {h \in Nat \ {0} : Base * (h + 1) =< W32}

Readable(b) ==
    /\ b.major \in Nat /\ b.major < W8 /\ b.minor \in Nat /\ b.minor < W8
    /\ b.timestamp \in Nat /\ b.timestamp < W64
    /\ IsHash(b.prevId) /\ b.nonce \in 0 .. W32 - 1
    /\ b.version \in Nat /\ b.version < W64 /\ b.unlockTime \in Nat /\ b.unlockTime < W64
    /\ \E h \in Inputs : b.vin = <<h>>
    /\ \E out \in TxOuts : b.vout = <<out>>
    /\ b.extra \in Bin /\ Len(b.extra) < W64
    /\ b.rctSigType \in Nat /\ b.rctSigType < W8
    /\ b.txHashes \in Seq(Bin) /\ Len(b.txHashes) + 1 < W64
    /\ \A i \in 1 .. Len(b.txHashes) : IsHash(b.txHashes[i])

(* A height with its tag, as TxInGen reads it *)
Tagged(h) == Base * h + (Base - 1)

LEMMA TagIs ==
    ASSUME NEW h \in Inputs
    PROVE  /\ Tagged(h) \in Nat /\ Tagged(h) < W32 /\ Tagged(h) < W64
           /\ <<TxInTag>> \o PackVarInt[h] = PackVarInt[Tagged(h)]
<1>1. Base \in Nat /\ 1 < Base /\ h \in Nat /\ 0 < h /\ Base * (h + 1) =< W32
  BY CodecAssumption DEF Inputs
<1>2. PICK x \in Nat : x = Base * h
  BY <1>1
<1>3. Base * (h + 1) = x + Base
  BY <1>1, <1>2
<1>4. W32 \in Nat /\ W64 \in Nat /\ W32 =< W64
  BY Powers, CodecAssumption, TemplatesAssumption DEF W32
<1>5. PICK m : m = Tagged(h)
  OBVIOUS
<1>6. m = x + (Base - 1)
  BY <1>2, <1>5 DEF Tagged
<1>7. m \in Nat /\ m < W32 /\ m < W64
  BY <1>1, <1>2, <1>3, <1>4, <1>6
<1>8. Base =< x
  <2>1. Base * 1 =< Base * h
    BY <1>1
  <2>2. QED
    BY <1>1, <1>2, <2>1
<1>9. PICK q \in Nat, d \in 0 .. Base - 1 : q = m \div Base /\ d = m % Base /\ m = d + Base * q
  <2>1. m \div Base \in Nat
    BY <1>1, <1>7, DivBounds
  <2>2. m % Base \in 0 .. Base - 1 /\ m = (m % Base) + Base * (m \div Base)
    BY <1>1, <1>7, DivMod
  <2>3. QED
    BY <2>1, <2>2
<1>10. q = h /\ d = Base - 1
  <2>1. PICK y \in Nat : y = Base * q
    BY <1>1
  <2>2. y + d = x + (Base - 1)
    BY <1>6, <1>9, <2>1
  <2>3. ~(q < h)
    <3> SUFFICES ASSUME q < h PROVE FALSE
      OBVIOUS
    <3>1. Base * (q + 1) =< Base * h
      BY <1>1
    <3>2. Base * (q + 1) = y + Base
      BY <1>1, <2>1
    <3>3. y + Base =< x
      BY <1>2, <3>1, <3>2
    <3>4. QED
      BY <1>1, <2>2, <3>3
  <2>4. ~(h < q)
    <3> SUFFICES ASSUME h < q PROVE FALSE
      OBVIOUS
    <3>1. Base * (h + 1) =< Base * q
      BY <1>1
    <3>2. x + Base =< y
      BY <1>3, <2>1, <3>1
    <3>3. QED
      BY <1>1, <2>2, <3>2
  <2>5. q = h
    BY <1>1, <2>3, <2>4
  <2>6. QED
    BY <1>1, <1>2, <2>1, <2>2, <2>5
<1>11. PackVarInt[m] = <<d + Base>> \o PackVarInt[q]
  <2>1. ~(m < Base)
    BY <1>1, <1>2, <1>6, <1>8
  <2>2. QED
    BY <1>7, <1>9, <2>1, PackVarIntIs
<1>12. d + Base = TxInTag
  BY <1>1, <1>10 DEF TxInTag, W8
<1>13. QED
  BY <1>5, <1>7, <1>10, <1>11, <1>12

-----------------------------------------------------------------------------
(* What is left of a blob when reading comes to a field *)

NonceTail(b, rest) == Cat(packU32(b.nonce), rest)
PrevTail(b, rest) == Cat(b.prevId, NonceTail(b, rest))
TimeTail(b, rest) == Cat(PackVarInt[b.timestamp], PrevTail(b, rest))
MinorTail(b, rest) == Cat(PackVarInt[b.minor], TimeTail(b, rest))
MajorTail(b, rest) == Cat(PackVarInt[b.major], MinorTail(b, rest))

TxsTail(b) == Cat(PackVarInt[Len(b.txHashes)], FlattenSeq(b.txHashes))
RctTail(b) == Cat(PackVarInt[b.rctSigType], TxsTail(b))
ExtraTail(b) == Cat(PackVarInt[Len(b.extra)], Cat(b.extra, RctTail(b)))
OutTail(out, rest) == Cat(PackVarInt[out.amount], Cat(out.pubKey, Cat(out.viewTag, rest)))
VoutTail(b) == Cat(PackVarInt[1], OutTail(b.vout[1], ExtraTail(b)))
VinTail(b) == Cat(PackVarInt[1], Cat(PackVarInt[Tagged(Height(b))], VoutTail(b)))
UnlockTail(b) == Cat(PackVarInt[b.unlockTime], VinTail(b))
VersionTail(b) == Cat(PackVarInt[b.version], UnlockTail(b))

LEMMA Regroup ==
    ASSUME NEW x \in Bin, NEW p \in Bin, NEW t \in Bin, NEW y, y = Cat(x, p), NEW u, u = Cat(p, t)
    PROVE  Cat(y, t) = Cat(x, u)
BY BinAssociative

(* The header *)
HeaderFields(b) ==
    /\ b.major \in Nat /\ b.major < W8 /\ b.minor \in Nat /\ b.minor < W8
    /\ b.timestamp \in Nat /\ b.timestamp < W64
    /\ IsHash(b.prevId) /\ b.nonce \in 0 .. W32 - 1

LEMMA NonceNat ==
    ASSUME NEW b, HeaderFields(b)
    PROVE  b.nonce \in Nat /\ packU32(b.nonce) \in Bin /\ Len(packU32(b.nonce)) = U32Len
<1>1. b.nonce \in 0 .. W32 - 1
  BY DEF HeaderFields
<1>2. PICK n \in 0 .. W32 - 1 : n = b.nonce
  BY <1>1
<1>3. n \in Nat
  BY U32Value
<1>4. packU32(n) \in Bin /\ Len(packU32(n)) = U32Len
  BY <1>3, U32Bytes
<1>5. QED
  BY <1>2, <1>3, <1>4

LEMMA HeaderTails ==
    ASSUME NEW b, HeaderFields(b), NEW rest \in Bin
    PROVE  /\ NonceTail(b, rest) \in Bin /\ PrevTail(b, rest) \in Bin /\ TimeTail(b, rest) \in Bin
           /\ MinorTail(b, rest) \in Bin /\ MajorTail(b, rest) \in Bin
<1>1. /\ PackVarInt[b.major] \in Bin /\ PackVarInt[b.minor] \in Bin
      /\ PackVarInt[b.timestamp] \in Bin /\ b.prevId \in Bin
  BY BinVarInt DEF HeaderFields, IsHash
<1>2. NonceTail(b, rest) \in Bin
  BY NonceNat, BinCat DEF NonceTail
<1>3. PrevTail(b, rest) \in Bin
  BY <1>1, <1>2, BinCat DEF PrevTail
<1>4. TimeTail(b, rest) \in Bin
  BY <1>1, <1>3, BinCat DEF TimeTail
<1>5. MinorTail(b, rest) \in Bin
  BY <1>1, <1>4, BinCat DEF MinorTail
<1>6. MajorTail(b, rest) \in Bin
  BY <1>1, <1>5, BinCat DEF MajorTail
<1>7. QED
  BY <1>2, <1>3, <1>4, <1>5, <1>6

LEMMA HeaderIs ==
    ASSUME NEW b, HeaderFields(b), NEW rest \in Bin
    PROVE  PackHeader(b) \in Bin /\ Cat(PackHeader(b), rest) = MajorTail(b, rest)
<1>1. PICK p, q, r, s, u : /\ p = PackVarInt[b.major] /\ q = PackVarInt[b.minor]
                           /\ r = PackVarInt[b.timestamp] /\ s = b.prevId /\ u = packU32(b.nonce)
  OBVIOUS
<1>2. p \in Bin /\ q \in Bin /\ r \in Bin /\ s \in Bin /\ u \in Bin
  BY <1>1, BinVarInt, NonceNat DEF HeaderFields, IsHash
<1>3. PackHeader(b) = Cat(Cat(Cat(Cat(p, q), r), s), u)
  BY <1>1 DEF PackHeader, Cat
<1>4. PICK x, y, z : x = Cat(p, q) /\ y = Cat(x, r) /\ z = Cat(y, s)
  OBVIOUS
<1>5. x \in Bin /\ y \in Bin /\ z \in Bin
  BY <1>2, <1>4, BinCat
<1>6. Cat(z, u) \in Bin /\ Cat(Cat(z, u), rest) = Cat(z, NonceTail(b, rest))
  BY <1>1, <1>2, <1>5, BinCat, BinAssociative DEF NonceTail
<1>7. Cat(Cat(y, s), NonceTail(b, rest)) = Cat(y, PrevTail(b, rest))
  BY <1>1, <1>2, <1>5, HeaderTails, BinAssociative DEF PrevTail
<1>8. Cat(Cat(x, r), PrevTail(b, rest)) = Cat(x, TimeTail(b, rest))
  BY <1>1, <1>2, <1>5, HeaderTails, BinAssociative DEF TimeTail
<1>9. Cat(Cat(p, q), TimeTail(b, rest)) = Cat(p, MinorTail(b, rest))
  BY <1>1, <1>2, <1>5, HeaderTails, BinAssociative DEF MinorTail
<1>10. QED
  BY <1>1, <1>3, <1>4, <1>6, <1>7, <1>8, <1>9 DEF MajorTail

(* The fields of a block that can be read *)
LEMMA ReadableParts ==
    ASSUME NEW b, Readable(b)
    PROVE  /\ HeaderFields(b) /\ Height(b) \in Inputs /\ b.vin = <<Height(b)>> /\ Len(b.vin) = 1
           /\ b.vout = <<b.vout[1]>> /\ Len(b.vout) = 1 /\ b.vout[1] \in TxOuts
           /\ Len(b.extra) \in Nat /\ Len(b.txHashes) \in Nat
           /\ FlattenSeq(b.txHashes) \in Bin
           /\ Len(b.txHashes) = 0 => FlattenSeq(b.txHashes) = <<>>
<1>1. HeaderFields(b)
  BY DEF Readable, HeaderFields
<1>2. PICK h \in Inputs : b.vin = <<h>>
  BY DEF Readable
<1>3. PICK out \in TxOuts : b.vout = <<out>>
  BY DEF Readable
<1>4. b.extra \in Bin /\ b.txHashes \in Seq(Bin)
  BY DEF Readable
<1>5. Len(b.extra) \in Nat /\ Len(b.txHashes) \in Nat
  BY <1>4, LenProperties DEF Bin
<1>6. FlattenSeq(b.txHashes) \in Bin /\ (Len(b.txHashes) = 0 => FlattenSeq(b.txHashes) = <<>>)
  BY <1>4, FlattenSeqs DEF Bin
<1>7. QED
  BY <1>1, <1>2, <1>3, <1>5, <1>6 DEF Height

LEMMA OutParts ==
    ASSUME NEW out \in TxOuts, NEW rest \in Bin
    PROVE  /\ out.amount \in Nat /\ out.amount < W64
           /\ out.pubKey \in Bin /\ Len(out.pubKey) = PubKeyLen
           /\ out.viewTag \in Bin /\ Len(out.viewTag) = 1
           /\ PackVarInt[out.amount] \in Bin /\ OutTail(out, rest) \in Bin
           /\ Cat(out.viewTag, rest) \in Bin /\ Cat(out.pubKey, Cat(out.viewTag, rest)) \in Bin
           /\ PackTxOut(out) \in Bin /\ Cat(PackTxOut(out), rest) = OutTail(out, rest)
<1>1. /\ out.amount \in 0 .. W64 - 1 /\ out.pubKey \in Bin /\ Len(out.pubKey) = PubKeyLen
      /\ out.viewTag \in Bin /\ Len(out.viewTag) = 1
  BY DEF TxOuts
<1>2. out.amount \in Nat /\ out.amount < W64
  BY <1>1, CodecAssumption
<1>3. PICK p, q, r : p = PackVarInt[out.amount] /\ q = out.pubKey /\ r = out.viewTag
  OBVIOUS
<1>4. p \in Bin /\ q \in Bin /\ r \in Bin
  BY <1>1, <1>2, <1>3, BinVarInt
<1>5. Cat(r, rest) \in Bin /\ Cat(q, Cat(r, rest)) \in Bin /\ Cat(p, Cat(q, Cat(r, rest))) \in Bin
  BY <1>4, BinCat
<1>6. PackTxOut(out) = Cat(Cat(p, q), r)
  BY <1>3 DEF PackTxOut, Cat
<1>7. Cat(p, q) \in Bin /\ Cat(Cat(p, q), r) \in Bin
  BY <1>4, BinCat
<1>8. Cat(Cat(Cat(p, q), r), rest) = Cat(Cat(p, q), Cat(r, rest))
  BY <1>4, <1>7, BinAssociative
<1>9. Cat(Cat(p, q), Cat(r, rest)) = Cat(p, Cat(q, Cat(r, rest)))
  BY <1>4, <1>5, BinAssociative
<1>10. QED
  BY <1>1, <1>2, <1>3, <1>4, <1>5, <1>6, <1>7, <1>8, <1>9 DEF OutTail

LEMMA BlockTails ==
    ASSUME NEW b, Readable(b)
    PROVE  /\ TxsTail(b) \in Bin /\ RctTail(b) \in Bin
           /\ Cat(b.extra, RctTail(b)) \in Bin /\ ExtraTail(b) \in Bin
           /\ OutTail(b.vout[1], ExtraTail(b)) \in Bin /\ VoutTail(b) \in Bin
           /\ Cat(PackVarInt[Tagged(Height(b))], VoutTail(b)) \in Bin /\ VinTail(b) \in Bin
           /\ UnlockTail(b) \in Bin /\ VersionTail(b) \in Bin
<1>1. /\ PackVarInt[b.version] \in Bin /\ PackVarInt[b.unlockTime] \in Bin
      /\ PackVarInt[b.rctSigType] \in Bin /\ b.extra \in Bin
  BY BinVarInt DEF Readable
<1>2. PackVarInt[1] \in Bin
  <2>1. PICK one \in Nat : one = 1
    OBVIOUS
  <2>2. QED
    BY <2>1, BinVarInt
<1>3. /\ PackVarInt[Tagged(Height(b))] \in Bin /\ PackVarInt[Len(b.extra)] \in Bin
      /\ PackVarInt[Len(b.txHashes)] \in Bin
  BY ReadableParts, TagIs, BinVarInt
<1>4. TxsTail(b) \in Bin
  BY <1>3, ReadableParts, BinCat DEF TxsTail
<1>5. RctTail(b) \in Bin
  BY <1>1, <1>4, BinCat DEF RctTail
<1>6. Cat(b.extra, RctTail(b)) \in Bin
  BY <1>1, <1>5, BinCat
<1>7. ExtraTail(b) \in Bin
  BY <1>3, <1>6, BinCat DEF ExtraTail
<1>8. OutTail(b.vout[1], ExtraTail(b)) \in Bin
  BY <1>7, ReadableParts, OutParts
<1>9. VoutTail(b) \in Bin
  BY <1>2, <1>8, BinCat DEF VoutTail
<1>10. Cat(PackVarInt[Tagged(Height(b))], VoutTail(b)) \in Bin
  BY <1>3, <1>9, BinCat
<1>11. VinTail(b) \in Bin
  BY <1>2, <1>10, BinCat DEF VinTail
<1>12. UnlockTail(b) \in Bin
  BY <1>1, <1>11, BinCat DEF UnlockTail
<1>13. VersionTail(b) \in Bin
  BY <1>1, <1>12, BinCat DEF VersionTail
<1>14. QED
  BY <1>4, <1>5, <1>6, <1>7, <1>8, <1>9, <1>10, <1>11, <1>12, <1>13

(* A block with one input, whatever its binary form, and one output *)
LEMMA PackWithIs ==
    ASSUME NEW b, Readable(b)
    PROVE  /\ PackHeader(b) \in Bin
           /\ PackWith(b, PackVarInt[Tagged(Height(b))]) = MajorTail(b, VersionTail(b))
<1>1. PICK p, v, u, i, x, o, y, l, e, r, t, h :
         /\ p = PackHeader(b) /\ v = PackVarInt[b.version] /\ u = PackVarInt[b.unlockTime]
         /\ i = PackVarInt[1] /\ x = PackVarInt[Tagged(Height(b))]
         /\ o = PackVarInt[1] /\ y = PackTxOut(b.vout[1])
         /\ l = PackVarInt[Len(b.extra)] /\ e = b.extra /\ r = PackVarInt[b.rctSigType]
         /\ t = PackVarInt[Len(b.txHashes)] /\ h = FlattenSeq(b.txHashes)
  OBVIOUS
<1>2. v \in Bin /\ u \in Bin /\ e \in Bin /\ r \in Bin
  BY <1>1, BinVarInt DEF Readable
<1>3. i \in Bin /\ o \in Bin
  <2>1. PICK one \in Nat : one = 1
    OBVIOUS
  <2>2. QED
    BY <1>1, <2>1, BinVarInt
<1>4. x \in Bin /\ l \in Bin /\ t \in Bin /\ h \in Bin
  BY <1>1, ReadableParts, TagIs, BinVarInt
<1>5. p \in Bin
  BY <1>1, ReadableParts, HeaderIs, BinEmpty
<1>6. y \in Bin
  BY <1>1, ReadableParts, OutParts, BinEmpty
<1>7. FlattenSeq([j \in DOMAIN b.vout |-> PackTxOut(b.vout[j])]) = y
  <2>1. b.vout = <<b.vout[1]>>
    BY ReadableParts
  <2>2. PICK s : s = [j \in DOMAIN b.vout |-> PackTxOut(b.vout[j])]
    OBVIOUS
  <2>3. s = <<y>>
    <3>1. DOMAIN b.vout = 1 .. 1
      BY <2>1
    <3>2. DOMAIN s = 1 .. 1 /\ s[1] = y
      BY <1>1, <2>2, <3>1
    <3>3. s = [j \in 1 .. 1 |-> s[j]]
      BY <2>2, <3>1
    <3>4. QED
      BY <3>2, <3>3
  <2>4. s \in Seq(Seq(Int)) /\ Len(s) = 1 /\ s[1] = y
    BY <1>6, <2>3 DEF Bin
  <2>5. FlattenSeq(s) = y
    BY <2>4, FlattenSeqs
  <2>6. QED
    BY <2>2, <2>5
<1>8. PackWith(b, x) = Cat(Cat(Cat(Cat(Cat(Cat(Cat(Cat(Cat(Cat(Cat(p, v), u), i), x), o), y),
                                                   l), e), r), t), h)
  <2>1. PICK f : f = FlattenSeq([j \in DOMAIN b.vout |-> PackTxOut(b.vout[j])])
    OBVIOUS
  <2>2. PackWith(b, x) = Cat(Cat(Cat(Cat(Cat(Cat(Cat(Cat(Cat(Cat(Cat(PackHeader(b),
                           PackVarInt[b.version]), PackVarInt[b.unlockTime]),
                           PackVarInt[Len(b.vin)]), x), PackVarInt[Len(b.vout)]), f),
                           PackVarInt[Len(b.extra)]), b.extra), PackVarInt[b.rctSigType]),
                           PackVarInt[Len(b.txHashes)]), FlattenSeq(b.txHashes))
    BY <2>1 DEF PackWith, Cat
  <2>3. Len(b.vin) = 1 /\ Len(b.vout) = 1 /\ f = y
    BY <1>7, <2>1, ReadableParts
  <2>4. QED
    BY <1>1, <2>2, <2>3
<1>9. PICK a1, a2, a3, a4, a5, a6, a7, a8, a9, a10 :
         /\ a1 = Cat(p, v) /\ a2 = Cat(a1, u) /\ a3 = Cat(a2, i) /\ a4 = Cat(a3, x)
         /\ a5 = Cat(a4, o) /\ a6 = Cat(a5, y) /\ a7 = Cat(a6, l) /\ a8 = Cat(a7, e)
         /\ a9 = Cat(a8, r) /\ a10 = Cat(a9, t)
  OBVIOUS
<1>10. /\ a1 \in Bin /\ a2 \in Bin /\ a3 \in Bin /\ a4 \in Bin /\ a5 \in Bin
       /\ a6 \in Bin /\ a7 \in Bin /\ a8 \in Bin /\ a9 \in Bin
  <2>1. a1 \in Bin
    BY <1>2, <1>5, <1>9, BinCat
  <2>2. a2 \in Bin
    BY <1>2, <2>1, <1>9, BinCat
  <2>3. a3 \in Bin
    BY <1>3, <2>2, <1>9, BinCat
  <2>4. a4 \in Bin
    BY <1>4, <2>3, <1>9, BinCat
  <2>5. a5 \in Bin
    BY <1>3, <2>4, <1>9, BinCat
  <2>6. a6 \in Bin
    BY <1>6, <2>5, <1>9, BinCat
  <2>7. a7 \in Bin
    BY <1>4, <2>6, <1>9, BinCat
  <2>8. a8 \in Bin
    BY <1>2, <2>7, <1>9, BinCat
  <2>9. a9 \in Bin
    BY <1>2, <2>8, <1>9, BinCat
  <2>10. QED
    BY <2>1, <2>2, <2>3, <2>4, <2>5, <2>6, <2>7, <2>8, <2>9
<1>11. Cat(a10, h) = Cat(a9, TxsTail(b))
  BY <1>1, <1>4, <1>9, <1>10, BinAssociative DEF TxsTail
<1>12. Cat(a9, TxsTail(b)) = Cat(a8, RctTail(b))
  <2>1. RctTail(b) = Cat(r, TxsTail(b)) /\ TxsTail(b) \in Bin
    BY <1>1, BlockTails DEF RctTail
  <2>2. QED
    BY <1>2, <1>9, <1>10, <2>1, Regroup
<1>13. Cat(a8, RctTail(b)) = Cat(a7, Cat(e, RctTail(b)))
  BY <1>2, <1>9, <1>10, BlockTails, BinAssociative
<1>14. Cat(a7, Cat(e, RctTail(b))) = Cat(a6, ExtraTail(b))
  <2>1. ExtraTail(b) = Cat(l, Cat(e, RctTail(b))) /\ Cat(e, RctTail(b)) \in Bin
    BY <1>1, BlockTails DEF ExtraTail
  <2>2. QED
    BY <1>4, <1>9, <1>10, <2>1, Regroup
<1>15. Cat(a6, ExtraTail(b)) = Cat(a5, OutTail(b.vout[1], ExtraTail(b)))
  <2>1. Cat(a6, ExtraTail(b)) = Cat(a5, Cat(y, ExtraTail(b)))
    BY <1>6, <1>9, <1>10, BlockTails, BinAssociative
  <2>2. Cat(y, ExtraTail(b)) = OutTail(b.vout[1], ExtraTail(b))
    BY <1>1, ReadableParts, BlockTails, OutParts
  <2>3. QED
    BY <2>1, <2>2
<1>16. Cat(a5, OutTail(b.vout[1], ExtraTail(b))) = Cat(a4, VoutTail(b))
  BY <1>1, <1>3, <1>9, <1>10, BlockTails, BinAssociative, SMTT(30) DEF VoutTail
<1>17. Cat(a4, VoutTail(b)) = Cat(a3, Cat(x, VoutTail(b)))
  BY <1>4, <1>9, <1>10, BlockTails, BinAssociative, SMTT(30)
<1>18. Cat(a3, Cat(x, VoutTail(b))) = Cat(a2, VinTail(b))
  BY <1>1, <1>3, <1>9, <1>10, BlockTails, BinAssociative, SMTT(30) DEF VinTail
<1>19. Cat(a2, VinTail(b)) = Cat(a1, UnlockTail(b))
  <2>1. UnlockTail(b) = Cat(u, VinTail(b)) /\ VinTail(b) \in Bin
    BY <1>1, BlockTails DEF UnlockTail
  <2>2. QED
    BY <1>2, <1>9, <1>10, <2>1, Regroup
<1>20. Cat(a1, UnlockTail(b)) = Cat(p, VersionTail(b))
  BY <1>1, <1>2, <1>5, <1>9, BlockTails, BinAssociative DEF VersionTail
<1>21. Cat(p, VersionTail(b)) = MajorTail(b, VersionTail(b))
  BY <1>1, ReadableParts, BlockTails, HeaderIs
<1>22. PackWith(b, x) = Cat(a10, h)
  BY <1>8, <1>9
<1>23. QED
  BY <1>1, <1>5, <1>11, <1>12, <1>13, <1>14, <1>15, <1>16, <1>17, <1>18, <1>19, <1>20, <1>21, <1>22

(* What monerod writes *)
LEMMA WireIs ==
    ASSUME NEW b, Readable(b)
    PROVE  Wire(b) = MajorTail(b, VersionTail(b)) /\ Wire(b) \in Bin
<1>1. PICK h \in Inputs : b.vin = <<h>> /\ h = Height(b)
  BY ReadableParts
<1>2. PICK x : x = PackVarInt[Tagged(h)]
  OBVIOUS
<1>3. x \in Seq(Int)
  BY <1>2, TagIs, BinVarInt DEF Bin
<1>4. PICK s : s = [i \in DOMAIN b.vin |-> <<TxInTag>> \o PackVarInt[b.vin[i]]]
  OBVIOUS
<1>5. s = <<x>>
  <2>1. DOMAIN b.vin = 1 .. 1 /\ b.vin[1] = h
    BY <1>1
  <2>2. s[1] = x /\ s = [i \in 1 .. 1 |-> s[i]]
    <3>1. s[1] = <<TxInTag>> \o PackVarInt[h]
      BY <1>4, <2>1
    <3>2. s[1] = x
      BY <1>2, <3>1, TagIs
    <3>3. s = [i \in 1 .. 1 |-> s[i]]
      BY <1>4, <2>1
    <3>4. QED
      BY <3>2, <3>3
  <2>3. QED
    BY <2>2
<1>6. s \in Seq(Seq(Int)) /\ Len(s) = 1 /\ s[1] = x
  BY <1>3, <1>5
<1>7. FlattenSeq(s) = x
  BY <1>6, FlattenSeqs
<1>8. Wire(b) = PackWith(b, x)
  BY <1>4, <1>7 DEF Wire
<1>9. QED
  BY <1>1, <1>2, <1>8, PackWithIs, ReadableParts, HeaderTails, BlockTails

-----------------------------------------------------------------------------
(* Reading a header *)

HeaderNames == {"major", "minor", "timestamp", "prevId", "nonce"}

LEMMA HeaderRead ==
    ASSUME NEW b, HeaderFields(b), NEW rest \in Bin
    PROVE  ReadOf(UnpackHeader(MajorTail(b, rest)), b, HeaderNames, rest)
<1>1. /\ b.major \in Nat /\ b.major < W8 /\ b.major < W64 /\ b.minor \in Nat /\ b.minor < W8
      /\ b.minor < W64 /\ b.timestamp \in Nat /\ b.timestamp < W64
      /\ W8 \in Nat /\ W64 \in Nat
  <2>1. W8 \in Nat /\ W64 \in Nat
    BY CodecAssumption DEF W8
  <2>2. W8 =< W64
    BY TemplatesAssumption
  <2>3. QED
    BY <2>1, <2>2 DEF HeaderFields
<1>2. PICK t1, t2, t3, t4 : /\ t1 = MinorTail(b, rest) /\ t2 = TimeTail(b, rest)
                            /\ t3 = PrevTail(b, rest) /\ t4 = NonceTail(b, rest)
  OBVIOUS
<1>3. t1 \in Bin /\ t2 \in Bin /\ t3 \in Bin /\ t4 \in Bin
  BY <1>2, HeaderTails
<1>4. PICK c : c = MajorTail(b, rest)
  OBVIOUS
<1>5. PICK r1 : r1 = VarInt(Got(<<>>, c), "major", W8)
  OBVIOUS
<1>6. ReadOf(r1, b, {} \cup {"major"}, t1)
  <2>1. ReadOf(Got(<<>>, c), b, {}, c)
    BY NoFields
  <2>2. c = Cat(PackVarInt[b["major"]], t1)
    BY <1>2, <1>4 DEF MajorTail
  <2>3. QED
    BY <1>1, <1>3, <1>5, <2>1, <2>2, VarIntRead
<1>7. ReadOf(r1, b, {"major"}, t1)
  <2>1. {} \cup {"major"} = {"major"}
    OBVIOUS
  <2>2. QED
    BY <1>6, <2>1
<1>8. PICK r2 : r2 = VarInt(r1, "minor", W8)
  OBVIOUS
<1>9. ReadOf(r2, b, {"major"} \cup {"minor"}, t2)
  <2>1. t1 = Cat(PackVarInt[b["minor"]], t2)
    BY <1>2 DEF MinorTail
  <2>2. "minor" \notin {"major"}
    OBVIOUS
  <2>3. QED
    BY <1>1, <1>3, <1>7, <1>8, <2>1, <2>2, VarIntRead
<1>10. PICK r3 : r3 = VarInt(r2, "timestamp", W64)
  OBVIOUS
<1>11. PICK F2 : F2 = {"major"} \cup {"minor"}
  OBVIOUS
<1>12. ReadOf(r3, b, F2 \cup {"timestamp"}, t3)
  <2>1. t2 = Cat(PackVarInt[b["timestamp"]], t3)
    BY <1>2 DEF TimeTail
  <2>2. "timestamp" \notin F2
    BY <1>11
  <2>3. QED
    BY <1>1, <1>3, <1>9, <1>10, <1>11, <2>1, <2>2, VarIntRead
<1>13. PICK F3 : F3 = F2 \cup {"timestamp"}
  OBVIOUS
<1>14. PICK r4 : r4 = Bytes(r3, "prevId", HashLen)
  OBVIOUS
<1>15. ReadOf(r4, b, F3 \cup {"prevId"}, t4)
  <2>1. t3 = Cat(b["prevId"], t4)
    BY <1>2 DEF PrevTail
  <2>2. "prevId" \notin F3
    BY <1>11, <1>13
  <2>3. b["prevId"] \in Bin /\ Len(b["prevId"]) = HashLen
    BY DEF HeaderFields, IsHash
  <2>4. ReadOf(Bytes(r3, "prevId", Len(b["prevId"])), b, F3 \cup {"prevId"}, t4)
    BY <1>3, <1>12, <1>13, <2>1, <2>2, <2>3, BytesRead
  <2>5. QED
    BY <1>14, <2>3, <2>4
<1>16. PICK F4 : F4 = F3 \cup {"prevId"}
  OBVIOUS
<1>17. r4 = Got(Fields(b, F4), t4)
  BY <1>15, <1>16 DEF ReadOf
<1>18. UnpackHeader(c) = With(r4, "nonce", UnpackU32(t4))
  <2>1. UnpackHeader(c) = Field(r4, "nonce", UnpackU32)
    BY <1>5, <1>8, <1>10, <1>14 DEF UnpackHeader, UnpackVersions
  <2>2. r4.rest = t4
    BY <1>17 DEF Got
  <2>3. QED
    BY <2>1, <2>2 DEF Field
<1>19. UnpackU32(t4) = Got(b["nonce"], rest)
  <2>1. PICK n \in 0 .. W32 - 1 : n = b.nonce
    BY DEF HeaderFields
  <2>2. UnpackU32(Cat(packU32(n), rest)) = Got(n, rest)
    BY ReadU32
  <2>3. QED
    BY <1>2, <2>1, <2>2 DEF NonceTail
<1>20. ReadOf(With(Got(Fields(b, F4), t4), "nonce", Got(b["nonce"], rest)), b, F4 \cup {"nonce"}, rest)
  <2>1. "nonce" \notin F4
    BY <1>11, <1>13, <1>16
  <2>2. QED
    BY <2>1, WithRead
<1>21. F4 \cup {"nonce"} = HeaderNames
  BY <1>11, <1>13, <1>16 DEF HeaderNames
<1>22. QED
  BY <1>4, <1>17, <1>18, <1>19, <1>20, <1>21

LEMMA OutRead ==
    ASSUME NEW out \in TxOuts, NEW rest \in Bin
    PROVE  UnpackTxOut(OutTail(out, rest)) = Got(out, rest)
<1>1. PICK c, t1, t2 : /\ c = OutTail(out, rest) /\ t1 = Cat(out.pubKey, Cat(out.viewTag, rest))
                       /\ t2 = Cat(out.viewTag, rest)
  OBVIOUS
<1>2. t1 \in Bin /\ t2 \in Bin /\ c = Cat(PackVarInt[out["amount"]], t1) /\ W64 \in Nat
  BY <1>1, OutParts, CodecAssumption DEF OutTail
<1>3. PICK r1 : r1 = VarInt(Got(<<>>, c), "amount", W64)
  OBVIOUS
<1>4. ReadOf(r1, out, {} \cup {"amount"}, t1)
  <2>1. ReadOf(Got(<<>>, c), out, {}, c)
    BY NoFields
  <2>2. out["amount"] \in Nat /\ out["amount"] < W64
    BY OutParts
  <2>3. "amount" \notin {}
    OBVIOUS
  <2>4. QED
    BY <1>2, <1>3, <2>1, <2>2, <2>3, VarIntRead
<1>5. PICK F1 : F1 = {} \cup {"amount"}
  OBVIOUS
<1>6. PICK r2 : r2 = Bytes(r1, "pubKey", PubKeyLen)
  OBVIOUS
<1>7. ReadOf(r2, out, F1 \cup {"pubKey"}, t2)
  <2>1. t1 = Cat(out["pubKey"], t2) /\ out["pubKey"] \in Bin /\ Len(out["pubKey"]) = PubKeyLen
    BY <1>1, OutParts
  <2>2. "pubKey" \notin F1
    BY <1>5
  <2>3. ReadOf(Bytes(r1, "pubKey", Len(out["pubKey"])), out, F1 \cup {"pubKey"}, t2)
    BY <1>2, <1>4, <1>5, <2>1, <2>2, BytesRead
  <2>4. QED
    BY <1>6, <2>1, <2>3
<1>8. PICK F2 : F2 = F1 \cup {"pubKey"}
  OBVIOUS
<1>9. PICK r3 : r3 = Bytes(r2, "viewTag", 1)
  OBVIOUS
<1>10. ReadOf(r3, out, F2 \cup {"viewTag"}, rest)
  <2>1. t2 = Cat(out["viewTag"], rest) /\ out["viewTag"] \in Bin /\ Len(out["viewTag"]) = 1
    BY <1>1, OutParts
  <2>2. "viewTag" \notin F2
    BY <1>5, <1>8
  <2>3. ReadOf(Bytes(r2, "viewTag", Len(out["viewTag"])), out, F2 \cup {"viewTag"}, rest)
    BY <1>7, <1>8, <2>1, <2>2, BytesRead
  <2>4. QED
    BY <1>9, <2>1, <2>3
<1>11. Fields(out, F2 \cup {"viewTag"}) = out
  <2>1. F2 \cup {"viewTag"} = {"amount", "pubKey", "viewTag"}
    BY <1>5, <1>8
  <2>2. out \in [amount : 0 .. W64 - 1, pubKey : Bin, viewTag : Bin]
    BY DEF TxOuts
  <2>3. Fields(out, {"amount", "pubKey", "viewTag"}) = out
    BY <2>2 DEF Fields
  <2>4. QED
    BY <2>1, <2>3
<1>12. UnpackTxOut(c) = r3
  BY <1>3, <1>6, <1>9 DEF UnpackTxOut
<1>13. QED
  BY <1>1, <1>10, <1>11, <1>12 DEF ReadOf

-----------------------------------------------------------------------------
(* Slices with one item *)

LEMMA ItemGot ==
    ASSUME NEW v, NEW d, NEW x, NEW e
    PROVE  Item(Got(v, d), Got(x, e)) = Got(Append(v, x), e)
BY DEF Item, Got

LEMMA ItemFailed ==
    ASSUME NEW r, NEW q, r = Failed \/ q = Failed
    PROVE  Item(r, q) = Failed
BY DEF Item, Failed

IsVin(f, n) ==
    f = [k \in 0 .. n.val |->
            IF k > 0 THEN Item(f[k - 1], UnpackTxIn(f[k - 1].rest))
            ELSE IF n.ok THEN Got(<<>>, n.rest) ELSE Failed]
IsVout(f, n) ==
    f = [k \in 0 .. n.val |->
            IF k > 0 THEN Item(f[k - 1], UnpackTxOut(f[k - 1].rest))
            ELSE IF n.ok THEN Got(<<>>, n.rest) ELSE Failed]

LEMMA VinOne ==
    ASSUME NEW buf, NEW d, UnPackVarInt(buf, W64) = Got(1, d)
    PROVE  UnpackVin(buf) = Item(Got(<<>>, d), UnpackTxIn(d))
<1>1. PICK n : n = UnPackVarInt(buf, W64)
  OBVIOUS
<1>2. n.val = 1 /\ n.ok /\ n.rest = d
  BY <1>1 DEF Got
<1>3. PICK s : s = CHOOSE f : IsVin(f, n)
  OBVIOUS
<1>4. UnpackVin(buf) = s[n.val]
  BY <1>1, <1>3, Zenon DEF UnpackVin, Items, IsVin
<1>5. PICK first, second : first = Got(<<>>, d) /\ second = Item(first, UnpackTxIn(first.rest))
  OBVIOUS
<1>6. PICK g : g = [k \in 0 .. 1 |-> IF k > 0 THEN second ELSE first]
  OBVIOUS
<1>7. g[0] = first /\ g[1] = second
  BY <1>6
<1>8. \A k \in 0 .. 1 : (IF k > 0 THEN second ELSE first)
         = IF k > 0 THEN Item(g[k - 1], UnpackTxIn(g[k - 1].rest))
           ELSE IF n.ok THEN Got(<<>>, n.rest) ELSE Failed
  <2>1. ASSUME NEW k \in 0 .. 1, k > 0 PROVE g[k - 1] = first
    <3>1. k - 1 = 0
      BY <2>1
    <3>2. QED
      BY <1>7, <3>1
  <2>2. QED
    BY <1>2, <1>5, <2>1
<1>9. IsVin(g, n)
  <2>1. g = [k \in 0 .. 1 |-> IF k > 0 THEN Item(g[k - 1], UnpackTxIn(g[k - 1].rest))
                              ELSE IF n.ok THEN Got(<<>>, n.rest) ELSE Failed]
    BY <1>6, <1>8, Zenon
  <2>2. QED
    BY <1>2, <2>1, Zenon DEF IsVin
<1>10. IsVin(s, n)
  BY <1>3, <1>9, Zenon
<1>11. s[0] = first
  <2>1. 0 \in 0 .. n.val /\ ~(0 > 0)
    BY <1>2
  <2>2. QED
    BY <1>2, <1>5, <1>10, <2>1 DEF IsVin
<1>12. s[1] = second
  <2>1. 1 \in 0 .. n.val /\ 1 > 0 /\ 1 - 1 = 0
    BY <1>2
  <2>2. s[1] = Item(s[1 - 1], UnpackTxIn(s[1 - 1].rest))
    BY <1>10, <2>1 DEF IsVin
  <2>3. QED
    BY <1>5, <1>11, <2>1, <2>2
<1>13. first.rest = d
  BY <1>5 DEF Got
<1>14. QED
  BY <1>2, <1>4, <1>5, <1>12, <1>13

LEMMA VoutOne ==
    ASSUME NEW buf, NEW d, UnPackVarInt(buf, W64) = Got(1, d)
    PROVE  UnpackVout(buf) = Item(Got(<<>>, d), UnpackTxOut(d))
<1>1. PICK n : n = UnPackVarInt(buf, W64)
  OBVIOUS
<1>2. n.val = 1 /\ n.ok /\ n.rest = d
  BY <1>1 DEF Got
<1>3. PICK s : s = CHOOSE f : IsVout(f, n)
  OBVIOUS
<1>4. UnpackVout(buf) = s[n.val]
  BY <1>1, <1>3, Zenon DEF UnpackVout, Items, IsVout
<1>5. PICK first, second : first = Got(<<>>, d) /\ second = Item(first, UnpackTxOut(first.rest))
  OBVIOUS
<1>6. PICK g : g = [k \in 0 .. 1 |-> IF k > 0 THEN second ELSE first]
  OBVIOUS
<1>7. g[0] = first /\ g[1] = second
  BY <1>6
<1>8. \A k \in 0 .. 1 : (IF k > 0 THEN second ELSE first)
         = IF k > 0 THEN Item(g[k - 1], UnpackTxOut(g[k - 1].rest))
           ELSE IF n.ok THEN Got(<<>>, n.rest) ELSE Failed
  <2>1. ASSUME NEW k \in 0 .. 1, k > 0 PROVE g[k - 1] = first
    <3>1. k - 1 = 0
      BY <2>1
    <3>2. QED
      BY <1>7, <3>1
  <2>2. QED
    BY <1>2, <1>5, <2>1
<1>9. IsVout(g, n)
  <2>1. g = [k \in 0 .. 1 |-> IF k > 0 THEN Item(g[k - 1], UnpackTxOut(g[k - 1].rest))
                              ELSE IF n.ok THEN Got(<<>>, n.rest) ELSE Failed]
    BY <1>6, <1>8, Zenon
  <2>2. QED
    BY <1>2, <2>1, Zenon DEF IsVout
<1>10. IsVout(s, n)
  BY <1>3, <1>9, Zenon
<1>11. s[0] = first
  <2>1. 0 \in 0 .. n.val /\ ~(0 > 0)
    BY <1>2
  <2>2. QED
    BY <1>2, <1>5, <1>10, <2>1 DEF IsVout
<1>12. s[1] = second
  <2>1. 1 \in 0 .. n.val /\ 1 > 0 /\ 1 - 1 = 0
    BY <1>2
  <2>2. s[1] = Item(s[1 - 1], UnpackTxOut(s[1 - 1].rest))
    BY <1>10, <2>1 DEF IsVout
  <2>3. QED
    BY <1>5, <1>11, <2>1, <2>2
<1>13. first.rest = d
  BY <1>5 DEF Got
<1>14. QED
  BY <1>2, <1>4, <1>5, <1>12, <1>13

(* No count, no items *)
LEMMA NoItems ==
    ASSUME NEW buf, UnPackVarInt(buf, W64) = Failed
    PROVE  UnpackVin(buf) = Failed /\ UnpackVout(buf) = Failed
<1>1. PICK n : n = UnPackVarInt(buf, W64)
  OBVIOUS
<1>2. n.val = 0 /\ ~n.ok
  BY <1>1 DEF Failed
<1>3. PICK s, t : s = (CHOOSE f : IsVin(f, n)) /\ t = (CHOOSE f : IsVout(f, n))
  OBVIOUS
<1>4. UnpackVin(buf) = s[n.val] /\ UnpackVout(buf) = t[n.val]
  <2>1. UnpackVin(buf) = s[n.val]
    BY <1>1, <1>3, Zenon DEF UnpackVin, Items, IsVin
  <2>2. UnpackVout(buf) = t[n.val]
    BY <1>1, <1>3, Zenon DEF UnpackVout, Items, IsVout
  <2>3. QED
    BY <2>1, <2>2
<1>5. PICK g : g = [k \in 0 .. 0 |-> Failed]
  OBVIOUS
<1>6. \A k \in 0 .. 0 : ~(k > 0)
  OBVIOUS
<1>7. IsVin(g, n) /\ IsVout(g, n)
  <2>1. IsVin(g, n)
    <3>1. [k \in 0 .. 0 |-> Failed] = [k \in 0 .. 0 |->
              IF k > 0 THEN Item(g[k - 1], UnpackTxIn(g[k - 1].rest))
              ELSE IF n.ok THEN Got(<<>>, n.rest) ELSE Failed]
      BY <1>2, <1>6, Zenon
    <3>2. QED
      BY <1>2, <1>5, <3>1, Zenon DEF IsVin
  <2>2. IsVout(g, n)
    <3>1. [k \in 0 .. 0 |-> Failed] = [k \in 0 .. 0 |->
              IF k > 0 THEN Item(g[k - 1], UnpackTxOut(g[k - 1].rest))
              ELSE IF n.ok THEN Got(<<>>, n.rest) ELSE Failed]
      BY <1>2, <1>6, Zenon
    <3>2. QED
      BY <1>2, <1>5, <3>1, Zenon DEF IsVout
  <2>3. QED
    BY <2>1, <2>2
<1>8. IsVin(s, n) /\ IsVout(t, n)
  BY <1>3, <1>7, Zenon
<1>9. 0 \in 0 .. n.val /\ ~(0 > 0)
  BY <1>2
<1>10. s[0] = Failed
  BY <1>2, <1>8, <1>9 DEF IsVin
<1>11. t[0] = Failed
  BY <1>2, <1>8, <1>9 DEF IsVout
<1>12. QED
  BY <1>2, <1>4, <1>10, <1>11

-----------------------------------------------------------------------------
(* Sequences put together, taken apart again *)

LEMMA FlatBegins ==
    ASSUME NEW seqs \in Seq(Bin), NEW f, IsFlat(f, seqs, Len(seqs)),
           NEW m \in 1 .. Len(seqs), NEW k \in 1 .. m
    PROVE  \E x \in Bin : f[m] = Cat(f[k], x)
<1> DEFINE bad == {i \in 1 .. Len(seqs) : k =< i /\ ~\E x \in Bin : f[i] = Cat(f[k], x)}
<1>1. Len(seqs) \in Nat /\ k \in Nat /\ 1 =< k
  BY LenProperties
<1>2. bad = {}
  <2> SUFFICES ASSUME bad # {} PROVE FALSE
    OBVIOUS
  <2>1. PICK i \in bad : \A j \in bad : i =< j
    <3>1. bad \subseteq Nat
      OBVIOUS
    <3> HIDE DEF bad
    <3>2. QED
      BY <3>1, Least
  <2>2. i \in 1 .. Len(seqs) /\ k =< i /\ ~\E x \in Bin : f[i] = Cat(f[k], x)
    BY <2>1
  <2>3. \A j \in 1 .. Len(seqs) : f[j] \in Bin
    BY FlatSeqs DEF Bin
  <2>4. k \in 1 .. Len(seqs)
    BY <1>1, <2>2
  <2>5. CASE i = k
    BY <2>2, <2>3, <2>4, <2>5, BinEmpty
  <2>6. CASE i # k
    <3>1. i - 1 \in 1 .. Len(seqs) /\ k =< i - 1 /\ ~(i =< i - 1) /\ i # 1
      BY <1>1, <2>2, <2>6
    <3>2. PICK x \in Bin : f[i - 1] = Cat(f[k], x)
      BY <2>1, <3>1
    <3>3. PICK a, z : a = f[k] /\ z = seqs[i]
      OBVIOUS
    <3>4. a \in Bin /\ z \in Bin
      BY <2>2, <2>3, <2>4, <3>3
    <3>5. f[i] = Cat(f[i - 1], z)
      <4>1. f[i] = IF i = 1 THEN seqs[i] ELSE f[i - 1] \o seqs[i]
        BY <2>2 DEF IsFlat
      <4>2. QED
        BY <3>1, <3>3, <4>1 DEF Cat
    <3>6. Cat(Cat(a, x), z) = Cat(a, Cat(x, z)) /\ Cat(x, z) \in Bin
      BY <3>4, BinAssociative, BinCat
    <3>7. QED
      BY <2>2, <3>2, <3>3, <3>5, <3>6
  <2>7. QED
    BY <2>5, <2>6
<1>3. m \in 1 .. Len(seqs) /\ k =< m
  BY <1>1
<1>4. QED
  BY <1>2, <1>3

(* What is left behind the first k *)
LEMMA FlatTails ==
    ASSUME NEW seqs \in Seq(Bin)
    PROVE  \E rest : /\ rest[0] = FlattenSeq(seqs) /\ rest[Len(seqs)] = <<>>
                     /\ \A k \in 0 .. Len(seqs) : rest[k] \in Bin
                     /\ \A k \in 1 .. Len(seqs) : rest[k - 1] = Cat(seqs[k], rest[k])
<1>1. PICK n \in Nat : n = Len(seqs)
  BY LenProperties
<1>2. CASE n = 0
  <2>1. FlattenSeq(seqs) = <<>>
    BY <1>1, <1>2, FlattenSeqs DEF Bin
  <2>2. PICK rest : rest = [k \in 0 .. 0 |-> <<>>]
    OBVIOUS
  <2>3. rest[0] = <<>> /\ \A k \in 0 .. 0 : rest[k] = <<>>
    BY <2>2
  <2>4. <<>> \in Bin
    BY BinEmpty
  <2>5. \A k \in 1 .. 0 : FALSE
    OBVIOUS
  <2>6. QED
    BY <1>1, <1>2, <2>1, <2>3, <2>4, <2>5
<1>3. CASE n # 0
  <2>1. PICK f : IsFlat(f, seqs, n) /\ f[n] = FlattenSeq(seqs)
    <3>1. \E g : IsFlat(g, seqs, n)
      BY FlatExists
    <3>2. PICK f : f = CHOOSE g : IsFlat(g, seqs, n)
      OBVIOUS
    <3>3. IsFlat(f, seqs, n)
      BY <3>1, <3>2, Zenon
    <3>4. FlattenSeq(seqs) = f[n]
      BY <1>1, <1>3, <3>2, Zenon DEF FlattenSeq, IsFlat
    <3>5. QED
      BY <3>3, <3>4
  <2>2. PICK rest : rest = [k \in 0 .. n |-> IF k = 0 THEN f[n] ELSE Back(f[n], Len(f[k]))]
    OBVIOUS
  <2>3. \A k \in 1 .. n : f[k] \in Bin /\ seqs[k] \in Bin
    <3>1. \A k \in 1 .. n : f[k] \in Bin
      BY <1>1, <2>1, FlatSeqs DEF Bin
    <3>2. \A k \in 1 .. n : seqs[k] \in Bin
      BY <1>1
    <3>3. QED
      BY <3>1, <3>2
  <2>4. n \in 1 .. n
    BY <1>3
  <2>5. ASSUME NEW k \in 1 .. n
        PROVE  rest[k] \in Bin /\ f[n] = Cat(f[k], rest[k])
    <3>1. PICK x \in Bin : f[n] = Cat(f[k], x)
      BY <1>1, <2>1, <2>4, FlatBegins
    <3>2. Back(Cat(f[k], x), Len(f[k])) = x
      BY <2>3, BinParts
    <3>3. rest[k] = Back(f[n], Len(f[k]))
      BY <2>2
    <3>4. QED
      BY <3>1, <3>2, <3>3
  <2>6. rest[0] = f[n]
    BY <2>2
  <2>7. rest[n] = <<>>
    <3>1. Back(Cat(f[n], <<>>), Len(f[n])) = <<>> /\ Cat(f[n], <<>>) = f[n]
      BY <2>3, <2>4, BinParts, BinEmpty
    <3>2. rest[n] = Back(f[n], Len(f[n]))
      BY <2>2, <2>4
    <3>3. QED
      BY <3>1, <3>2
  <2>8. ASSUME NEW k \in 1 .. n PROVE rest[k - 1] = Cat(seqs[k], rest[k])
    <3>1. CASE k = 1
      <4>1. f[1] = seqs[1]
        BY <2>1, <3>1 DEF IsFlat
      <4>2. k - 1 = 0
        BY <3>1
      <4>3. f[n] = Cat(f[k], rest[k])
        BY <2>5
      <4>4. QED
        BY <2>6, <3>1, <4>1, <4>2, <4>3
    <3>2. CASE k # 1
      <4>1. PICK j \in 1 .. n : j = k - 1
        BY <3>2
      <4>2. f[k] = Cat(f[j], seqs[k])
        BY <2>1, <3>2, <4>1 DEF IsFlat, Cat
      <4>3. f[n] = Cat(f[j], Cat(seqs[k], rest[k])) /\ Cat(seqs[k], rest[k]) \in Bin
        <5>1. PICK a, z, y : a = f[j] /\ z = seqs[k] /\ y = rest[k]
          OBVIOUS
        <5>2. a \in Bin /\ z \in Bin /\ y \in Bin
          BY <2>3, <2>5, <5>1
        <5>3. Cat(Cat(a, z), y) = Cat(a, Cat(z, y)) /\ Cat(z, y) \in Bin
          BY <5>2, BinAssociative, BinCat
        <5>4. f[n] = Cat(f[k], rest[k])
          BY <2>5
        <5>5. QED
          BY <4>2, <5>1, <5>3, <5>4
      <4>4. Back(f[n], Len(f[j])) = Cat(seqs[k], rest[k])
        BY <2>3, <4>1, <4>3, BinParts
      <4>5. rest[j] = Back(f[n], Len(f[j]))
        BY <2>2, <4>1
      <4>6. QED
        BY <4>1, <4>4, <4>5
    <3>3. QED
      BY <3>1, <3>2
  <2>9. \A k \in 0 .. n : rest[k] \in Bin
    <3>1. \A k \in 0 .. n : k = 0 \/ k \in 1 .. n
      OBVIOUS
    <3>2. QED
      BY <2>3, <2>4, <2>5, <2>6, <3>1
  <2>10. QED
    BY <1>1, <2>1, <2>6, <2>7, <2>8, <2>9
<1>4. QED
  BY <1>2, <1>3

-----------------------------------------------------------------------------
(* The hashes of a block's transactions *)

IsTxHashes(f, n) ==
    f = [k \in 0 .. n.val |->
            IF k > 0 THEN Item(f[k - 1], UnpackTxHash(f[k - 1].rest))
            ELSE IF n.ok THEN Got(<<>>, n.rest) ELSE Failed]

LEMMA FrontGrows ==
    ASSUME NEW hashes \in Seq(Bin), NEW k \in 1 .. Len(hashes)
    PROVE  Append(Start(hashes, k - 1), hashes[k]) = Start(hashes, k)
BY DEF Start

LEMMA FrontAll ==
    ASSUME NEW hashes \in Seq(Bin)
    PROVE  Start(hashes, 0) = <<>> /\ Start(hashes, Len(hashes)) = hashes
BY DEF Start

LEMMA TxHashesRead ==
    ASSUME NEW hashes \in Seq(Bin), \A i \in 1 .. Len(hashes) : IsHash(hashes[i]),
           Len(hashes) < W64
    PROVE  UnpackTxHashes(Cat(PackVarInt[Len(hashes)], FlattenSeq(hashes))) = Got(hashes, <<>>)
<1>1. PICK m \in Nat : m = Len(hashes)
  BY LenProperties
<1>2. PICK rest : /\ rest[0] = FlattenSeq(hashes) /\ rest[m] = <<>>
                  /\ \A k \in 0 .. m : rest[k] \in Bin
                  /\ \A k \in 1 .. m : rest[k - 1] = Cat(hashes[k], rest[k])
  BY <1>1, FlatTails
<1>3. PICK buf : buf = Cat(PackVarInt[m], rest[0])
  OBVIOUS
<1>4. PICK n : n = UnPackVarInt(buf, W64)
  OBVIOUS
<1>5. n = Got(m, rest[0])
  <2>1. rest[0] \in Bin
    BY <1>2
  <2>2. m < W64 /\ W64 \in Nat
    BY <1>1, CodecAssumption
  <2>3. QED
    BY <1>3, <1>4, <2>1, <2>2, ReadVarInt
<1>6. n.val = m /\ n.ok /\ n.rest = rest[0]
  BY <1>5 DEF Got
<1>7. PICK s : s = CHOOSE f : IsTxHashes(f, n)
  OBVIOUS
<1>8. UnpackTxHashes(buf) = s[m]
  <2>1. UnpackTxHashes(buf) = s[n.val]
    BY <1>4, <1>7, Zenon DEF UnpackTxHashes, Items, IsTxHashes
  <2>2. QED
    BY <1>6, <2>1
<1>9. PICK g : g = [k \in 0 .. m |-> Got(Start(hashes, k), rest[k])]
  OBVIOUS
<1>10. \A k \in 0 .. m : g[k] = Got(Start(hashes, k), rest[k])
  BY <1>9
<1>11. g[0] = Got(<<>>, n.rest)
  <2>1. 0 \in 0 .. m
    OBVIOUS
  <2>2. g[0] = Got(Start(hashes, 0), rest[0])
    BY <1>10, <2>1
  <2>3. QED
    BY <1>6, <2>2, FrontAll
<1>12. ASSUME NEW k \in 1 .. m
       PROVE  g[k] = Item(g[k - 1], UnpackTxHash(g[k - 1].rest))
  <2>1. PICK j \in 0 .. m : j = k - 1
    OBVIOUS
  <2>2. PICK h : h = hashes[k] /\ h \in Bin /\ Len(h) = HashLen
    BY <1>1 DEF IsHash
  <2>3. g[j] = Got(Start(hashes, j), rest[j])
    BY <1>10
  <2>4. g[j].rest = Cat(h, rest[k])
    <3>1. g[j].rest = rest[j]
      BY <2>3 DEF Got
    <3>2. QED
      BY <1>2, <2>1, <2>2, <3>1
  <2>5. rest[k] \in Bin
    BY <1>2
  <2>6. UnpackTxHash(g[j].rest) = Got(h, rest[k])
    BY <2>2, <2>4, <2>5, ReadBytes DEF UnpackTxHash
  <2>7. Item(g[j], UnpackTxHash(g[j].rest)) = Got(Append(Start(hashes, j), h), rest[k])
    BY <2>3, <2>6, ItemGot
  <2>8. Append(Start(hashes, j), h) = Start(hashes, k)
    BY <1>1, <2>1, <2>2, FrontGrows
  <2>9. g[k] = Got(Start(hashes, k), rest[k])
    BY <1>10
  <2>10. QED
    BY <2>1, <2>7, <2>8, <2>9
<1>13. \A k \in 0 .. m : g[k] = IF k > 0 THEN Item(g[k - 1], UnpackTxHash(g[k - 1].rest))
                                ELSE IF n.ok THEN Got(<<>>, n.rest) ELSE Failed
  <2>1. \A k \in 0 .. m : (k \in 1 .. m /\ k > 0) \/ (k = 0 /\ ~(k > 0))
    OBVIOUS
  <2>2. QED
    BY <1>6, <1>11, <1>12, <2>1
<1>14. IsTxHashes(g, n)
  <2>1. g = [k \in 0 .. m |-> g[k]]
    BY <1>9
  <2>2. g = [k \in 0 .. m |-> IF k > 0 THEN Item(g[k - 1], UnpackTxHash(g[k - 1].rest))
                              ELSE IF n.ok THEN Got(<<>>, n.rest) ELSE Failed]
    BY <1>13, <2>1, Zenon
  <2>3. QED
    BY <1>6, <2>2, Zenon DEF IsTxHashes
<1>15. IsTxHashes(s, n)
  BY <1>7, <1>14, Zenon
<1>16. \A k \in 0 .. m : s[k] = IF k > 0 THEN Item(s[k - 1], UnpackTxHash(s[k - 1].rest))
                                ELSE IF n.ok THEN Got(<<>>, n.rest) ELSE Failed
  BY <1>6, <1>15 DEF IsTxHashes
<1> DEFINE bad == {k \in 0 .. m : s[k] # g[k]}
<1>17. bad = {}
  <2> SUFFICES ASSUME bad # {} PROVE FALSE
    OBVIOUS
  <2>1. PICK k \in bad : \A j \in bad : k =< j
    <3>1. bad \subseteq Nat
      OBVIOUS
    <3> HIDE DEF bad
    <3>2. QED
      BY <3>1, Least
  <2>2. k \in 0 .. m /\ s[k] # g[k]
    BY <2>1
  <2>3. k > 0
    <3> SUFFICES ASSUME ~(k > 0) PROVE FALSE
      OBVIOUS
    <3>1. QED
      BY <1>13, <1>16, <2>2
  <2>4. PICK j \in 0 .. m : j = k - 1 /\ ~(k =< j)
    BY <2>2, <2>3
  <2>5. s[j] = g[j]
    BY <2>1, <2>4
  <2>6. QED
    BY <1>13, <1>16, <2>2, <2>3, <2>4, <2>5
<1>18. s[m] = g[m]
  <2>1. m \in 0 .. m
    OBVIOUS
  <2>2. QED
    BY <1>17, <2>1
<1>19. g[m] = Got(hashes, <<>>)
  <2>1. m \in 0 .. m
    OBVIOUS
  <2>2. QED
    BY <1>1, <1>2, <1>10, <2>1, FrontAll
<1>20. QED
  BY <1>1, <1>2, <1>3, <1>8, <1>18, <1>19

-----------------------------------------------------------------------------
(* A whole block is read as what monerod wrote, but for its input. *)
AsRead(b) ==
    [major |-> b.major, minor |-> b.minor, timestamp |-> b.timestamp, prevId |-> b.prevId,
     nonce |-> b.nonce, version |-> b.version, unlockTime |-> b.unlockTime,
     vin |-> <<Tagged(Height(b))>>, vout |-> b.vout, extra |-> b.extra,
     rctSigType |-> b.rctSigType, txHashes |-> b.txHashes]

PrefixNames == HeaderNames \cup {"version", "unlockTime", "vin", "vout"}
BlockNames == PrefixNames \cup {"extra", "rctSigType", "txHashes"}

LEMMA AppendFirst ==
    ASSUME NEW x
    PROVE  Append(<<>>, x) = <<x>>
OBVIOUS

LEMMA CountOne ==
    ASSUME NEW rest \in Bin
    PROVE  UnPackVarInt(Cat(PackVarInt[1], rest), W64) = Got(1, rest)
<1>1. PICK one \in Nat : one = 1
  OBVIOUS
<1>2. one < W64 /\ W64 \in Nat
  <2>1. Base \in Nat /\ 1 < Base /\ W64 \in Nat
    BY CodecAssumption
  <2>2. 2 * Base =< W64
    BY TemplatesAssumption DEF W8
  <2>3. QED
    BY <1>1, <2>1, <2>2
<1>3. UnPackVarInt(Cat(PackVarInt[one], rest), W64) = Got(one, rest)
  BY <1>2, ReadVarInt
<1>4. QED
  BY <1>1, <1>3

LEMMA VinRead ==
    ASSUME NEW b, Readable(b)
    PROVE  UnpackVin(VinTail(b)) = Got(<<Tagged(Height(b))>>, VoutTail(b))
<1>1. PICK n, rest : n = Tagged(Height(b)) /\ rest = VoutTail(b)
  OBVIOUS
<1>2. n \in Nat /\ n < W32 /\ n < W64 /\ W32 \in Nat
  BY <1>1, ReadableParts, TagIs, Powers, CodecAssumption DEF W32
<1>3. rest \in Bin /\ Cat(PackVarInt[n], rest) \in Bin
  BY <1>1, BlockTails
<1>4. PICK d : d = Cat(PackVarInt[n], rest)
  OBVIOUS
<1>5. UnPackVarInt(VinTail(b), W64) = Got(1, d)
  BY <1>1, <1>3, <1>4, CountOne DEF VinTail
<1>6. UnpackVin(VinTail(b)) = Item(Got(<<>>, d), UnpackTxIn(d))
  BY <1>5, VinOne
<1>7. UnpackTxIn(d) = Got(n, rest)
  BY <1>2, <1>3, <1>4, ReadVarInt DEF UnpackTxIn
<1>8. Item(Got(<<>>, d), Got(n, rest)) = Got(Append(<<>>, n), rest)
  <2>1. PICK none : none = <<>>
    OBVIOUS
  <2>2. Item(Got(none, d), Got(n, rest)) = Got(Append(none, n), rest)
    BY ItemGot
  <2>3. QED
    BY <2>1, <2>2
<1>9. Append(<<>>, n) = <<n>>
  BY AppendFirst
<1>10. QED
  BY <1>1, <1>6, <1>7, <1>8, <1>9

LEMMA VoutRead ==
    ASSUME NEW b, Readable(b)
    PROVE  UnpackVout(VoutTail(b)) = Got(b.vout, ExtraTail(b))
<1>1. PICK out, rest : out = b.vout[1] /\ rest = ExtraTail(b)
  OBVIOUS
<1>2. out \in TxOuts /\ rest \in Bin /\ OutTail(out, rest) \in Bin /\ b.vout = <<out>>
  BY <1>1, ReadableParts, BlockTails
<1>3. PICK d : d = OutTail(out, rest)
  OBVIOUS
<1>4. UnPackVarInt(VoutTail(b), W64) = Got(1, d)
  BY <1>1, <1>2, <1>3, CountOne DEF VoutTail
<1>5. UnpackVout(VoutTail(b)) = Item(Got(<<>>, d), UnpackTxOut(d))
  BY <1>4, VoutOne
<1>6. UnpackTxOut(d) = Got(out, rest)
  BY <1>2, <1>3, OutRead
<1>7. Item(Got(<<>>, d), Got(out, rest)) = Got(Append(<<>>, out), rest)
  <2>1. PICK none : none = <<>>
    OBVIOUS
  <2>2. Item(Got(none, d), Got(out, rest)) = Got(Append(none, out), rest)
    BY ItemGot
  <2>3. QED
    BY <2>1, <2>2
<1>8. Append(<<>>, out) = <<out>>
  BY AppendFirst
<1>9. QED
  BY <1>1, <1>2, <1>5, <1>6, <1>7, <1>8

LEMMA ExtraRead ==
    ASSUME NEW b, Readable(b)
    PROVE  UnpackExtra(ExtraTail(b)) = Got(b.extra, RctTail(b))
<1>1. PICK e, rest : e = b.extra /\ rest = RctTail(b)
  OBVIOUS
<1>2. e \in Bin /\ Len(e) < W64 /\ rest \in Bin /\ Cat(e, rest) \in Bin
  BY <1>1, BlockTails DEF Readable
<1>3. PICK n \in Nat : n = Len(e)
  BY <1>1, ReadableParts
<1>4. UnPackVarInt(Cat(PackVarInt[n], Cat(e, rest)), W64) = Got(n, Cat(e, rest))
  BY <1>2, <1>3, ReadVarInt, CodecAssumption
<1>5. ExtraTail(b) = Cat(PackVarInt[n], Cat(e, rest))
  BY <1>1, <1>3 DEF ExtraTail
<1>6. UnpackExtra(ExtraTail(b)) = Read(Cat(e, rest), n)
  BY <1>4, <1>5 DEF UnpackExtra, ReadCounted, Got
<1>7. Read(Cat(e, rest), Len(e)) = Got(e, rest)
  BY <1>2, ReadBytes
<1>8. QED
  BY <1>1, <1>3, <1>6, <1>7

(* A field that is read by its own function *)
LEMMA FieldRead ==
    ASSUME NEW b, NEW F, NEW f, f \notin F, NEW d, NEW r, ReadOf(r, b, F, d),
           NEW q, NEW rest, q = Got(b[f], rest), NEW G, G = F \cup {f}
    PROVE  ReadOf(With(r, f, q), b, G, rest) /\ r.rest = d
<1>1. r = Got(Fields(b, F), d)
  BY DEF ReadOf
<1>2. With(r, f, q) = With(Got(Fields(b, F), d), f, Got(b[f], rest))
  BY <1>1
<1>3. ReadOf(With(Got(Fields(b, F), d), f, Got(b[f], rest)), b, F \cup {f}, rest)
  BY WithRead
<1>4. r.rest = d
  BY <1>1 DEF Got
<1>5. QED
  BY <1>2, <1>3, <1>4

LEMMA PrefixRead ==
    ASSUME NEW b, Readable(b)
    PROVE  ReadOf(UnpackPrefix(UnpackHeader(Wire(b))), AsRead(b), PrefixNames, ExtraTail(b))
<1>1. PICK a : a = AsRead(b)
  OBVIOUS
<1>2. /\ a.major = b.major /\ a.minor = b.minor /\ a.timestamp = b.timestamp
      /\ a.prevId = b.prevId /\ a.nonce = b.nonce
  BY <1>1 DEF AsRead
<1>3. /\ a["version"] = b.version /\ a["unlockTime"] = b.unlockTime
      /\ a["vin"] = <<Tagged(Height(b))>> /\ a["vout"] = b.vout
  BY <1>1 DEF AsRead
<1>4. HeaderFields(a)
  BY <1>2, ReadableParts DEF HeaderFields
<1>5. PICK t : t = VersionTail(b)
  OBVIOUS
<1>6. t \in Bin /\ MajorTail(a, t) = Wire(b)
  <2>1. Wire(b) = MajorTail(b, t) /\ t \in Bin
    BY <1>5, WireIs, BlockTails
  <2>2. MajorTail(a, t) = MajorTail(b, t)
    BY <1>2 DEF MajorTail, MinorTail, TimeTail, PrevTail, NonceTail
  <2>3. QED
    BY <2>1, <2>2
<1>7. PICK r : r = UnpackHeader(Wire(b))
  OBVIOUS
<1>8. ReadOf(r, a, HeaderNames, t)
  BY <1>4, <1>6, <1>7, HeaderRead
<1>9. /\ b.version \in Nat /\ b.version < W64 /\ b.unlockTime \in Nat /\ b.unlockTime < W64
      /\ W64 \in Nat
  BY CodecAssumption DEF Readable
<1>10. PICK r1 : r1 = VarInt(r, "version", W64)
  OBVIOUS
<1>11. PICK F1 : F1 = HeaderNames \cup {"version"}
  OBVIOUS
<1>12. ReadOf(r1, a, F1, UnlockTail(b))
  <2>1. t = Cat(PackVarInt[a["version"]], UnlockTail(b)) /\ UnlockTail(b) \in Bin
    BY <1>3, <1>5, BlockTails DEF VersionTail
  <2>2. "version" \notin HeaderNames
    BY DEF HeaderNames
  <2>3. a["version"] \in Nat /\ a["version"] < W64
    BY <1>3, <1>9
  <2>4. QED
    BY <1>8, <1>9, <1>10, <1>11, <2>1, <2>2, <2>3, VarIntRead
<1>13. PICK r2 : r2 = VarInt(r1, "unlockTime", W64)
  OBVIOUS
<1>14. PICK F2 : F2 = F1 \cup {"unlockTime"}
  OBVIOUS
<1>15. ReadOf(r2, a, F2, VinTail(b))
  <2>1. UnlockTail(b) = Cat(PackVarInt[a["unlockTime"]], VinTail(b)) /\ VinTail(b) \in Bin
    BY <1>3, BlockTails DEF UnlockTail
  <2>2. "unlockTime" \notin F1
    BY <1>11 DEF HeaderNames
  <2>3. a["unlockTime"] \in Nat /\ a["unlockTime"] < W64
    BY <1>3, <1>9
  <2>4. ReadOf(r1, a, F1, Cat(PackVarInt[a["unlockTime"]], VinTail(b)))
    BY <1>12, <2>1
  <2>5. QED
    BY <1>9, <1>13, <1>14, <2>1, <2>2, <2>3, <2>4, VarIntRead
<1>16. PICK r3 : r3 = Field(r2, "vin", UnpackVin)
  OBVIOUS
<1>17. PICK F3 : F3 = F2 \cup {"vin"}
  OBVIOUS
<1>18. ReadOf(r3, a, F3, VoutTail(b))
  <2>1. UnpackVin(VinTail(b)) = Got(a["vin"], VoutTail(b))
    BY <1>3, VinRead
  <2>2. "vin" \notin F2
    BY <1>11, <1>14 DEF HeaderNames
  <2>3. PICK q : q = UnpackVin(VinTail(b))
    OBVIOUS
  <2>4. r2.rest = VinTail(b) /\ ReadOf(With(r2, "vin", q), a, F3, VoutTail(b))
    <3>1. F3 = F2 \cup {"vin"} /\ q = Got(a["vin"], VoutTail(b))
      BY <1>15, <1>17, <2>1, <2>3
    <3>2. ReadOf(r2, a, F2, VinTail(b))
      BY <1>15, <1>17
    <3>3. QED
      BY <2>2, <3>1, <3>2, FieldRead
  <2>5. r3 = With(r2, "vin", q)
    BY <1>16, <2>3, <2>4 DEF Field
  <2>6. QED
    BY <2>4, <2>5
<1>19. PICK r4 : r4 = Field(r3, "vout", UnpackVout)
  OBVIOUS
<1>20. PICK F4 : F4 = F3 \cup {"vout"}
  OBVIOUS
<1>21. ReadOf(r4, a, F4, ExtraTail(b))
  <2>1. UnpackVout(VoutTail(b)) = Got(a["vout"], ExtraTail(b))
    BY <1>3, VoutRead
  <2>2. "vout" \notin F3
    BY <1>11, <1>14, <1>17 DEF HeaderNames
  <2>3. PICK q : q = UnpackVout(VoutTail(b))
    OBVIOUS
  <2>4. r3.rest = VoutTail(b) /\ ReadOf(With(r3, "vout", q), a, F4, ExtraTail(b))
    <3>1. F4 = F3 \cup {"vout"} /\ q = Got(a["vout"], ExtraTail(b))
      BY <1>18, <1>20, <2>1, <2>3
    <3>2. ReadOf(r3, a, F3, VoutTail(b))
      BY <1>18, <1>20
    <3>3. QED
      BY <2>2, <3>1, <3>2, FieldRead
  <2>5. r4 = With(r3, "vout", q)
    BY <1>19, <2>3, <2>4 DEF Field
  <2>6. QED
    BY <2>4, <2>5
<1>22. F4 = PrefixNames
  BY <1>11, <1>14, <1>17, <1>20 DEF PrefixNames, HeaderNames
<1>23. UnpackPrefix(r) = r4
  BY <1>10, <1>13, <1>16, <1>19 DEF UnpackPrefix
<1>24. QED
  BY <1>1, <1>7, <1>21, <1>22, <1>23

LEMMA AllFields ==
    ASSUME NEW b
    PROVE  Fields(AsRead(b), BlockNames) = AsRead(b)
<1>1. BlockNames = {"major", "minor", "timestamp", "prevId", "nonce", "version", "unlockTime",
                    "vin", "vout", "extra", "rctSigType", "txHashes"}
  BY DEF BlockNames, PrefixNames, HeaderNames
<1>2. PICK a : a = AsRead(b)
  OBVIOUS
<1>3. DOMAIN a = BlockNames
  BY <1>1, <1>2 DEF AsRead
<1>4. a = [f \in DOMAIN a |-> a[f]]
  BY <1>2 DEF AsRead
<1>5. QED
  BY <1>2, <1>3, <1>4, Zenon DEF Fields

LEMMA BlockRead ==
    ASSUME NEW b, Readable(b)
    PROVE  UnpackBlock(Wire(b)) = Got(AsRead(b), <<>>)
<1>1. PICK a : a = AsRead(b)
  OBVIOUS
<1>2. /\ a["extra"] = b.extra /\ a["rctSigType"] = b.rctSigType /\ a["txHashes"] = b.txHashes
  BY <1>1 DEF AsRead
<1>3. PICK r : r = UnpackPrefix(UnpackHeader(Wire(b)))
  OBVIOUS
<1>4. ReadOf(r, a, PrefixNames, ExtraTail(b))
  BY <1>1, <1>3, PrefixRead
<1>5. PICK r1 : r1 = Field(r, "extra", UnpackExtra)
  OBVIOUS
<1>6. PICK F1 : F1 = PrefixNames \cup {"extra"}
  OBVIOUS
<1>7. ReadOf(r1, a, F1, RctTail(b))
  <2>1. UnpackExtra(ExtraTail(b)) = Got(a["extra"], RctTail(b))
    BY <1>2, ExtraRead
  <2>2. "extra" \notin PrefixNames
    BY DEF PrefixNames, HeaderNames
  <2>3. PICK q : q = UnpackExtra(ExtraTail(b))
    OBVIOUS
  <2>4. r.rest = ExtraTail(b) /\ ReadOf(With(r, "extra", q), a, F1, RctTail(b))
    <3>1. F1 = PrefixNames \cup {"extra"} /\ q = Got(a["extra"], RctTail(b))
      BY <1>4, <1>6, <2>1, <2>3
    <3>2. ReadOf(r, a, PrefixNames, ExtraTail(b))
      BY <1>4, <1>6
    <3>3. QED
      BY <2>2, <3>1, <3>2, FieldRead
  <2>5. r1 = With(r, "extra", q)
    BY <1>5, <2>3, <2>4 DEF Field
  <2>6. QED
    BY <2>4, <2>5
<1>8. PICK r2 : r2 = VarInt(r1, "rctSigType", W8)
  OBVIOUS
<1>9. PICK F2 : F2 = F1 \cup {"rctSigType"}
  OBVIOUS
<1>10. ReadOf(r2, a, F2, TxsTail(b))
  <2>1. RctTail(b) = Cat(PackVarInt[a["rctSigType"]], TxsTail(b)) /\ TxsTail(b) \in Bin
    BY <1>2, BlockTails DEF RctTail
  <2>2. "rctSigType" \notin F1
    BY <1>6 DEF PrefixNames, HeaderNames
  <2>3. a["rctSigType"] \in Nat /\ a["rctSigType"] < W8 /\ W8 \in Nat
    BY <1>2, CodecAssumption, SMTT(30) DEF Readable, W8
  <2>4. a["rctSigType"] < W64
    <3>1. W64 \in Nat /\ W8 =< W64
      BY CodecAssumption, TemplatesAssumption
    <3>2. QED
      BY <2>3, <3>1
  <2>5. ReadOf(r1, a, F1, Cat(PackVarInt[a["rctSigType"]], TxsTail(b)))
    BY <1>7, <2>1
  <2>6. QED
    BY <1>8, <1>9, <2>1, <2>2, <2>3, <2>4, <2>5, VarIntRead
<1>11. UnpackTxHashes(TxsTail(b)) = Got(a["txHashes"], <<>>)
  <2>1. PICK hashes : hashes = b.txHashes
    OBVIOUS
  <2>2. /\ hashes \in Seq(Bin) /\ \A i \in 1 .. Len(hashes) : IsHash(hashes[i])
        /\ Len(hashes) + 1 < W64 /\ Len(hashes) \in Nat
    BY <2>1, ReadableParts DEF Readable
  <2>3. Len(hashes) < W64
    BY <2>2, CodecAssumption
  <2>4. UnpackTxHashes(Cat(PackVarInt[Len(hashes)], FlattenSeq(hashes))) = Got(hashes, <<>>)
    BY <2>2, <2>3, TxHashesRead
  <2>5. QED
    BY <1>2, <2>1, <2>4 DEF TxsTail
<1>12. "txHashes" \notin F2
  BY <1>6, <1>9 DEF PrefixNames, HeaderNames
<1>13. /\ r2.rest = TxsTail(b)
       /\ ReadOf(With(r2, "txHashes", UnpackTxHashes(TxsTail(b))), a, F2 \cup {"txHashes"}, <<>>)
  <2>1. PICK q, G, d, e : /\ q = UnpackTxHashes(TxsTail(b)) /\ G = F2 \cup {"txHashes"}
                          /\ d = TxsTail(b) /\ e = <<>>
    OBVIOUS
  <2>2. ReadOf(r2, a, F2, d) /\ q = Got(a["txHashes"], e) /\ G = F2 \cup {"txHashes"}
    BY <1>10, <1>11, <2>1
  <2>3. r2.rest = d /\ ReadOf(With(r2, "txHashes", q), a, G, e)
    BY <1>12, <2>2, FieldRead
  <2>4. QED
    BY <2>1, <2>3
<1>14. UnpackBlock(Wire(b)) = With(r2, "txHashes", UnpackTxHashes(TxsTail(b)))
  <2>1. UnpackBlock(Wire(b)) = Field(r2, "txHashes", UnpackTxHashes)
    BY <1>3, <1>5, <1>8 DEF UnpackBlock, UnpackMinerTx
  <2>2. QED
    BY <1>13, <2>1 DEF Field
<1>15. F2 \cup {"txHashes"} = BlockNames
  BY <1>6, <1>9 DEF BlockNames
<1>16. QED
  BY <1>1, <1>13, <1>14, <1>15, AllFields DEF ReadOf

(* Writing what was read gives the same bytes. *)
LEMMA Rewritten ==
    ASSUME NEW b, Readable(b)
    PROVE  PackBlock(AsRead(b)) = Wire(b)
<1>1. PICK a, x : a = AsRead(b) /\ x = PackVarInt[Tagged(Height(b))]
  OBVIOUS
<1>2. /\ a.major = b.major /\ a.minor = b.minor /\ a.timestamp = b.timestamp
      /\ a.prevId = b.prevId /\ a.nonce = b.nonce /\ a.version = b.version
      /\ a.unlockTime = b.unlockTime /\ a.vout = b.vout /\ a.extra = b.extra
      /\ a.rctSigType = b.rctSigType /\ a.txHashes = b.txHashes
  BY <1>1 DEF AsRead
<1>3. a.vin = <<Tagged(Height(b))>>
  BY <1>1 DEF AsRead
<1>4. PICK s : s = [i \in DOMAIN a.vin |-> PackVarInt[a.vin[i]]]
  OBVIOUS
<1>5. s = <<x>>
  <2>1. DOMAIN a.vin = 1 .. 1 /\ a.vin[1] = Tagged(Height(b))
    BY <1>3
  <2>2. s[1] = x /\ s = [i \in 1 .. 1 |-> s[i]]
    BY <1>1, <1>4, <2>1
  <2>3. QED
    BY <2>2
<1>6. x \in Seq(Int)
  BY <1>1, ReadableParts, TagIs, BinVarInt DEF Bin
<1>7. FlattenSeq(s) = x
  <2>1. s \in Seq(Seq(Int)) /\ Len(s) = 1 /\ s[1] = x
    BY <1>5, <1>6
  <2>2. QED
    BY <2>1, FlattenSeqs
<1>8. PackBlock(a) = PackWith(a, x)
  BY <1>4, <1>7 DEF PackBlock
<1>9. PackWith(a, x) = PackWith(b, x)
  <2>1. PackHeader(a) = PackHeader(b)
    BY <1>2 DEF PackHeader
  <2>2. Len(a.vin) = 1 /\ Len(b.vin) = 1
    BY <1>3, ReadableParts
  <2>3. QED
    BY <1>2, <2>1, <2>2 DEF PackWith
<1>10. QED
  BY <1>1, <1>8, <1>9, PackWithIs, WireIs

-----------------------------------------------------------------------------
(* Hashing blobs *)

HashingNames == HeaderNames \cup {"treeRootHash", "txHashSize"}

LEMMA HashingRead ==
    ASSUME NEW h, HeaderFields(h), IsHash(h.treeRootHash), h.txHashSize \in Nat, h.txHashSize < W64
    PROVE  /\ UnpackHashingBlob(PackHashingBlob(h)) = Got(Fields(h, HashingNames), <<>>)
           /\ PackHashingBlob(Fields(h, HashingNames)) = PackHashingBlob(h)
<1>1. PICK t, n, none : t = h.treeRootHash /\ n = h.txHashSize /\ none = <<>>
  OBVIOUS
<1>2. /\ t \in Bin /\ Len(t) = HashLen /\ n \in Nat /\ n < W64 /\ PackVarInt[n] \in Bin
      /\ none \in Bin /\ Cat(PackVarInt[n], none) = PackVarInt[n] /\ W64 \in Nat
  BY <1>1, BinVarInt, BinEmpty, CodecAssumption DEF IsHash
<1>3. PICK p, d, e : p = PackHeader(h) /\ d = Cat(PackVarInt[n], none) /\ e = Cat(t, d)
  OBVIOUS
<1>4. d \in Bin /\ e \in Bin /\ p \in Bin
  BY <1>2, <1>3, BinCat, HeaderIs
<1>5. PackHashingBlob(h) = MajorTail(h, e)
  <2>1. PackHashingBlob(h) = Cat(Cat(p, t), PackVarInt[n])
    BY <1>1, <1>3 DEF PackHashingBlob, Cat
  <2>2. Cat(Cat(p, t), d) = Cat(p, e)
    BY <1>2, <1>3, <1>4, BinAssociative
  <2>3. Cat(p, e) = MajorTail(h, e)
    BY <1>3, <1>4, HeaderIs
  <2>4. QED
    BY <1>2, <1>3, <2>1, <2>2, <2>3
<1>6. PICK r : r = UnpackHeader(PackHashingBlob(h))
  OBVIOUS
<1>7. ReadOf(r, h, HeaderNames, e)
  BY <1>4, <1>5, <1>6, HeaderRead
<1>8. PICK r1, F1 : r1 = Bytes(r, "treeRootHash", HashLen) /\ F1 = HeaderNames \cup {"treeRootHash"}
  OBVIOUS
<1>9. ReadOf(r1, h, F1, d)
  <2>1. /\ "treeRootHash" \notin HeaderNames /\ h["treeRootHash"] \in Bin
        /\ Len(h["treeRootHash"]) = HashLen
    BY <1>1, <1>2 DEF HeaderNames
  <2>2. ReadOf(r, h, HeaderNames, Cat(h["treeRootHash"], d))
    BY <1>1, <1>3, <1>7
  <2>3. ReadOf(Bytes(r, "treeRootHash", Len(h["treeRootHash"])), h, HeaderNames \cup {"treeRootHash"}, d)
    BY <1>4, <2>1, <2>2, BytesRead
  <2>4. QED
    BY <1>8, <2>1, <2>3
<1>10. PICK r2, F2 : r2 = VarInt(r1, "txHashSize", W64) /\ F2 = F1 \cup {"txHashSize"}
  OBVIOUS
<1>11. ReadOf(r2, h, F2, none)
  <2>1. "txHashSize" \notin F1
    BY <1>8 DEF HeaderNames
  <2>2. h["txHashSize"] \in Nat /\ h["txHashSize"] < W64
    BY <1>1, <1>2
  <2>3. ReadOf(r1, h, F1, Cat(PackVarInt[h["txHashSize"]], none))
    BY <1>1, <1>3, <1>9
  <2>4. ReadOf(VarInt(r1, "txHashSize", W64), h, F1 \cup {"txHashSize"}, none)
    BY <1>2, <2>1, <2>2, <2>3, VarIntRead
  <2>5. QED
    BY <1>10, <2>4
<1>12. F2 = HashingNames
  BY <1>8, <1>10 DEF HashingNames
<1>13. UnpackHashingBlob(PackHashingBlob(h)) = r2
  BY <1>6, <1>8, <1>10 DEF UnpackHashingBlob
<1>14. PICK v : v = Fields(h, HashingNames)
  OBVIOUS
<1>15. /\ v.major = h.major /\ v.minor = h.minor /\ v.timestamp = h.timestamp
       /\ v.prevId = h.prevId /\ v.nonce = h.nonce /\ v.treeRootHash = h.treeRootHash
       /\ v.txHashSize = h.txHashSize
  BY <1>14 DEF Fields, HashingNames, HeaderNames
<1>16. PackHashingBlob(v) = PackHashingBlob(h)
  BY <1>15 DEF PackHashingBlob, PackHeader
<1>17. QED
  BY <1>1, <1>11, <1>12, <1>13, <1>14, <1>16 DEF ReadOf

-----------------------------------------------------------------------------
(* The blocks monerod builds can be read. *)

LEMMA Limits ==
    /\ Base \in Nat /\ 1 < Base /\ W8 \in Nat /\ 2 < W8 /\ W8 =< W64 /\ W64 \in Nat
    /\ W32 \in Nat /\ 0 < W32 /\ W32 =< W64 /\ U32Len \in Nat /\ 0 < U32Len
    /\ 1 + Reserved < W64 /\ HashLen \in Nat
<1>1. /\ Base \in Nat /\ 1 < Base /\ W64 \in Nat /\ U32Len \in Nat /\ 0 < U32Len /\ HashLen \in Nat
      /\ W8 = 2 * Base
  BY CodecAssumption DEF W8
<1>2. W8 =< W64 /\ W32 =< W64 /\ 2 * U32Len + 1 < W64
  BY TemplatesAssumption
<1>3. W8 \in Nat /\ 2 < W8
  BY <1>1
<1>4. W32 \in Nat /\ 0 < W32
  BY <1>1, Powers DEF W32
<1>5. 1 + Reserved < W64
  BY <1>1, <1>2 DEF Reserved
<1>6. QED
  BY <1>1, <1>2, <1>3, <1>4, <1>5

LEMMA HeightIsInput ==
    ASSUME NEW height \in Heights
    PROVE  height \in Inputs /\ height \in Nat /\ height + 1 < W64
<1>1. height \in Nat \ {0} /\ Base * (height + 1) =< W32
  BY TemplatesAssumption
<1>2. 2 * (height + 1) =< Base * (height + 1)
  BY <1>1, Limits
<1>3. PICK x \in Nat : x = Base * (height + 1)
  BY <1>1, Limits
<1>4. height + 1 < W64
  BY <1>1, <1>2, <1>3, Limits
<1>5. QED
  BY <1>1, <1>4 DEF Inputs

LEMMA ConstantSeq ==
    ASSUME NEW n \in Nat, NEW x \in Int
    PROVE  [i \in 1 .. n |-> x] \in Bin /\ Len([i \in 1 .. n |-> x]) = n
<1>1. PICK f : f = [i \in 1 .. n |-> x]
  OBVIOUS
<1>2. f \in [1 .. n -> Int]
  BY <1>1
<1>3. QED
  BY <1>1, <1>2, FunctionIsSeq DEF Bin

LEMMA BlockReadable ==
    ASSUME NEW prev \in Prevs, NEW timestamp \in Timestamps, NEW height \in Heights,
           NEW amount \in Amounts, NEW txs \in TxCounts
    PROVE  Readable(Block(prev, timestamp, height, amount, txs))
<1>1. PICK b : b = Block(prev, timestamp, height, amount, txs)
  OBVIOUS
<1>2. PICK key, hashes, extra, out :
         /\ key = [i \in 1 .. PubKeyLen |-> TxInTag]
         /\ hashes = [i \in 1 .. txs |-> [j \in 1 .. HashLen |-> i]]
         /\ extra = TxPubKey \o Zeros(Reserved)
         /\ out = [amount |-> amount, pubKey |-> key, viewTag |-> <<Base>>]
  OBVIOUS
<1>3. /\ b.major = 1 /\ b.minor = 1 /\ b.timestamp = timestamp /\ b.prevId = prev
      /\ b.nonce = 0 /\ b.version = 2 /\ b.unlockTime = height + 1 /\ b.vin = <<height>>
      /\ b.vout = <<out>> /\ b.extra = extra /\ b.rctSigType = 0 /\ b.txHashes = hashes
  BY <1>1, <1>2 DEF Block
<1>4. timestamp \in Nat /\ timestamp < W64
  <2>1. timestamp \in 0 .. W64 - 1
    BY TemplatesAssumption
  <2>2. QED
    BY <2>1, Limits
<1>5. IsHash(prev)
  BY PrevWellFormed DEF IsHash, Bin
<1>6. amount \in 0 .. W64 - 1
  <2>1. amount \in 1 .. (W64 \div 2) - 1
    BY TemplatesAssumption
  <2>2. W64 \div 2 \in Int /\ W64 \div 2 =< W64
    BY Limits
  <2>3. QED
    BY <2>1, <2>2, Limits
<1>7. key \in Bin /\ Len(key) = PubKeyLen
  <2>1. PubKeyLen \in Nat /\ TxInTag \in Int
    BY CodecAssumption DEF PubKeyLen, TxInTag, W8
  <2>2. QED
    BY <1>2, <2>1, ConstantSeq
<1>8. <<Base>> \in Bin /\ Len(<<Base>>) = 1
  BY Limits DEF Bin
<1>9. out \in TxOuts
  BY <1>2, <1>6, <1>7, <1>8 DEF TxOuts
<1>10. extra \in Bin /\ Len(extra) < W64
  <2>1. Zeros(Reserved) \in Bin /\ Len(Zeros(Reserved)) = Reserved /\ Reserved \in Nat
    <3>1. Reserved \in Nat
      BY Limits DEF Reserved
    <3>2. PICK zero \in Int : zero = 0
      OBVIOUS
    <3>3. [i \in 1 .. Reserved |-> zero] \in Bin /\ Len([i \in 1 .. Reserved |-> zero]) = Reserved
      BY <3>1, ConstantSeq
    <3>4. QED
      BY <3>1, <3>2, <3>3 DEF Zeros
  <2>2. TxPubKey \in Bin /\ Len(TxPubKey) = 1
    BY DEF TxPubKey, Bin
  <2>3. extra = Cat(TxPubKey, Zeros(Reserved))
    BY <1>2 DEF Cat
  <2>4. extra \in Bin /\ Len(extra) = 1 + Reserved
    BY <2>1, <2>2, <2>3, BinCat, BinLength
  <2>5. QED
    BY <2>4, Limits
<1>11. txs \in Nat /\ txs + 1 < W64
  <2>1. txs \in 0 .. W64 - 2
    BY TemplatesAssumption
  <2>2. QED
    BY <2>1, Limits
<1>12. /\ hashes \in Seq(Bin) /\ Len(hashes) = txs
       /\ \A i \in 1 .. txs : IsHash(hashes[i])
  <2>1. ASSUME NEW i \in 1 .. txs
        PROVE  [j \in 1 .. HashLen |-> i] \in Bin /\ Len([j \in 1 .. HashLen |-> i]) = HashLen
    <3>1. i \in Int
      BY <1>11
    <3>2. QED
      BY <3>1, Limits, ConstantSeq
  <2>2. hashes \in [1 .. txs -> Bin]
    BY <1>2, <2>1
  <2>3. \A i \in 1 .. txs : IsHash(hashes[i])
    <3>1. ASSUME NEW i \in 1 .. txs PROVE IsHash(hashes[i])
      <4>1. hashes[i] = [j \in 1 .. HashLen |-> i]
        BY <1>2
      <4>2. QED
        BY <2>1, <4>1 DEF IsHash
    <3>2. QED
      BY <3>1
  <2>4. QED
    BY <1>11, <2>2, <2>3, FunctionIsSeq
<1>13. /\ b.major \in Nat /\ b.major < W8 /\ b.minor \in Nat /\ b.minor < W8
       /\ b.nonce \in 0 .. W32 - 1 /\ b.version \in Nat /\ b.version < W64
       /\ b.rctSigType \in Nat /\ b.rctSigType < W8
       /\ b.unlockTime \in Nat /\ b.unlockTime < W64
  BY <1>3, HeightIsInput, Limits
<1>14. (\E h \in Inputs : b.vin = <<h>>) /\ \E o \in TxOuts : b.vout = <<o>>
  BY <1>3, <1>9, HeightIsInput
<1>15. /\ b.extra \in Bin /\ Len(b.extra) < W64 /\ b.txHashes \in Seq(Bin)
       /\ Len(b.txHashes) + 1 < W64 /\ \A i \in 1 .. Len(b.txHashes) : IsHash(b.txHashes[i])
  BY <1>3, <1>10, <1>11, <1>12
<1>16. Readable(b)
  BY <1>3, <1>4, <1>5, <1>13, <1>14, <1>15 DEF Readable
<1>17. QED
  BY <1>1, <1>16

-----------------------------------------------------------------------------
(* Every block that is offered is read back. *)

OfferInv ==
    /\ offer \in [block : WellFormed, expectedReward : Int] /\ Readable(offer.block)
    /\ offer.block.vout[1].amount < W64 \div 2

LEMMA InitOfferInv ==
    ASSUME Init
    PROVE  OfferInv
<1>1. PICK prev \in Prevs, timestamp \in Timestamps, height \in Heights, amount \in Amounts,
           txs \in TxCounts, more \in {-1, 0, 1} :
         offer = [block |-> Block(prev, timestamp, height, amount, txs),
                  expectedReward |-> amount + more]
  BY DEF Init, Offers
<1>2. offer.block = Block(prev, timestamp, height, amount, txs) /\ offer.expectedReward = amount + more
  BY <1>1
<1>3. offer.block \in WellFormed /\ Readable(offer.block)
  BY <1>2, BlockWellFormed, BlockReadable
<1>4. amount \in Int /\ amount < W64 \div 2
  <2>1. amount \in 1 .. (W64 \div 2) - 1 /\ W64 \div 2 \in Int
    BY TemplatesAssumption, Limits
  <2>2. QED
    BY <2>1
<1>5. offer.block.vout[1].amount = amount
  BY <1>2 DEF Block
<1>6. offer \in [block : WellFormed, expectedReward : Int]
  <2>1. amount + more \in Int
    BY <1>4
  <2>2. QED
    BY <1>1, <1>2, <1>3, <2>1
<1>7. QED
  BY <1>2, <1>3, <1>4, <1>5, <1>6 DEF OfferInv

LEMMA NextOfferInv ==
    ASSUME OfferInv, [Next]_vars
    PROVE  OfferInv'
<1>1. ASSUME NEW prev \in Prevs, NEW height \in Heights, NewTip(prev, height)
      PROVE  OfferInv'
  <2>1. PICK b, ins : b = offer.block /\ ins = <<height>>
    OBVIOUS
  <2>2. PICK new : new = [b EXCEPT !.prevId = prev, !.vin = ins]
    OBVIOUS
  <2>3. b \in WellFormed /\ Readable(b) /\ b.vout[1].amount < W64 \div 2
    BY <2>1 DEF OfferInv
  <2>4. height \in Nat /\ height \in Inputs
    BY HeightIsInput
  <2>5. ins \in Seq(Nat) /\ prev \in {p \in Seq(Int) : Len(p) = HashLen}
    BY <2>1, <2>4, OneByte, PrevWellFormed
  <2>6. new \in WellFormed
    BY <2>2, <2>3, <2>5 DEF WellFormed
  <2>7. /\ new.major = b.major /\ new.minor = b.minor /\ new.timestamp = b.timestamp
        /\ new.prevId = prev /\ new.nonce = b.nonce /\ new.version = b.version
        /\ new.unlockTime = b.unlockTime /\ new.vin = ins /\ new.vout = b.vout
        /\ new.extra = b.extra /\ new.rctSigType = b.rctSigType /\ new.txHashes = b.txHashes
    BY <2>2, <2>3 DEF WellFormed
  <2>8. IsHash(prev)
    BY PrevWellFormed DEF IsHash, Bin
  <2>9. \E h \in Inputs : new.vin = <<h>>
    BY <2>1, <2>4, <2>7
  <2>10. Readable(new)
    BY <2>3, <2>7, <2>8, <2>9 DEF Readable
  <2>11. offer' = [offer EXCEPT !.block = [@ EXCEPT !.prevId = prev, !.vin = <<height>>]]
    BY <1>1 DEF NewTip
  <2>12. offer' \in [block : WellFormed, expectedReward : Int] /\ offer'.block = new
    <3>1. offer \in [block : WellFormed, expectedReward : Int]
      BY DEF OfferInv
    <3>2. QED
      BY <2>1, <2>2, <2>6, <2>11, <3>1
  <2>13. QED
    BY <2>3, <2>6, <2>7, <2>10, <2>12 DEF OfferInv
<1>2. ASSUME offer' = offer PROVE OfferInv'
  BY <1>2 DEF OfferInv
<1>3. QED
  BY <1>1, <1>2 DEF Next, Fetch, GetJob, Submit, vars

LEMMA OfferAlways == Spec => []OfferInv
BY InitOfferInv, NextOfferInv, PTL DEF Spec

(* The package reads every block monerod can offer to its end and writes   *)
(* the same bytes again, although what it makes of the input is not the    *)
(* height: the tag and the height together are the varint it reads and     *)
(* writes.  The same holds of hashing blobs.                               *)
THEOREM BlocksRepacked == Spec => []Repacks
<1>1. OfferInv => Repacks
  <2> SUFFICES ASSUME OfferInv PROVE Repacks
    OBVIOUS
  <2>1. PICK b : b = offer.block
    OBVIOUS
  <2>2. Readable(b) /\ HeaderFields(b)
    BY <2>1, ReadableParts DEF OfferInv
  <2>3. ReadBack(UnpackBlock(Wire(b)), Wire(b), PackBlock)
    <3>1. UnpackBlock(Wire(b)) = Got(AsRead(b), <<>>) /\ PackBlock(AsRead(b)) = Wire(b)
      BY <2>2, BlockRead, Rewritten
    <3>2. QED
      BY <3>1 DEF ReadBack, Got
  <2>4. PICK h : h = Hashing(b)
    OBVIOUS
  <2>5. HeaderFields(h) /\ IsHash(h.treeRootHash) /\ h.txHashSize \in Nat /\ h.txHashSize < W64
    <3>1. /\ h.major = b.major /\ h.minor = b.minor /\ h.timestamp = b.timestamp
          /\ h.prevId = b.prevId /\ h.nonce = b.nonce /\ h.treeRootHash = b.prevId
          /\ h.txHashSize = Len(b.txHashes) + 1
      BY <2>4 DEF Hashing
    <3>2. Len(b.txHashes) \in Nat /\ Len(b.txHashes) + 1 < W64
      BY <2>2, ReadableParts DEF Readable
    <3>3. HeaderFields(h)
      BY <2>2, <3>1 DEF HeaderFields
    <3>4. QED
      BY <2>2, <3>1, <3>2, <3>3 DEF HeaderFields
  <2>6. ReadBack(UnpackHashingBlob(PackHashingBlob(h)), PackHashingBlob(h), PackHashingBlob)
    <3>1. /\ UnpackHashingBlob(PackHashingBlob(h)) = Got(Fields(h, HashingNames), <<>>)
          /\ PackHashingBlob(Fields(h, HashingNames)) = PackHashingBlob(h)
      BY <2>5, HashingRead
    <3>2. QED
      BY <3>1 DEF ReadBack, Got
  <2>7. \E blob \in {Wire(offer.block)} : ReadBack(UnpackBlock(blob), blob, PackBlock)
    BY <2>1, <2>3
  <2>8. \E blob \in {PackHashingBlob(Hashing(offer.block))} :
           ReadBack(UnpackHashingBlob(blob), blob, PackHashingBlob)
    BY <2>1, <2>4, <2>6
  <2>9. QED
    BY <2>7, <2>8 DEF Repacks
<1>2. QED
  BY <1>1, OfferAlways, PTL

-----------------------------------------------------------------------------
(* What a template that was cut short says of the reward *)

(* Unless reading has failed, the field g is x. *)
Has(r, g, x) == r.ok => g \in DOMAIN r.val /\ r.val[g] = x

LEMMA FailedHas ==
    ASSUME NEW g, NEW x
    PROVE  Has(Failed, g, x)
BY DEF Has, Failed

LEMMA WithKeeps ==
    ASSUME NEW r, NEW g, NEW x, Has(r, g, x), NEW f, f # g, NEW q
    PROVE  Has(With(r, f, q), g, x)
<1>1. CASE r.ok /\ q.ok
  <2>1. With(r, f, q) = Got(Added(r.val, f, q.val), q.rest)
    BY <1>1 DEF With, Added
  <2>2. g \in DOMAIN r.val /\ r.val[g] = x
    BY <1>1 DEF Has
  <2>3. PICK v : v = Added(r.val, f, q.val)
    OBVIOUS
  <2>4. g \in DOMAIN v /\ v[g] = x
    BY <2>2, <2>3 DEF Added
  <2>5. QED
    BY <2>1, <2>3, <2>4 DEF Has, Got
<1>2. CASE ~(r.ok /\ q.ok)
  <2>1. With(r, f, q) = Failed
    BY <1>2 DEF With
  <2>2. QED
    BY <2>1, FailedHas
<1>3. QED
  BY <1>1, <1>2

LEMMA WithHas ==
    ASSUME NEW r, NEW f, NEW x, NEW e
    PROVE  Has(With(r, f, Got(x, e)), f, x)
<1>1. CASE r.ok
  <2>1. With(r, f, Got(x, e)) = Got(Added(r.val, f, x), e)
    BY <1>1 DEF With, Added, Got
  <2>2. PICK v : v = Added(r.val, f, x)
    OBVIOUS
  <2>3. f \in DOMAIN v /\ v[f] = x
    BY <2>2 DEF Added
  <2>4. QED
    BY <2>1, <2>2, <2>3 DEF Has, Got
<1>2. CASE ~r.ok
  <2>1. With(r, f, Got(x, e)) = Failed
    BY <1>2 DEF With
  <2>2. QED
    BY <2>1, FailedHas
<1>3. QED
  BY <1>1, <1>2

LEMMA CutHeader ==
    ASSUME NEW b, HeaderFields(b), NEW rest \in Bin, NEW c, Cut(c, MajorTail(b, rest))
    PROVE  CutOf(UnpackHeader(c), rest)
<1>1. /\ b.major \in Nat /\ b.major < W8 /\ b.major < W64 /\ b.minor \in Nat /\ b.minor < W8
      /\ b.minor < W64 /\ b.timestamp \in Nat /\ b.timestamp < W64
      /\ W8 \in Nat /\ W64 \in Nat
  BY Limits DEF HeaderFields
<1>2. PICK t1, t2, t3, t4 : /\ t1 = MinorTail(b, rest) /\ t2 = TimeTail(b, rest)
                            /\ t3 = PrevTail(b, rest) /\ t4 = NonceTail(b, rest)
  OBVIOUS
<1>3. t1 \in Bin /\ t2 \in Bin /\ t3 \in Bin /\ t4 \in Bin
  BY <1>2, HeaderTails
<1>4. PICK r0, r1, r2, r3, r4 :
         /\ r0 = Got(<<>>, c) /\ r1 = VarInt(r0, "major", W8) /\ r2 = VarInt(r1, "minor", W8)
         /\ r3 = VarInt(r2, "timestamp", W64) /\ r4 = Bytes(r3, "prevId", HashLen)
  OBVIOUS
<1>5. CutOf(r0, Cat(PackVarInt[b.major], t1))
  BY <1>2, <1>4 DEF CutOf, MajorTail
<1>6. CutOf(r1, t1)
  BY <1>1, <1>3, <1>4, <1>5, VarIntCut
<1>7. CutOf(r2, t2)
  <2>1. t1 = Cat(PackVarInt[b.minor], t2)
    BY <1>2 DEF MinorTail
  <2>2. QED
    BY <1>1, <1>3, <1>4, <1>6, <2>1, VarIntCut
<1>8. CutOf(r3, t3)
  <2>1. t2 = Cat(PackVarInt[b.timestamp], t3)
    BY <1>2 DEF TimeTail
  <2>2. QED
    BY <1>1, <1>3, <1>4, <1>7, <2>1, VarIntCut
<1>9. CutOf(r4, t4)
  <2>1. t3 = Cat(b.prevId, t4) /\ b.prevId \in Bin /\ Len(b.prevId) = HashLen
    BY <1>2 DEF PrevTail, HeaderFields, IsHash
  <2>2. QED
    BY <1>3, <1>4, <1>8, <2>1, BytesCut
<1>10. UnpackHeader(c) = With(r4, "nonce", UnpackU32(r4.rest))
  BY <1>4 DEF UnpackHeader, UnpackVersions, Field
<1>11. CASE r4 = Failed
  BY <1>10, <1>11, WithFailed DEF CutOf
<1>12. ASSUME NEW v, NEW d, r4 = Got(v, d), Cut(d, t4)
       PROVE  CutOf(UnpackHeader(c), rest)
  <2>1. PICK u : u = packU32(b.nonce)
    OBVIOUS
  <2>2. u \in Bin /\ Len(u) = U32Len
    BY <2>1, NonceNat
  <2>3. Cut(d, Cat(u, rest))
    BY <1>2, <1>12, <2>1 DEF NonceTail
  <2>4. CutOf(UnpackU32(d), rest)
    BY <2>2, <2>3, CutU32 DEF CutOf
  <2>5. r4.rest = d
    BY <1>12 DEF Got
  <2>6. QED
    BY <1>10, <1>12, <2>4, <2>5, WithCut
<1>13. QED
  BY <1>9, <1>11, <1>12 DEF CutOf

LEMMA CutVin ==
    ASSUME NEW b, Readable(b), NEW c, Cut(c, VinTail(b))
    PROVE  CutOf(UnpackVin(c), VoutTail(b))
<1>1. PICK n, rest : n = Tagged(Height(b)) /\ rest = VoutTail(b)
  OBVIOUS
<1>2. n \in Nat /\ n < W32 /\ n < W64 /\ W32 \in Nat /\ W64 \in Nat
  BY <1>1, ReadableParts, TagIs, Limits
<1>3. PICK d : d = Cat(PackVarInt[n], rest)
  OBVIOUS
<1>4. rest \in Bin /\ d \in Bin /\ VinTail(b) = Cat(PackVarInt[1], d)
  BY <1>1, <1>3, BlockTails DEF VinTail
<1>5. PICK one \in Nat : one = 1
  OBVIOUS
<1>6. one < W64
  BY <1>5, Limits
<1>7. \/ UnPackVarInt(c, W64) = Failed
      \/ \E e : UnPackVarInt(c, W64) = Got(one, e) /\ Cut(e, d)
  BY <1>2, <1>4, <1>5, <1>6, CutVarInt
<1>8. CASE UnPackVarInt(c, W64) = Failed
  BY <1>8, NoItems DEF CutOf
<1>9. ASSUME NEW e, UnPackVarInt(c, W64) = Got(one, e), Cut(e, d)
      PROVE  CutOf(UnpackVin(c), rest)
  <2>1. PICK none : none = <<>>
    OBVIOUS
  <2>2. UnpackVin(c) = Item(Got(none, e), UnpackTxIn(e))
    BY <1>5, <1>9, <2>1, VinOne
  <2>3. \/ UnpackTxIn(e) = Failed
        \/ \E y : UnpackTxIn(e) = Got(n, y) /\ Cut(y, rest)
    BY <1>2, <1>3, <1>4, <1>9, CutVarInt DEF UnpackTxIn
  <2>4. CASE UnpackTxIn(e) = Failed
    BY <2>2, <2>4, ItemFailed DEF CutOf
  <2>5. ASSUME NEW y, UnpackTxIn(e) = Got(n, y), Cut(y, rest)
        PROVE  CutOf(UnpackVin(c), rest)
    <3>1. Item(Got(none, e), Got(n, y)) = Got(Append(none, n), y)
      BY ItemGot
    <3>2. QED
      BY <2>2, <2>5, <3>1 DEF CutOf
  <2>6. QED
    BY <2>3, <2>4, <2>5
<1>10. QED
  BY <1>1, <1>7, <1>8, <1>9

(* An output that was cut, or filled up, has the amount that was written. *)
LEMMA CutOut ==
    ASSUME NEW out \in TxOuts, NEW rest \in Bin, NEW c, Cut(c, OutTail(out, rest))
    PROVE  Has(UnpackTxOut(c), "amount", out.amount)
<1>1. PICK n, t, none : /\ n = out.amount /\ t = Cat(out.pubKey, Cat(out.viewTag, rest))
                        /\ none = <<>>
  OBVIOUS
<1>2. n \in Nat /\ n < W64 /\ t \in Bin /\ W64 \in Nat
  BY <1>1, OutParts, Limits
<1>3. Cut(c, Cat(PackVarInt[n], t))
  BY <1>1 DEF OutTail
<1>4. PICK q : q = UnPackVarInt(c, W64)
  OBVIOUS
<1>5. q = Failed \/ \E e : q = Got(n, e)
  BY <1>2, <1>3, <1>4, CutVarInt
<1>6. PICK r1, r2 : r1 = With(Got(none, c), "amount", q) /\ r2 = With(r1, "pubKey", Read(r1.rest, PubKeyLen))
  OBVIOUS
<1>7. Has(r1, "amount", n)
  <2>1. CASE q = Failed
    BY <1>6, <2>1, WithFailed, FailedHas
  <2>2. ASSUME NEW e, q = Got(n, e) PROVE Has(r1, "amount", n)
    BY <1>6, <2>2, WithHas
  <2>3. QED
    BY <1>5, <2>1, <2>2
<1>8. Has(r2, "amount", n)
  <2>1. "pubKey" # "amount"
    OBVIOUS
  <2>2. QED
    BY <1>6, <1>7, <2>1, WithKeeps
<1>9. Has(With(r2, "viewTag", Read(r2.rest, 1)), "amount", n)
  <2>1. "viewTag" # "amount"
    OBVIOUS
  <2>2. QED
    BY <1>8, <2>1, WithKeeps
<1>10. UnpackTxOut(c) = With(r2, "viewTag", Read(r2.rest, 1))
  <2>1. Got(none, c).rest = c
    BY DEF Got
  <2>2. VarInt(Got(none, c), "amount", W64) = r1
    BY <1>4, <1>6, <2>1 DEF VarInt
  <2>3. QED
    BY <1>1, <1>6, <2>2 DEF UnpackTxOut, Bytes
<1>11. QED
  BY <1>1, <1>9, <1>10

LEMMA CutVout ==
    ASSUME NEW b, Readable(b), NEW c, Cut(c, VoutTail(b))
    PROVE  \/ UnpackVout(c) = Failed
           \/ \E x, e : UnpackVout(c) = Got(x, e) /\ x[1].amount = b.vout[1].amount
<1>1. PICK out, rest : out = b.vout[1] /\ rest = ExtraTail(b)
  OBVIOUS
<1>2. out \in TxOuts /\ rest \in Bin
  BY <1>1, ReadableParts, BlockTails
<1>3. PICK d : d = OutTail(out, rest)
  OBVIOUS
<1>4. d \in Bin /\ VoutTail(b) = Cat(PackVarInt[1], d)
  BY <1>1, <1>3, BlockTails DEF VoutTail
<1>5. PICK one \in Nat : one = 1
  OBVIOUS
<1>6. one < W64 /\ W64 \in Nat
  BY <1>5, Limits
<1>7. \/ UnPackVarInt(c, W64) = Failed
      \/ \E e : UnPackVarInt(c, W64) = Got(one, e) /\ Cut(e, d)
  BY <1>4, <1>5, <1>6, CutVarInt
<1>8. CASE UnPackVarInt(c, W64) = Failed
  BY <1>8, NoItems
<1>9. ASSUME NEW e, UnPackVarInt(c, W64) = Got(one, e), Cut(e, d)
      PROVE  \/ UnpackVout(c) = Failed
             \/ \E x, y : UnpackVout(c) = Got(x, y) /\ x[1].amount = out.amount
  <2>1. PICK none, r : none = <<>> /\ r = UnpackTxOut(e)
    OBVIOUS
  <2>2. UnpackVout(c) = Item(Got(none, e), r)
    BY <1>5, <1>9, <2>1, VoutOne
  <2>3. Has(r, "amount", out.amount)
    BY <1>2, <1>3, <1>9, <2>1, CutOut
  <2>4. CASE r.ok
    <3>1. Item(Got(none, e), r) = Got(Append(none, r.val), r.rest)
      BY <2>4 DEF Item, Got
    <3>2. Append(none, r.val) = <<r.val>>
      BY <2>1, AppendFirst
    <3>3. PICK x : x = <<r.val>>
      OBVIOUS
    <3>4. x[1].amount = out.amount
      <4>1. x[1] = r.val
        BY <3>3
      <4>2. r.val["amount"] = out.amount
        BY <2>3, <2>4 DEF Has
      <4>3. QED
        BY <4>1, <4>2
    <3>5. UnpackVout(c) = Got(x, r.rest)
      BY <2>2, <3>1, <3>2, <3>3
    <3>6. QED
      BY <3>4, <3>5
  <2>5. CASE ~r.ok
    BY <2>2, <2>5 DEF Item
  <2>6. QED
    BY <2>4, <2>5
<1>10. QED
  BY <1>1, <1>7, <1>8, <1>9

(* The reward of a block that was cut but not refused *)
LEMMA CutReward ==
    ASSUME NEW b, Readable(b), NEW c, Cut(c, Wire(b)), UnpackBlock(c).ok
    PROVE  UnpackBlock(c).val.vout[1].amount = b.vout[1].amount
<1>1. PICK r, t : r = UnpackHeader(c) /\ t = VersionTail(b)
  OBVIOUS
<1>2. CutOf(r, t)
  <2>1. Cut(c, MajorTail(b, t)) /\ t \in Bin
    BY <1>1, WireIs, BlockTails
  <2>2. QED
    BY <1>1, <2>1, ReadableParts, CutHeader
<1>3. /\ b.version \in Nat /\ b.version < W64 /\ b.unlockTime \in Nat /\ b.unlockTime < W64
      /\ W64 \in Nat
  BY Limits DEF Readable
<1>4. PICK r1, r2, r3, r4 :
         /\ r1 = VarInt(r, "version", W64) /\ r2 = VarInt(r1, "unlockTime", W64)
         /\ r3 = With(r2, "vin", UnpackVin(r2.rest)) /\ r4 = With(r3, "vout", UnpackVout(r3.rest))
  OBVIOUS
<1>5. CutOf(r1, UnlockTail(b))
  <2>1. t = Cat(PackVarInt[b.version], UnlockTail(b)) /\ UnlockTail(b) \in Bin
    BY <1>1, BlockTails DEF VersionTail
  <2>2. QED
    BY <1>2, <1>3, <1>4, <2>1, VarIntCut
<1>6. CutOf(r2, VinTail(b))
  <2>1. UnlockTail(b) = Cat(PackVarInt[b.unlockTime], VinTail(b)) /\ VinTail(b) \in Bin
    BY BlockTails DEF UnlockTail
  <2>2. QED
    BY <1>3, <1>4, <1>5, <2>1, VarIntCut
<1>7. CutOf(r3, VoutTail(b))
  <2>1. CASE r2 = Failed
    BY <1>4, <2>1, WithFailed DEF CutOf
  <2>2. ASSUME NEW v, NEW d, r2 = Got(v, d), Cut(d, VinTail(b))
        PROVE  CutOf(r3, VoutTail(b))
    <3>1. r2.rest = d
      BY <2>2 DEF Got
    <3>2. CutOf(UnpackVin(d), VoutTail(b))
      BY <2>2, CutVin
    <3>3. QED
      BY <1>4, <2>2, <3>1, <3>2, WithCut
  <2>3. QED
    BY <1>6, <2>1, <2>2 DEF CutOf
<1>8. PICK x : Has(r4, "vout", x) /\ (r4.ok => x[1].amount = b.vout[1].amount)
  <2>1. CASE r3 = Failed \/ UnpackVout(r3.rest) = Failed
    <3>1. r4 = Failed
      BY <1>4, <2>1, WithFailed
    <3>2. QED
      BY <3>1, FailedHas DEF Failed
  <2>2. ASSUME NEW v, NEW d, r3 = Got(v, d), Cut(d, VoutTail(b)), UnpackVout(r3.rest) # Failed
        PROVE  \E x : Has(r4, "vout", x) /\ (r4.ok => x[1].amount = b.vout[1].amount)
    <3>1. r3.rest = d
      BY <2>2 DEF Got
    <3>2. PICK x, e : UnpackVout(d) = Got(x, e) /\ x[1].amount = b.vout[1].amount
      BY <2>2, <3>1, CutVout
    <3>3. Has(r4, "vout", x)
      BY <1>4, <3>1, <3>2, WithHas
    <3>4. QED
      BY <3>2, <3>3
  <2>3. QED
    BY <1>7, <2>1, <2>2 DEF CutOf
<1>9. PICK r5, r6 : /\ r5 = With(r4, "extra", UnpackExtra(r4.rest))
                    /\ r6 = With(r5, "rctSigType", UnPackVarInt(r5.rest, W8))
  OBVIOUS
<1>10. PICK r7 : r7 = With(r6, "txHashes", UnpackTxHashes(r6.rest))
  OBVIOUS
<1>11. UnpackBlock(c) = r7
  <2>1. UnpackPrefix(r) = r4
    BY <1>4 DEF UnpackPrefix, Field
  <2>2. UnpackMinerTx(r) = r6
    BY <1>9, <2>1 DEF UnpackMinerTx, Field, VarInt
  <2>3. QED
    BY <1>1, <1>10, <2>2 DEF UnpackBlock, Field
<1>12. Has(r5, "vout", x) /\ Has(r6, "vout", x) /\ Has(r7, "vout", x)
  <2>1. "extra" # "vout" /\ "rctSigType" # "vout" /\ "txHashes" # "vout"
    OBVIOUS
  <2>2. Has(r5, "vout", x)
    BY <1>8, <1>9, <2>1, WithKeeps
  <2>3. Has(r6, "vout", x)
    BY <1>9, <2>1, <2>2, WithKeeps
  <2>4. Has(r7, "vout", x)
    BY <1>10, <2>1, <2>3, WithKeeps
  <2>5. QED
    BY <2>2, <2>3, <2>4
<1>13. r4.ok
  <2>1. r7.ok
    BY <1>11
  <2>2. \A p, f, q : With(p, f, q).ok => p.ok
    BY DEF With, Failed
  <2>3. QED
    BY <1>9, <1>10, <2>1, <2>2
<1>14. QED
  <2>1. r7.val["vout"] = x
    BY <1>11, <1>12 DEF Has
  <2>2. QED
    BY <1>8, <1>11, <1>13, <2>1

RewardInv == OfferInv /\ RewardRead

LEMMA InitRewardInv ==
    ASSUME Init
    PROVE  RewardInv
BY InitOfferInv DEF RewardInv, RewardRead, Init

LEMMA NextRewardInv ==
    ASSUME RewardInv, [Next]_vars
    PROVE  RewardInv'
<1>1. OfferInv /\ RewardRead /\ OfferInv'
  BY NextOfferInv DEF RewardInv
<1>2. CASE Fetch
  <2>1. PICK buffer \in Prefixes(Wire(offer.block)) :
           template' = IF Accepts(UnpackBlock(buffer))
                       THEN Stored(buffer, UnpackBlock(buffer).val) ELSE template
    BY <1>2 DEF Fetch
  <2>2. PICK b, r : b = offer.block /\ r = UnpackBlock(buffer)
    OBVIOUS
  <2>3. Readable(b) /\ b.vout[1].amount < W64 \div 2 /\ offer.expectedReward \in Int
    BY <1>1, <2>2 DEF OfferInv
  <2>4. CASE Accepts(r)
    <3>1. template' = Stored(buffer, r.val) /\ r.ok
      BY <2>1, <2>2, <2>4 DEF Accepts
    <3>2. Cut(buffer, Wire(b))
      <4>1. Wire(b) \in Bin
        BY <2>3, WireIs
      <4>2. buffer \in Prefixes(Wire(b))
        BY <2>1, <2>2
      <4>3. QED
        BY <4>1, <4>2, CutPrefix
    <3>3. r.val.vout[1].amount = b.vout[1].amount
      BY <2>2, <2>3, <3>1, <3>2, CutReward
    <3>4. PICK a : a = b.vout[1].amount
      OBVIOUS
    <3>5. a \in Nat
      BY <2>3, <3>4, ReadableParts, OutParts, BinEmpty
    <3>6. BlockReward(r.val) = a
      BY <2>3, <3>3, <3>4 DEF BlockReward, Int64
    <3>7. offer.expectedReward >= a
      BY <2>4, <3>6 DEF Accepts
    <3>8. /\ template'.blockReward = a /\ template'.txTotalFee = offer.expectedReward - a
          /\ template'.from = offer
      BY <3>1, <3>6 DEF Stored
    <3>9. offer.expectedReward - a >= 0
      BY <2>3, <3>5, <3>7
    <3>10. RewardRead'
      BY <2>2, <3>4, <3>8, <3>9 DEF RewardRead
    <3>11. QED
      BY <1>1, <3>10 DEF RewardInv
  <2>5. CASE ~Accepts(r)
    <3>1. template' = template
      BY <2>1, <2>2, <2>5
    <3>2. QED
      BY <1>1, <3>1 DEF RewardInv, RewardRead
  <2>6. QED
    BY <2>4, <2>5
<1>3. ASSUME template' = template PROVE RewardInv'
  BY <1>1, <1>3 DEF RewardInv, RewardRead
<1>4. QED
  BY <1>2, <1>3 DEF Next, NewTip, GetJob, Submit, vars

(* A stored template has the reward of monerod's block, and fees that are  *)
(* not negative, from a blob that is whole or cut short anywhere: arrays   *)
(* of bytes are filled up where the blob ends, but a varint like the       *)
(* amount is read as it was written or not at all.                         *)
THEOREM RewardsRead == Spec => []RewardRead
<1>1. RewardInv => RewardRead
  BY DEF RewardInv
<1>2. QED
  BY <1>1, InitRewardInv, NextRewardInv, PTL DEF Spec

-----------------------------------------------------------------------------
(* What is hashed *)

(* The extra field that nextBlob writes *)
ExtraOf(k) == TxPubKey \o BigEndian(k) \o InstanceId

LEMMA ExtraOfIs ==
    ASSUME NEW k \in Nat
    PROVE  ExtraOf(k) \in Bin /\ Len(ExtraOf(k)) < W64
<1>1. PICK x, y, z : x = TxPubKey /\ y = BigEndian(k) /\ z = InstanceId
  OBVIOUS
<1>2. x \in Bin /\ Len(x) = 1
  BY <1>1 DEF TxPubKey, Bin
<1>3. y \in Bin /\ Len(y) = U32Len
  <2>1. packU32(k) \in Bin /\ Len(packU32(k)) = U32Len
    BY U32Bytes
  <2>2. \A i \in 1 .. U32Len : packU32(k)[i] \in Int
    BY <2>1 DEF Bin
  <2>3. QED
    BY <1>1, <2>2, BytesOf DEF Bin
<1>4. z \in Bin /\ Len(z) = U32Len
  <2>1. 0 .. W8 - 1 \subseteq Int /\ U32Len \in Nat
    BY Limits
  <2>2. z \in [1 .. U32Len -> Int]
    BY <1>1, <2>1, TemplatesAssumption
  <2>3. QED
    BY <2>1, <2>2, FunctionIsSeq DEF Bin
<1>5. PICK s : s = Cat(x, y)
  OBVIOUS
<1>6. s \in Bin /\ Len(s) = 1 + U32Len
  BY <1>2, <1>3, <1>5, BinCat, BinLength
<1>7. Cat(s, z) \in Bin /\ Len(Cat(s, z)) = (1 + U32Len) + U32Len
  BY <1>4, <1>6, BinCat, BinLength
<1>8. ExtraOf(k) = Cat(s, z)
  BY <1>1, <1>5 DEF ExtraOf, Cat
<1>9. (1 + U32Len) + U32Len = 1 + Reserved
  BY Limits DEF Reserved
<1>10. QED
  BY <1>7, <1>8, <1>9, Limits

LEMMA FilledReadable ==
    ASSUME NEW b \in WellFormed, Readable(b), NEW n \in 0 .. W32 - 1, NEW e \in Bin, Len(e) < W64
    PROVE  /\ Readable(Filled(b, n, e))
           /\ VersionTail(Filled(b, n, e)) = VersionTail(Filled(b, 0, e))
           /\ Filled(b, n, e).txHashes = b.txHashes
<1>1. ASSUME NEW m, NEW c, c = Filled(b, m, e)
      PROVE  /\ c.major = b.major /\ c.minor = b.minor /\ c.timestamp = b.timestamp
             /\ c.prevId = b.prevId /\ c.nonce = m /\ c.version = b.version
             /\ c.unlockTime = b.unlockTime /\ c.vin = b.vin /\ c.vout = b.vout /\ c.extra = e
             /\ c.rctSigType = b.rctSigType /\ c.txHashes = b.txHashes
  BY <1>1 DEF Filled, WellFormed
<1>2. PICK c, d : c = Filled(b, n, e) /\ d = Filled(b, 0, e)
  OBVIOUS
<1>3. Readable(c)
  <2>1. /\ c.major = b.major /\ c.minor = b.minor /\ c.timestamp = b.timestamp
        /\ c.prevId = b.prevId /\ c.nonce = n /\ c.version = b.version
        /\ c.unlockTime = b.unlockTime /\ c.vin = b.vin /\ c.vout = b.vout /\ c.extra = e
        /\ c.rctSigType = b.rctSigType /\ c.txHashes = b.txHashes
    BY <1>1, <1>2
  <2>2. QED
    BY <2>1 DEF Readable
<1>4. /\ c.version = d.version /\ c.unlockTime = d.unlockTime /\ c.vin = d.vin /\ c.vout = d.vout
      /\ c.extra = d.extra /\ c.rctSigType = d.rctSigType /\ c.txHashes = d.txHashes
  BY <1>1, <1>2
<1>5. TxsTail(c) = TxsTail(d) /\ RctTail(c) = RctTail(d)
  BY <1>4 DEF TxsTail, RctTail
<1>6. ExtraTail(c) = ExtraTail(d)
  BY <1>4, <1>5 DEF ExtraTail
<1>7. VoutTail(c) = VoutTail(d) /\ Height(c) = Height(d)
  BY <1>4, <1>6 DEF VoutTail, Height
<1>8. VinTail(c) = VinTail(d)
  BY <1>7 DEF VinTail
<1>9. VersionTail(c) = VersionTail(d)
  BY <1>4, <1>8 DEF UnlockTail, VersionTail
<1>10. QED
  BY <1>1, <1>2, <1>3, <1>9

(* The header, up to the nonce *)
LEMMA HeaderParts ==
    ASSUME NEW b \in WellFormed, Readable(b), NEW n \in 0 .. W32 - 1, NEW e \in Bin, Len(e) < W64
    PROVE  /\ BeforeNonce(b) \in Bin /\ Len(BeforeNonce(b)) = NonceOffset
           /\ packU32(n) \in Bin /\ Len(packU32(n)) = U32Len
           /\ PackHeader(Filled(b, n, e)) = Cat(BeforeNonce(b), packU32(n))
           /\ PackHeader(Filled(b, n, e)) \in Bin
           /\ Len(PackHeader(Filled(b, n, e))) = NonceOffset + U32Len
           /\ NonceOffset \in Nat
<1>1. n \in Nat
  BY Limits
<1>2. packU32(n) \in Bin /\ Len(packU32(n)) = U32Len
  BY <1>1, U32Bytes
<1>3. BeforeNonce(b) \in Bin /\ Len(BeforeNonce(b)) = NonceOffset
  <2>1. PICK S : S = Int
    OBVIOUS
  <2>2. Int \subseteq S /\ packU32(n) \in Seq(S) /\ e \in Seq(S)
    BY <1>2, <2>1 DEF Bin
  <2>3. BeforeNonce(b) \in Seq(S) /\ Len(BeforeNonce(b)) = NonceOffset
    BY <2>2, WireParts
  <2>4. QED
    BY <2>1, <2>3 DEF Bin
<1>4. PICK c : c = Filled(b, n, e)
  OBVIOUS
<1>5. /\ c.major = b.major /\ c.minor = b.minor /\ c.timestamp = b.timestamp
      /\ c.prevId = b.prevId /\ c.nonce = n
  BY <1>4 DEF Filled, WellFormed
<1>6. PackHeader(c) = Cat(BeforeNonce(b), packU32(n))
  BY <1>5 DEF PackHeader, BeforeNonce, Cat
<1>7. /\ Cat(BeforeNonce(b), packU32(n)) \in Bin
      /\ Len(Cat(BeforeNonce(b), packU32(n))) = NonceOffset + U32Len
  BY <1>2, <1>3, BinCat, BinLength
<1>8. NonceOffset \in Nat
  BY Limits, TemplatesAssumption DEF NonceOffset
<1>9. QED
  BY <1>2, <1>3, <1>4, <1>6, <1>7, <1>8

HashedOf(b, n, e) ==
    [header |-> Cat(BeforeNonce(b), packU32(n)), root |-> VersionTail(Filled(b, 0, e)),
     leaves |-> SubSeq(PackVarInt[Len(b.txHashes) + 1], 1, 1)]

LEMMA ConvertIs ==
    ASSUME NEW b \in WellFormed, Readable(b), NEW n \in 0 .. W32 - 1, NEW e \in Bin, Len(e) < W64
    PROVE  /\ ConvertBlob(Wire(Filled(b, n, e))) = HashedOf(b, n, e)
           /\ HashingBlobOf(Wire(Filled(b, n, e)), NonceOffset + U32Len, Len(b.txHashes))
                = [HashedOf(b, n, e) EXCEPT !.leaves = PackVarInt[Len(b.txHashes) + 1]]
<1>1. PICK c, w, p, t : /\ c = Filled(b, n, e) /\ w = Wire(c) /\ p = PackHeader(c)
                        /\ t = VersionTail(c)
  OBVIOUS
<1>2. Readable(c) /\ t = VersionTail(Filled(b, 0, e)) /\ c.txHashes = b.txHashes
  BY <1>1, FilledReadable
<1>3. p = Cat(BeforeNonce(b), packU32(n)) /\ p \in Bin /\ Len(p) = NonceOffset + U32Len
  BY <1>1, HeaderParts
<1>4. w = Cat(p, t) /\ t \in Bin
  <2>1. Wire(c) = MajorTail(c, VersionTail(c)) /\ VersionTail(c) \in Bin /\ HeaderFields(c)
    BY <1>2, WireIs, BlockTails, ReadableParts
  <2>2. QED
    BY <1>1, <2>1, HeaderIs
<1>5. PICK len : len = NonceOffset + U32Len
  OBVIOUS
<1>6. SubSeq(w, 1, len) = p /\ SubSeq(w, len + 1, Len(w)) = t
  <2>1. Start(Cat(p, t), Len(p)) = p /\ Back(Cat(p, t), Len(p)) = t
    BY <1>3, <1>4, BinParts
  <2>2. QED
    BY <1>3, <1>4, <1>5, <2>1 DEF Start, Back
<1>7. PICK h : h = HashingBlobOf(w, len, Len(b.txHashes))
  OBVIOUS
<1>8. h = [header |-> p, root |-> t, leaves |-> PackVarInt[Len(b.txHashes) + 1]]
  BY <1>6, <1>7 DEF HashingBlobOf
<1>9. h = [HashedOf(b, n, e) EXCEPT !.leaves = PackVarInt[Len(b.txHashes) + 1]]
  BY <1>2, <1>3, <1>8 DEF HashedOf
<1>10. [h EXCEPT !.leaves = SubSeq(@, 1, 1)] = HashedOf(b, n, e)
  BY <1>2, <1>3, <1>8 DEF HashedOf
<1>11. PICK r, a : r = UnpackBlock(w) /\ a = AsRead(c)
  OBVIOUS
<1>12. r.ok /\ r.val = a /\ PackBlock(a) = w
  BY <1>1, <1>2, <1>11, BlockRead, Rewritten DEF Got
<1>13. PackHeader(a) = p /\ a.txHashes = b.txHashes
  <2>1. /\ a.major = c.major /\ a.minor = c.minor /\ a.timestamp = c.timestamp
        /\ a.prevId = c.prevId /\ a.nonce = c.nonce /\ a.txHashes = c.txHashes
    BY <1>11 DEF AsRead
  <2>2. QED
    BY <1>1, <1>2, <2>1 DEF PackHeader
<1>14. Whole(w, r) /\ HashingBlob(w, r.val) = h
  BY <1>3, <1>5, <1>7, <1>12, <1>13 DEF Whole, HashingBlob
<1>15. ConvertBlob(w) = [HashingBlob(w, r.val) EXCEPT !.leaves = SubSeq(@, 1, 1)]
  BY <1>11, <1>14 DEF ConvertBlob, Converted
<1>16. QED
  BY <1>1, <1>5, <1>7, <1>9, <1>10, <1>14, <1>15

-----------------------------------------------------------------------------
(* Jobs and what miners make of them *)

(* A job has what ConvertBlob made of its template and extra nonce. *)
JobConverted(job) ==
    /\ job.extraNonce \in 0 .. W32 - 1
    /\ job.blob = ConvertBlob(WithReserved(job.of, job.extraNonce))

HashedInv ==
    /\ BlockInv /\ OfferInv
    /\ template # None => Readable(template.from.block)
    /\ \E J : jobs \in Seq(J) /\ \A job \in J : JobConverted(job)
    /\ share # NoShare =>
          /\ JobConverted(share.job) /\ Readable(share.by.from.block)
          /\ share.nonce \in 0 .. W32 - 1
          /\ share.blob = ConvertBlob(share.buffer)
          /\ share.ok <=> share.blob = Mined(share.job, share.nonce)

LEMMA NextHashedInv ==
    ASSUME HashedInv, [Next]_vars
    PROVE  HashedInv'
<1>1. BlockInv' /\ OfferInv'
  BY NextBlockInv, NextOfferInv DEF HashedInv
<1>2. PICK J : jobs \in Seq(J) /\ \A job \in J : JobConverted(job)
  BY DEF HashedInv
<1>3. ASSUME UNCHANGED <<template, jobs, share>> PROVE HashedInv'
  BY <1>1, <1>2, <1>3 DEF HashedInv
<1>4. CASE Fetch
  <2>1. PICK buffer : template' = IF Accepts(UnpackBlock(buffer))
                                  THEN Stored(buffer, UnpackBlock(buffer).val) ELSE template
    BY <1>4 DEF Fetch
  <2>2. template' # None => Readable(template'.from.block)
    <3>1. CASE template' = Stored(buffer, UnpackBlock(buffer).val)
      <4>1. template'.from = offer
        BY <3>1 DEF Stored
      <4>2. QED
        BY <4>1 DEF HashedInv, OfferInv
    <3>2. CASE template' = template
      BY <3>2 DEF HashedInv
    <3>3. QED
      BY <2>1, <3>1, <3>2
  <2>3. jobs' = jobs /\ share' = share
    BY <1>4 DEF Fetch
  <2>4. QED
    BY <1>1, <1>2, <2>2, <2>3 DEF HashedInv
<1>5. CASE GetJob
  <2>1. PICK job : job = NextJob
    OBVIOUS
  <2>2. JobConverted(job)
    <3>1. /\ job.extraNonce = (Len(jobs) + 1) % W32 /\ job.of = template
          /\ job.blob = ConvertBlob(WithReserved(template, (Len(jobs) + 1) % W32))
      BY <2>1 DEF NextJob
    <3>2. PICK m \in Nat : m = Len(jobs) + 1
      BY <1>2
    <3>3. m % W32 \in 0 .. W32 - 1
      BY Limits, DivMod
    <3>4. QED
      BY <3>1, <3>2, <3>3 DEF JobConverted
  <2>3. jobs' = Append(jobs, job) /\ share' = share /\ template' = template
    BY <1>5, <2>1 DEF GetJob
  <2>4. jobs' \in Seq(J \cup {job})
    BY <1>2, <2>3
  <2>5. \A j \in J \cup {job} : JobConverted(j)
    BY <1>2, <2>2
  <2>6. QED
    BY <1>1, <2>3, <2>4, <2>5 DEF HashedInv
<1>6. ASSUME NEW i \in DOMAIN jobs, NEW nonce \in MinerNonces, Submit(jobs[i], nonce)
      PROVE  HashedInv'
  <2>1. PICK buffer, blob, hash, job : /\ share' = ShareOf(job, nonce, buffer, blob, hash)
                                       /\ blob = ConvertBlob(buffer) /\ job = jobs[i]
    BY <1>6 DEF Submit
  <2>2. template # None /\ template' = template /\ jobs' = jobs
    BY <1>6 DEF Submit
  <2>3. JobConverted(job)
    BY <1>2, <2>1
  <2>4. nonce \in 0 .. W32 - 1
    BY TemplatesAssumption
  <2>5. /\ share'.job = job /\ share'.by = template /\ share'.nonce = nonce
        /\ share'.buffer = buffer /\ share'.blob = blob
        /\ share'.ok <=> share'.blob = Mined(share'.job, share'.nonce)
    BY <2>1 DEF ShareOf
  <2>6. Readable(template.from.block)
    BY <2>2 DEF HashedInv
  <2>7. /\ template' # None => Readable(template'.from.block)
        /\ JobConverted(share'.job) /\ Readable(share'.by.from.block)
        /\ share'.nonce \in 0 .. W32 - 1 /\ share'.blob = ConvertBlob(share'.buffer)
    BY <2>1, <2>2, <2>3, <2>4, <2>5, <2>6
  <2>8. QED
    BY <1>1, <1>2, <2>2, <2>5, <2>7 DEF HashedInv
<1>7. QED
  BY <1>3, <1>4, <1>5, <1>6 DEF Next, NewTip, vars

LEMMA HashedAlways == Spec => []HashedInv
<1>1. Init => HashedInv
  <2> SUFFICES ASSUME Init PROVE HashedInv
    OBVIOUS
  <2>1. jobs \in Seq({}) /\ share = NoShare /\ template = None
    BY DEF Init
  <2>2. QED
    BY <2>1, InitBlockInv, InitOfferInv DEF HashedInv
<1>2. HashedInv /\ [Next]_vars => HashedInv'
  BY NextHashedInv
<1>3. QED
  BY <1>1, <1>2, PTL DEF Spec

(* The share of a template that is whole *)
LEMMA ShareHashed ==
    ASSUME HashedInv, share # NoShare, Uncut(share.by)
    PROVE  \E b \in WellFormed, k \in 0 .. W32 - 1, n \in 0 .. W32 - 1 :
              /\ b = share.by.from.block /\ k = share.job.extraNonce /\ n = share.nonce
              /\ Readable(b) /\ ExtraOf(k) \in Bin /\ Len(ExtraOf(k)) < W64
              /\ share.buffer = Wire(Filled(b, n, ExtraOf(k)))
              /\ WithReserved(share.by, k) = Wire(Filled(b, 0, ExtraOf(k)))
              /\ share.blob = HashedOf(b, n, ExtraOf(k))
<1>1. PICK t, b, k, n : /\ t = share.by /\ b = share.by.from.block
                        /\ k = share.job.extraNonce /\ n = share.nonce
  OBVIOUS
<1>2. /\ b \in WellFormed /\ t.buffer = Wire(b) /\ t.reservedOffset = ReservedOffset(b)
      /\ share.buffer = ShareBuff(t, k, n)
  BY <1>1 DEF HashedInv, BlockInv, Placed, Uncut
<1>3. Readable(b) /\ k \in 0 .. W32 - 1 /\ n \in 0 .. W32 - 1 /\ share.blob = ConvertBlob(share.buffer)
  BY <1>1 DEF HashedInv, JobConverted
<1>4. PICK e : e = ExtraOf(k)
  OBVIOUS
<1>5. e \in Bin /\ Len(e) < W64
  <2>1. k \in Nat
    BY <1>3, Limits
  <2>2. QED
    BY <1>4, <2>1, ExtraOfIs
<1>6. share.buffer = Wire(Filled(b, n, e)) /\ WithReserved(t, k) = Wire(Filled(b, 0, e))
  BY <1>2, <1>4, ShareBuffIs DEF ExtraOf
<1>7. share.blob = HashedOf(b, n, e)
  <2>1. ConvertBlob(Wire(Filled(b, n, e))) = HashedOf(b, n, e)
    <3>1. b \in WellFormed /\ Readable(b) /\ n \in 0 .. W32 - 1
      BY <1>2, <1>3
    <3>2. QED
      BY <1>5, <3>1, ConvertIs
  <2>2. QED
    BY <1>3, <1>6, <2>1
<1>8. QED
  BY <1>1, <1>2, <1>3, <1>4, <1>5, <1>6, <1>7

(* A share found with a job of the template that is still current is never *)
(* refused as a bad hash, whatever block the template is and whatever      *)
(* nonce was found: putting the block together again from the nonce gives  *)
(* what the miner had hashed, nonce and all.                               *)
THEOREM HonestSharesAccepted == Spec => []HonestShareAccepted
<1>1. HashedInv => HonestShareAccepted
  <2> SUFFICES ASSUME HashedInv, share # NoShare, share.job.of = share.by, Uncut(share.by)
               PROVE  share.ok
    BY DEF HonestShareAccepted
  <2>1. PICK b \in WellFormed, k \in 0 .. W32 - 1, n \in 0 .. W32 - 1 :
              /\ b = share.by.from.block /\ k = share.job.extraNonce /\ n = share.nonce
              /\ Readable(b) /\ ExtraOf(k) \in Bin /\ Len(ExtraOf(k)) < W64
              /\ share.buffer = Wire(Filled(b, n, ExtraOf(k)))
              /\ WithReserved(share.by, k) = Wire(Filled(b, 0, ExtraOf(k)))
              /\ share.blob = HashedOf(b, n, ExtraOf(k))
    BY ShareHashed
  <2>2. PICK e, job, zero : e = ExtraOf(k) /\ job = share.job /\ zero = 0
    OBVIOUS
  <2>3. zero \in 0 .. W32 - 1
    BY <2>2, Limits
  <2>4. job.blob = HashedOf(b, zero, e)
    <3>1. job.blob = ConvertBlob(WithReserved(job.of, job.extraNonce))
      BY <2>2 DEF HashedInv, JobConverted
    <3>2. job.blob = ConvertBlob(Wire(Filled(b, zero, e)))
      BY <2>1, <2>2, <3>1
    <3>3. ConvertBlob(Wire(Filled(b, zero, e))) = HashedOf(b, zero, e)
      BY <2>1, <2>2, <2>3, ConvertIs
    <3>4. QED
      BY <3>2, <3>3
  <2>5. PICK p, u, v : p = BeforeNonce(b) /\ u = packU32(zero) /\ v = packU32(n)
    OBVIOUS
  <2>6. p \in Bin /\ Len(p) = NonceOffset /\ u \in Bin /\ Len(u) = U32Len /\ NonceOffset \in Nat
    BY <2>1, <2>2, <2>3, <2>5, HeaderParts
  <2>7. SubSeq(Cat(p, u), 1, Len(Cat(p, u)) - U32Len) = p
    <3>1. Len(Cat(p, u)) - U32Len = Len(p)
      BY <2>6, BinLength, Limits
    <3>2. Start(Cat(p, u), Len(p)) = p
      BY <2>6, BinParts
    <3>3. QED
      BY <3>1, <3>2 DEF Start
  <2>8. Mined(job, n) = HashedOf(b, n, e)
    <3>1. PICK h : h = job.blob
      OBVIOUS
    <3>2. h = [header |-> Cat(p, u), root |-> VersionTail(Filled(b, 0, e)),
               leaves |-> SubSeq(PackVarInt[Len(b.txHashes) + 1], 1, 1)]
      BY <2>4, <2>5, <3>1 DEF HashedOf
    <3>3. Mined(job, n) = [h EXCEPT !.header = SubSeq(@, 1, Len(@) - U32Len) \o packU32(n)]
      BY <3>1 DEF Mined
    <3>4. SubSeq(h.header, 1, Len(h.header) - U32Len) \o packU32(n) = Cat(p, v)
      BY <2>5, <2>7, <3>2 DEF Cat
    <3>5. Mined(job, n) = [header |-> Cat(p, v), root |-> VersionTail(Filled(b, 0, e)),
                           leaves |-> SubSeq(PackVarInt[Len(b.txHashes) + 1], 1, 1)]
      BY <3>2, <3>3, <3>4
    <3>6. QED
      BY <2>5, <3>5 DEF HashedOf
  <2>9. QED
    BY <2>1, <2>2, <2>8 DEF HashedInv
<1>2. QED
  BY <1>1, HashedAlways, PTL

(* What processShare hashes is what monerod hashes to check the block, for *)
(* any block whose number of leaves has one byte.                          *)
THEOREM HashesOfBlocks == Spec => []HashOfBlock
<1>1. HashedInv => HashOfBlock
  <2> SUFFICES ASSUME HashedInv, share # NoShare, Uncut(share.by),
                      Len(share.by.from.block.txHashes) + 1 < Base
               PROVE  share.blob = HashingBlob(share.buffer, share.by.from.block)
    BY DEF HashOfBlock
  <2>1. PICK b \in WellFormed, k \in 0 .. W32 - 1, n \in 0 .. W32 - 1 :
              /\ b = share.by.from.block /\ k = share.job.extraNonce /\ n = share.nonce
              /\ Readable(b) /\ ExtraOf(k) \in Bin /\ Len(ExtraOf(k)) < W64
              /\ share.buffer = Wire(Filled(b, n, ExtraOf(k)))
              /\ WithReserved(share.by, k) = Wire(Filled(b, 0, ExtraOf(k)))
              /\ share.blob = HashedOf(b, n, ExtraOf(k))
    BY ShareHashed
  <2>2. PICK e, m, zero : e = ExtraOf(k) /\ m = Len(b.txHashes) + 1 /\ zero = 0
    OBVIOUS
  <2>3. m \in Nat /\ m < Base
    BY <2>1, <2>2, ReadableParts
  <2>4. PICK x : x = PackVarInt[m]
    OBVIOUS
  <2>5. x \in Bin /\ Len(x) = 1
    BY <2>3, <2>4, PackShort DEF Bin
  <2>6. SubSeq(x, 1, 1) = x
    BY <2>5, FrontAll DEF Start, Bin
  <2>7. HashingBlobOf(share.buffer, NonceOffset + U32Len, Len(b.txHashes))
           = [HashedOf(b, n, e) EXCEPT !.leaves = x]
    <3>1. Readable(b) /\ e \in Bin /\ Len(e) < W64
      BY <2>1, <2>2
    <3>2. HashingBlobOf(Wire(Filled(b, n, e)), NonceOffset + U32Len, Len(b.txHashes))
             = [HashedOf(b, n, e) EXCEPT !.leaves = PackVarInt[Len(b.txHashes) + 1]]
      BY <3>1, ConvertIs
    <3>3. share.buffer = Wire(Filled(b, n, e)) /\ x = PackVarInt[Len(b.txHashes) + 1]
      BY <2>1, <2>2, <2>4
    <3>4. QED
      BY <3>2, <3>3
  <2>8. [HashedOf(b, n, e) EXCEPT !.leaves = x] = HashedOf(b, n, e)
    <3>1. PICK h : h = HashedOf(b, n, e)
      OBVIOUS
    <3>2. h = [header |-> Cat(BeforeNonce(b), packU32(n)), root |-> VersionTail(Filled(b, 0, e)),
               leaves |-> x]
      BY <2>2, <2>4, <2>6, <3>1 DEF HashedOf
    <3>3. [h EXCEPT !.leaves = x] = h
      BY <3>2
    <3>4. QED
      BY <3>1, <3>3
  <2>9. Len(PackHeader(b)) = NonceOffset + U32Len
    <3>1. PackHeader(b) = Cat(BeforeNonce(b), packU32(b.nonce)) /\ b.nonce = 0
      BY DEF PackHeader, BeforeNonce, WellFormed, Cat
    <3>2. zero \in 0 .. W32 - 1
      BY <2>2, Limits
    <3>3. /\ BeforeNonce(b) \in Bin /\ Len(BeforeNonce(b)) = NonceOffset
          /\ packU32(zero) \in Bin /\ Len(packU32(zero)) = U32Len
      BY <2>1, <2>2, <3>2, HeaderParts
    <3>4. QED
      BY <2>2, <3>1, <3>3, BinLength
  <2>10. HashingBlob(share.buffer, b) = HashingBlobOf(share.buffer, NonceOffset + U32Len, Len(b.txHashes))
    BY <2>9 DEF HashingBlob
  <2>11. QED
    BY <2>1, <2>2, <2>7, <2>8, <2>10
<1>2. QED
  BY <1>1, HashedAlways, PTL
=============================================================================
