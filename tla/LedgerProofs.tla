---------------------------- MODULE LedgerProofs ----------------------------
(***************************************************************************)
(* Pool implements Ledger, for every value of the constants.               *)
(***************************************************************************)
EXTENDS AccountingProofs

-----------------------------------------------------------------------------
(* The refinement mapping, as operators of the three sets and of the log   *)

OneEach(cs, is, ms) ==
    /\ \A x, y \in cs \cup is \cup ms : x.id = y.id => x = y
    /\ cs \cap is = {} /\ cs \cap ms = {} /\ is \cap ms = {}

StageIn(b, cs, is, ms) ==
    CASE InSet(b, cs) -> "candidate"
      [] InSet(b, is) -> "immature"
      [] InSet(b, {m \in ms : m.orphan}) -> "orphaned"
      [] InSet(b, {m \in ms : ~m.orphan}) -> "paid"
      [] OTHER -> "unknown"

PromiseIn(b, is, log) ==
    IF InSet(b, is) THEN log[CreditKey(CHOOSE x \in is : x.id = b)] ELSE NoCredits

StageMap == [b \in Blocks |-> StageOf(b)]
PromiseMap == [b \in Blocks |-> PromiseOf(b)]

LEMMA Mapping ==
    /\ BlockInOneStage <=> OneEach(candidates, immature, matured)
    /\ StageMap = [b \in Blocks |-> StageIn(b, candidates, immature, matured)]
    /\ PromiseMap = [b \in Blocks |-> PromiseIn(b, immature, creditsImmature)]
    /\ StageMap' = [b \in Blocks |-> StageIn(b, candidates', immature', matured')]
    /\ PromiseMap' = [b \in Blocks |-> PromiseIn(b, immature', creditsImmature')]
<1>1. \A b : StageOf(b) = StageIn(b, candidates, immature, matured)
  BY DEF StageOf, StageIn
<1>2. \A b : PromiseOf(b) = PromiseIn(b, immature, creditsImmature)
  BY DEF PromiseOf, PromiseIn
<1>3. \A b : StageOf(b)' = StageIn(b, candidates', immature', matured')
  BY DEF StageOf, StageIn
<1>4. \A b : PromiseOf(b)' = PromiseIn(b, immature', creditsImmature')
  BY DEF PromiseOf, PromiseIn, CreditKey
<1>5. QED
  BY <1>1, <1>2, <1>3, <1>4 DEF StageMap, PromiseMap, BlockInOneStage, OneEach, Stored

(* In one set only, a block has the stage of that set ... *)
LEMMA StageFacts ==
    ASSUME NEW cs, NEW is, NEW ms, OneEach(cs, is, ms)
    PROVE  /\ \A x \in cs : StageIn(x.id, cs, is, ms) = "candidate"
           /\ \A x \in is : StageIn(x.id, cs, is, ms) = "immature"
           /\ \A x \in ms : x.orphan => StageIn(x.id, cs, is, ms) = "orphaned"
           /\ \A x \in ms : ~x.orphan => StageIn(x.id, cs, is, ms) = "paid"
           /\ \A b : (\A x \in cs \cup is \cup ms : x.id # b) => StageIn(b, cs, is, ms) = "unknown"
<1>1. ASSUME NEW x \in cs
      PROVE  StageIn(x.id, cs, is, ms) = "candidate"
  <2>1. InSet(x.id, cs) /\ ~InSet(x.id, is) /\ ~InSet(x.id, ms)
    BY DEF OneEach, InSet
  <2>2. QED
    BY <2>1 DEF StageIn, InSet
<1>2. ASSUME NEW x \in is
      PROVE  StageIn(x.id, cs, is, ms) = "immature"
  <2>1. ~InSet(x.id, cs) /\ InSet(x.id, is) /\ ~InSet(x.id, ms)
    BY DEF OneEach, InSet
  <2>2. QED
    BY <2>1 DEF StageIn, InSet
<1>3. ASSUME NEW x \in ms
      PROVE  StageIn(x.id, cs, is, ms) = IF x.orphan THEN "orphaned" ELSE "paid"
  <2>1. ~InSet(x.id, cs) /\ ~InSet(x.id, is)
    BY DEF OneEach, InSet
  <2>2. /\ InSet(x.id, {m \in ms : m.orphan}) <=> x.orphan
        /\ InSet(x.id, {m \in ms : ~m.orphan}) <=> ~x.orphan
    BY DEF OneEach, InSet
  <2>3. QED
    BY <2>1, <2>2 DEF StageIn
<1>4. ASSUME NEW b, \A x \in cs \cup is \cup ms : x.id # b
      PROVE  StageIn(b, cs, is, ms) = "unknown"
  <2>1. /\ ~InSet(b, cs) /\ ~InSet(b, is)
        /\ ~InSet(b, {m \in ms : m.orphan}) /\ ~InSet(b, {m \in ms : ~m.orphan})
    BY <1>4 DEF InSet
  <2>2. QED
    BY <2>1 DEF StageIn
<1>5. QED
  BY <1>1, <1>2, <1>3, <1>4

(* ... and while it is in the same set, the same stage.                    *)
LEMMA StageSame ==
    ASSUME NEW cs, NEW is, NEW ms, NEW ds, NEW js, NEW ns, NEW b,
           InSet(b, cs) <=> InSet(b, ds), InSet(b, is) <=> InSet(b, js),
           \A m : m.id = b => (m \in ms <=> m \in ns)
    PROVE  StageIn(b, cs, is, ms) = StageIn(b, ds, js, ns)
<1>1. /\ InSet(b, {m \in ms : m.orphan}) <=> InSet(b, {m \in ns : m.orphan})
      /\ InSet(b, {m \in ms : ~m.orphan}) <=> InSet(b, {m \in ns : ~m.orphan})
  BY DEF InSet
<1>2. QED
  BY <1>1 DEF StageIn

LEMMA PromiseFacts ==
    ASSUME NEW is, NEW log, \A x, y \in is : x.id = y.id => x = y
    PROVE  /\ \A x \in is : PromiseIn(x.id, is, log) = log[CreditKey(x)]
           /\ \A b : ~InSet(b, is) => PromiseIn(b, is, log) = NoCredits
<1>1. ASSUME NEW x \in is
      PROVE  PromiseIn(x.id, is, log) = log[CreditKey(x)]
  <2>1. InSet(x.id, is)
    BY DEF InSet
  <2>2. (CHOOSE y \in is : y.id = x.id) = x
    OBVIOUS
  <2>3. QED
    BY <2>1, <2>2 DEF PromiseIn
<1>2. QED
  BY <1>1 DEF PromiseIn

-----------------------------------------------------------------------------
(* The steps of the ledger, in terms of the mapping                        *)

Moved(bs, to) == StageMap' = [b \in Blocks |-> IF b \in bs THEN to ELSE StageMap[b]]

LEMMA LedgerStutter ==
    ASSUME StageMap' = StageMap, PromiseMap' = PromiseMap, UNCHANGED <<minerImmature, minerBalance>>
    PROVE  UNCHANGED Abstract!ledgerVars
BY DEF Abstract!ledgerVars, StageMap, PromiseMap

LEMMA LedgerRecord ==
    ASSUME NEW b \in Blocks, StageMap[b] = "unknown", Moved({b}, "candidate"),
           PromiseMap' = PromiseMap, UNCHANGED <<minerImmature, minerBalance>>
    PROVE  Abstract!LedgerNext
<1>1. Abstract!Record(b)
  BY DEF Abstract!Record, Abstract!Advance, Moved, StageMap, PromiseMap
<1>2. QED
  BY <1>1 DEF Abstract!LedgerNext

LEMMA LedgerDoubt ==
    ASSUME NEW bs \in SUBSET Blocks, \A b \in bs : StageMap[b] = "candidate",
           Moved(bs, "immature"),
           PromiseMap' = PromiseMap, UNCHANGED <<minerImmature, minerBalance>>
    PROVE  Abstract!LedgerNext
<1>1. Abstract!Doubt(bs)
  BY DEF Abstract!Doubt, Abstract!Advance, Moved, StageMap, PromiseMap
<1>2. QED
  BY <1>1 DEF Abstract!LedgerNext

LEMMA LedgerPromise ==
    ASSUME NEW b \in Blocks, StageMap[b] = "candidate", Moved({b}, "immature"),
           NEW amount \in [Accounts -> Nat], PromiseMap' = [PromiseMap EXCEPT ![b] = amount],
           minerImmature \in [Accounts -> Int], minerImmature' = Plus(minerImmature, amount),
           UNCHANGED minerBalance
    PROVE  Abstract!LedgerNext
<1>1. PromiseMap'[b] = amount
  BY DEF PromiseMap
<1>2. minerImmature' = Abstract!Add(minerImmature, amount)
  BY DEF Abstract!Add, Plus
<1>3. Abstract!Promise(b)
  BY <1>1, <1>2 DEF Abstract!Promise, Abstract!Advance, Abstract!Credit, Moved, StageMap, PromiseMap
<1>4. QED
  BY <1>3 DEF Abstract!LedgerNext

LEMMA LedgerTakeBack ==
    ASSUME NEW b \in Blocks, minerImmature \in [Accounts -> Int],
           minerImmature' = Minus(minerImmature, PromiseMap[b]),
           PromiseMap' = [PromiseMap EXCEPT ![b] = NoCredits]
    PROVE  Abstract!TakeBack(b)
<1>1. minerImmature' = Abstract!Subtract(minerImmature, PromiseMap[b])
  BY DEF Abstract!Subtract, Minus
<1>2. Abstract!Nothing = NoCredits
  BY DEF Abstract!Nothing, NoCredits
<1>3. QED
  BY <1>1, <1>2 DEF Abstract!TakeBack, PromiseMap

LEMMA LedgerCancel ==
    ASSUME NEW b \in Blocks, StageMap[b] = "immature", Moved({b}, "orphaned"),
           Abstract!TakeBack(b), UNCHANGED minerBalance
    PROVE  Abstract!LedgerNext
<1>1. Abstract!Cancel(b)
  BY DEF Abstract!Cancel, Abstract!Advance, Moved, StageMap
<1>2. QED
  BY <1>1 DEF Abstract!LedgerNext

LEMMA LedgerPay ==
    ASSUME NEW b \in Blocks, StageMap[b] = "immature", Moved({b}, "paid"),
           Abstract!TakeBack(b), NEW amount \in [Accounts -> Nat],
           PromiseMap[b] # NoCredits => amount = PromiseMap[b],
           minerBalance \in [Accounts -> Int], minerBalance' = Plus(minerBalance, amount)
    PROVE  Abstract!LedgerNext
<1>1. minerBalance' = Abstract!Add(minerBalance, amount)
  BY DEF Abstract!Add, Plus
<1>2. Abstract!Subtract(minerBalance', minerBalance) = amount
  BY <1>1 DEF Abstract!Subtract, Abstract!Add
<1>3. Abstract!Nothing = NoCredits
  BY DEF Abstract!Nothing, NoCredits
<1>4. Abstract!Pay(b)
  BY <1>1, <1>2, <1>3 DEF Abstract!Pay, Abstract!Advance, Abstract!Credit, Moved, StageMap, PromiseMap
<1>5. QED
  BY <1>4 DEF Abstract!LedgerNext

-----------------------------------------------------------------------------
(* The steps of the pool, in terms of the mapping                          *)

LEMMA MapFacts ==
    ASSUME BlockInOneStage, TypeOK
    PROVE  /\ \A x \in candidates : x.id \in Blocks /\ StageMap[x.id] = "candidate"
           /\ \A x \in immature : /\ x.id \in Blocks /\ StageMap[x.id] = "immature"
                                 /\ PromiseMap[x.id] = creditsImmature[CreditKey(x)]
           /\ \A x \in matured : /\ x.id \in Blocks
                                /\ StageMap[x.id] = IF x.orphan THEN "orphaned" ELSE "paid"
           /\ \A b \in Blocks : (\A x \in Stored : x.id # b) => StageMap[b] = "unknown"
           /\ \A b \in Blocks : (\A x \in immature : x.id # b) => PromiseMap[b] = NoCredits
<1>1. \A x \in Stored : x.id \in Blocks
  BY DEF TypeOK, StorageTypeOK, BlockTypeOK, BlockData, Stored
<1>2. OneEach(candidates, immature, matured)
  BY Mapping
<1>3. \A b \in Blocks : StageMap[b] = StageIn(b, candidates, immature, matured)
  BY Mapping
<1>4. \A b \in Blocks : PromiseMap[b] = PromiseIn(b, immature, creditsImmature)
  BY Mapping
<1>5. /\ \A x \in immature : PromiseIn(x.id, immature, creditsImmature)
                               = creditsImmature[CreditKey(x)]
      /\ \A b : (\A x \in immature : x.id # b)
               => PromiseIn(b, immature, creditsImmature) = NoCredits
  BY <1>2, PromiseFacts DEF OneEach, InSet
<1>6. /\ \A x \in candidates : StageIn(x.id, candidates, immature, matured) = "candidate"
      /\ \A x \in immature : StageIn(x.id, candidates, immature, matured) = "immature"
      /\ \A x \in matured : StageIn(x.id, candidates, immature, matured)
                              = IF x.orphan THEN "orphaned" ELSE "paid"
      /\ \A b : (\A x \in candidates \cup immature \cup matured : x.id # b)
               => StageIn(b, candidates, immature, matured) = "unknown"
  BY <1>2, StageFacts
<1>7. QED
  BY <1>1, <1>3, <1>4, <1>5, <1>6 DEF Stored

(* The stage of a block that stays in its set does not change.             *)
LEMMA StageStays ==
    ASSUME NEW b \in Blocks,
           InSet(b, candidates) <=> InSet(b, candidates'),
           InSet(b, immature) <=> InSet(b, immature'),
           \A m : m.id = b => (m \in matured <=> m \in matured')
    PROVE  StageMap'[b] = StageMap[b]
BY StageSame, Mapping

LEMMA MovedMap ==
    ASSUME NEW bs, NEW to, \A b \in Blocks : StageMap'[b] = IF b \in bs THEN to ELSE StageMap[b]
    PROVE  Moved(bs, to)
<1>1. StageMap' = [b \in Blocks |-> StageMap'[b]]
  BY DEF StageMap
<1>2. QED
  BY <1>1 DEF Moved

LEMMA MapFactsNext ==
    ASSUME BlockInOneStage', TypeOK'
    PROVE  /\ \A x \in candidates' : StageMap'[x.id] = "candidate"
           /\ \A x \in immature' : /\ StageMap'[x.id] = "immature"
                                  /\ PromiseMap'[x.id] = creditsImmature'[CreditKey(x)]
           /\ \A x \in matured' : StageMap'[x.id] = IF x.orphan THEN "orphaned" ELSE "paid"
           /\ \A b \in Blocks : (\A x \in immature' : x.id # b) => PromiseMap'[b] = NoCredits
<1>1. \A x \in candidates' \cup immature' \cup matured' : x.id \in Blocks
  BY DEF TypeOK, StorageTypeOK, BlockTypeOK, BlockData
<1>2. OneEach(candidates', immature', matured')
  BY Mapping DEF BlockInOneStage, OneEach, Stored
<1>3. \A b \in Blocks : StageMap'[b] = StageIn(b, candidates', immature', matured')
  BY Mapping
<1>4. \A b \in Blocks : PromiseMap'[b] = PromiseIn(b, immature', creditsImmature')
  BY Mapping
<1>5. /\ \A x \in immature' : PromiseIn(x.id, immature', creditsImmature')
                                = creditsImmature'[CreditKey(x)]
      /\ \A b : (\A x \in immature' : x.id # b)
               => PromiseIn(b, immature', creditsImmature') = NoCredits
  BY <1>2, PromiseFacts DEF OneEach, InSet
<1>6. /\ \A x \in candidates' : StageIn(x.id, candidates', immature', matured') = "candidate"
      /\ \A x \in immature' : StageIn(x.id, candidates', immature', matured') = "immature"
      /\ \A x \in matured' : StageIn(x.id, candidates', immature', matured')
                              = IF x.orphan THEN "orphaned" ELSE "paid"
  BY <1>2, StageFacts
<1>7. QED
  BY <1>1, <1>3, <1>4, <1>5, <1>6

(* The promise of a block whose entry is not touched is the same.          *)
LEMMA PromisesStay ==
    ASSUME BlockInOneStage, BlockInOneStage', TypeOK, TypeOK', NEW bs \in SUBSET Blocks,
           \A x \in immature : x.id \notin bs =>
              x \in immature' /\ creditsImmature'[CreditKey(x)] = creditsImmature[CreditKey(x)],
           \A x \in immature' : x.id \notin bs => x \in immature,
           NEW b \in Blocks \ bs
    PROVE  PromiseMap'[b] = PromiseMap[b]
<1>1. /\ \A x \in immature' : PromiseMap'[x.id] = creditsImmature'[CreditKey(x)]
      /\ (\A x \in immature' : x.id # b) => PromiseMap'[b] = NoCredits
  BY MapFactsNext
<1>2. CASE \E x \in immature : x.id = b
  BY <1>1, <1>2, MapFacts
<1>3. CASE \A x \in immature : x.id # b
  BY <1>1, <1>3, MapFacts
<1>4. QED
  BY <1>2, <1>3


LEMMA SameMaps ==
    ASSUME UNCHANGED <<candidates, immature, matured, creditsImmature>>
    PROVE  StageMap' = StageMap /\ PromiseMap' = PromiseMap
BY Mapping

(* An entry of the log is that of the one block that is promised something *)
LEMMA EntryOwner ==
    ASSUME TypeOK, KeyInv, NEW x \in immature
    PROVE  /\ CreditKey(x) \in CreditKeys
           /\ x.id \in Blocks /\ x.hash \in {ZeroHash, x.id} /\ x.id # ZeroHash
           /\ x.hash = ZeroHash => creditsImmature[CreditKey(x)] = NoCredits
<1>1. /\ CreditKey(x) \in CreditKeys /\ x.hash \in {ZeroHash, x.id}
      /\ \A y \in immature : y.id \in Blocks
  BY ImmatureKey DEF KeyInv, HashInv, TypeOK, StorageTypeOK, BlockTypeOK, BlockData
<1>2. ZeroHash \notin Blocks
  BY StorageAssumption DEF AnyBlock
<1>3. ASSUME x.hash = ZeroHash
      PROVE  creditsImmature[CreditKey(x)] = NoCredits
  BY <1>1, <1>2, <1>3 DEF KeyInv, LogInv, CreditKey
<1>4. QED
  BY <1>1, <1>2, <1>3

LEMMA EntryOwnerNext ==
    ASSUME TypeOK', KeyInv', NEW x \in immature', x.hash = ZeroHash
    PROVE  creditsImmature'[CreditKey(x)] = NoCredits
<1>1. /\ \A k \in CreditKeys : creditsImmature'[k] # NoCredits =>
            \E y \in immature' : y.hash = y.id /\ CreditKey(y) = k
  BY DEF KeyInv, LogInv, CreditKey
<1>2. CreditKey(x) \in CreditKeys /\ \A y \in immature' : y.id \in Blocks
  BY DEF TypeOK, StorageTypeOK, BlockTypeOK, BlockData, CreditKey, CreditKeys
<1>3. ZeroHash \notin Blocks
  BY StorageAssumption DEF AnyBlock
<1>4. QED
  BY <1>1, <1>2, <1>3 DEF CreditKey

(* WriteBlock stores a candidate. *)
LEMMA RecordStep ==
    ASSUME TypeOK, TypeOK', StageInv, StageInv', NEW s \in Sessions,
           writers[s].pc = "candidate",
           AddCandidate(writers[s].pow, writers[s].height, writers[s].total)
    PROVE  Abstract!LedgerNext
<1> DEFINE b == writers[s].pow
           c == Candidate(b, writers[s].height, writers[s].total)
<1>1. writers[s] # Idle /\ b \in Blocks
  BY DEF TypeOK, WriterTypeOK, Submission, Idle
<1>2. \A x \in Stored : x.id # b
  BY <1>1 DEF StageInv, WriterInv
<1>3. /\ candidates' = candidates \cup {c} /\ c.id = b
      /\ UNCHANGED <<immature, matured, creditsImmature, minerImmature, minerBalance>>
  BY DEF AddCandidate, Candidate, moneyVars
<1> HIDE DEF b, c
<1>4. StageMap[b] = "unknown"
  BY <1>1, <1>2, MapFacts DEF StageInv
<1>5. StageMap'[b] = "candidate"
  BY <1>3, MapFactsNext DEF StageInv
<1>6. Moved({b}, "candidate")
  <2>1. ASSUME NEW d \in Blocks \ {b}
        PROVE  StageMap'[d] = StageMap[d]
    <3>1. InSet(d, candidates) <=> InSet(d, candidates')
      BY <1>3, <2>1 DEF InSet
    <3>2. QED
      BY <1>3, <3>1, StageStays
  <2>2. QED
    BY <1>5, <2>1, MovedMap
<1>7. PromiseMap' = PromiseMap
  BY <1>3, Mapping
<1>8. QED
  BY <1>1, <1>3, <1>4, <1>6, <1>7, LedgerRecord

(* WritePendingOrphans *)
LEMMA DoubtStep ==
    ASSUME TypeOK, TypeOK', StageInv, StageInv', ItemInv, KeyInv, KeyInv', stage = "pending",
           WritePendingOrphans(orphanedBlocks)
    PROVE  Abstract!LedgerNext
<1> DEFINE bs == {i.key.id : i \in orphanedBlocks}
<1>1. /\ candidates' = candidates \ {i.key : i \in orphanedBlocks}
      /\ immature' = immature \cup {Key(i.data) : i \in orphanedBlocks}
      /\ \A i \in orphanedBlocks : i.key \in candidates
      /\ UNCHANGED <<matured, creditsImmature, minerImmature, minerBalance>>
  BY DoubtEntry DEF moneyVars
<1>2. \A i \in orphanedBlocks :
        Key(i.data).id = i.key.id /\ Key(i.data).hash = ZeroHash /\ i.key.id \in Blocks
  BY <1>1, OrphanedItem, DoubtEntry, MapFacts DEF StageInv
<1>3. \A b \in bs : StageMap[b] = "candidate" /\ PromiseMap[b] = NoCredits
  <2>1. ASSUME NEW i \in orphanedBlocks
        PROVE  StageMap[i.key.id] = "candidate" /\ PromiseMap[i.key.id] = NoCredits
    <3>1. i.key \in candidates /\ i.key.id \in Blocks
      BY <1>1, <1>2
    <3>2. \A x \in immature : x.id # i.key.id
      BY <3>1 DEF StageInv, BlockInOneStage, Stored
    <3>3. QED
      BY <3>1, <3>2, MapFacts DEF StageInv
  <2>2. QED
    BY <2>1
<1>4. \A b \in bs : StageMap'[b] = "immature" /\ PromiseMap'[b] = NoCredits
  <2>1. ASSUME NEW i \in orphanedBlocks
        PROVE  StageMap'[i.key.id] = "immature" /\ PromiseMap'[i.key.id] = NoCredits
    <3>1. Key(i.data) \in immature'
      BY <1>1
    <3>2. creditsImmature'[CreditKey(Key(i.data))] = NoCredits
      <4>1. \A x \in immature' : x.hash = ZeroHash =>
               creditsImmature'[CreditKey(x)] = NoCredits
        BY EntryOwnerNext
      <4>2. QED
        BY <1>2, <3>1, <4>1
    <3>3. QED
      BY <1>2, <3>1, <3>2, MapFactsNext DEF StageInv
  <2>2. QED
    BY <2>1
<1>5. bs \in SUBSET Blocks
  BY <1>2
<1>6. Moved(bs, "immature")
  <2>1. ASSUME NEW b \in Blocks \ bs
        PROVE  StageMap'[b] = StageMap[b]
    <3>1. /\ InSet(b, candidates) <=> InSet(b, candidates')
          /\ InSet(b, immature) <=> InSet(b, immature')
      BY <1>1, <1>2, <2>1 DEF InSet
    <3>2. QED
      BY <1>1, <3>1, StageStays
  <2> HIDE DEF bs
  <2>2. QED
    BY <1>4, <2>1, MovedMap
<1>7. PromiseMap' = PromiseMap
  <2>1. \A x \in immature' : x.id \notin bs => x \in immature
    BY <1>1, <1>2
  <2> HIDE DEF bs
  <2>2. \A b \in Blocks : PromiseMap'[b] = PromiseMap[b]
    BY <1>1, <1>3, <1>4, <1>5, <2>1, PromisesStay DEF StageInv
  <2>3. QED
    BY <2>2 DEF PromiseMap
<1> HIDE DEF bs
<1>8. QED
  BY <1>1, <1>3, <1>5, <1>6, <1>7, LedgerDoubt

(* WriteImmatureBlock *)
LEMMA PromiseStep ==
    ASSUME HeadersTell, TypeOK, TypeOK', StageInv, StageInv', ItemInv, KeyInv,
           stage = "pending", NEW item \in maturedBlocks, WriteImmatureBlock(item, rewards)
    PROVE  Abstract!LedgerNext
<1> DEFINE b == item.key.id
           new == Key(item.data)
<1>1. /\ item.key \in candidates
      /\ candidates' = candidates \ {item.key} /\ immature' = immature \cup {new}
      /\ creditsImmature' = [creditsImmature EXCEPT ![OwnKey(item)] = rewards]
      /\ minerImmature' = Plus(minerImmature, rewards)
      /\ UNCHANGED <<matured, minerBalance>>
  BY PromiseEntry
<1>2. /\ new.id = b /\ CreditKey(new) = OwnKey(item) /\ OwnKey(item) \in CreditKeys
      /\ OwnKey(item)[2] = b
  BY MaturedItem DEF OwnKey
<1>3. b \in Blocks /\ StageMap[b] = "candidate" /\ \A x \in immature : x.id # b
  BY <1>1, MapFacts DEF StageInv, BlockInOneStage, Stored
<1> HIDE DEF b, new
<1>4. new \in immature'
  BY <1>1
<1>5. StageMap'[b] = "immature" /\ PromiseMap'[b] = rewards
  <2>1. creditsImmature'[OwnKey(item)] = rewards
    BY <1>1, <1>2, MoneyTypes
  <2>2. QED
    BY <1>2, <1>4, <2>1, MapFactsNext DEF StageInv
<1>6. Moved({b}, "immature")
  <2>1. ASSUME NEW d \in Blocks \ {b}
        PROVE  StageMap'[d] = StageMap[d]
    <3>1. /\ InSet(d, candidates) <=> InSet(d, candidates')
          /\ InSet(d, immature) <=> InSet(d, immature')
      BY <1>1, <1>2, <2>1 DEF InSet, b
    <3>2. QED
      BY <1>1, <3>1, StageStays
  <2>2. QED
    BY <1>5, <2>1, MovedMap
<1>7. ASSUME NEW d \in Blocks \ {b}
      PROVE  PromiseMap'[d] = PromiseMap[d]
  <2>1. ASSUME NEW x \in immature
        PROVE  x \in immature' /\ creditsImmature'[CreditKey(x)] = creditsImmature[CreditKey(x)]
    <3>1. CreditKey(x) \in CreditKeys /\ CreditKey(x)[2] = x.hash
      BY EntryOwner DEF CreditKey
    <3>2. CreditKey(x) # OwnKey(item)
      BY <1>2, <1>3, <3>1, EntryOwner, StorageAssumption DEF AnyBlock
    <3>3. QED
      BY <1>1, <3>1, <3>2, MoneyTypes
  <2>2. \A x \in immature' : x.id \notin {b} => x \in immature
    BY <1>1, <1>2
  <2>3. {b} \in SUBSET Blocks
    BY <1>3
  <2>4. QED
    BY <2>1, <2>2, <2>3, PromisesStay DEF StageInv
<1>8. PromiseMap' = [PromiseMap EXCEPT ![b] = rewards]
  <2>1. PromiseMap' = [d \in Blocks |-> PromiseMap'[d]]
    BY DEF PromiseMap
  <2>2. PromiseMap = [d \in Blocks |-> PromiseMap[d]]
    BY DEF PromiseMap
  <2>3. QED
    BY <1>3, <1>5, <1>7, <2>1, <2>2
<1>9. QED
  BY <1>1, <1>3, <1>6, <1>8, MoneyTypes, LedgerPromise

(* Settling a block ends its promise and no other. *)
LEMMA EndPromise ==
    ASSUME TypeOK, TypeOK', StageInv, StageInv', KeyInv, NEW key \in immature,
           immature' = immature \ {key}, NEW k \in CreditKeys,
           creditsImmature' = [creditsImmature EXCEPT ![k] = NoCredits],
           k = CreditKey(key) \/ k[2] = key.id
    PROVE  PromiseMap' = [PromiseMap EXCEPT ![key.id] = NoCredits]
<1>1. key.id \in Blocks /\ \A x \in immature' : x.id # key.id
  BY EntryOwner DEF StageInv, BlockInOneStage, Stored
<1>2. PromiseMap'[key.id] = NoCredits
  BY <1>1, MapFactsNext DEF StageInv
<1>3. ASSUME NEW d \in Blocks \ {key.id}
      PROVE  PromiseMap'[d] = PromiseMap[d]
  <2>1. ASSUME NEW x \in immature, x.id # key.id
        PROVE  creditsImmature'[CreditKey(x)] = creditsImmature[CreditKey(x)]
    <3>1. CreditKey(x) \in CreditKeys /\ CreditKey(x)[2] = x.hash /\ CreditKey(key)[2] = key.hash
      BY EntryOwner DEF CreditKey
    <3>2. CASE CreditKey(x) # k
      BY <3>1, <3>2, MoneyTypes
    <3>3. CASE CreditKey(x) = k
      <4>1. x.hash = ZeroHash
        BY <2>1, <3>1, <3>3, EntryOwner
      <4>2. creditsImmature[CreditKey(x)] = NoCredits
        BY <4>1, EntryOwner
      <4>3. QED
        BY <3>1, <3>3, <4>2, MoneyTypes
    <3>4. QED
      BY <3>2, <3>3
  <2>2. {key.id} \in SUBSET Blocks
    BY <1>1
  <2>3. QED
    BY <2>1, <2>2, PromisesStay DEF StageInv
<1>4. PromiseMap' = [d \in Blocks |-> PromiseMap'[d]] /\ PromiseMap = [d \in Blocks |-> PromiseMap[d]]
  BY DEF PromiseMap
<1>5. QED
  BY <1>1, <1>2, <1>3, <1>4

(* ... and moves it on to the final stages.                                *)
LEMMA EndStage ==
    ASSUME TypeOK, TypeOK', StageInv, StageInv', NEW key \in immature, NEW new,
           immature' = immature \ {key}, matured' = matured \cup {new}, new.id = key.id,
           UNCHANGED candidates
    PROVE  /\ key.id \in Blocks /\ StageMap[key.id] = "immature"
           /\ PromiseMap[key.id] = creditsImmature[CreditKey(key)]
           /\ Moved({key.id}, IF new.orphan THEN "orphaned" ELSE "paid")
<1>1. /\ key.id \in Blocks /\ StageMap[key.id] = "immature"
      /\ PromiseMap[key.id] = creditsImmature[CreditKey(key)]
  BY MapFacts DEF StageInv
<1>2. StageMap'[key.id] = IF new.orphan THEN "orphaned" ELSE "paid"
  <2>1. new \in matured'
    OBVIOUS
  <2>2. QED
    BY <2>1, MapFactsNext DEF StageInv
<1>3. Moved({key.id}, IF new.orphan THEN "orphaned" ELSE "paid")
  <2>1. ASSUME NEW d \in Blocks \ {key.id}
        PROVE  StageMap'[d] = StageMap[d]
    <3>1. /\ InSet(d, immature) <=> InSet(d, immature')
          /\ \A m : m.id = d => (m \in matured <=> m \in matured')
      BY <2>1 DEF InSet
    <3>2. QED
      BY <3>1, StageStays
  <2>2. QED
    BY <1>2, <2>1, MovedMap
<1>4. QED
  BY <1>1, <1>3

(* WriteMaturedBlock *)
LEMMA PayStep ==
    ASSUME HeadersTell, TypeOK, TypeOK', StageInv, StageInv', ItemInv, KeyInv, RewardInv,
           stage = "credit", upc = "write", NEW item \in maturedBlocks,
           item = First(maturedBlocks),
           WriteMaturedBlock(item, rewards, creditsImmature[CreditKey(item.data)])
    PROVE  Abstract!LedgerNext
<1> DEFINE b == item.key.id
           k == OwnKey(item)
           new == Key(item.data)
           log == creditsImmature[k]
<1>1. /\ CreditKey(item.data) = k /\ k \in CreditKeys /\ k = <<item.key.height, b>>
      /\ new.id = b /\ ~new.orphan
  BY MaturedItem DEF OwnKey
<1>2. /\ item.key \in immature /\ immature' = immature \ {item.key}
      /\ matured' = matured \cup {new}
      /\ minerImmature' = Minus(minerImmature, log)
      /\ minerBalance' = Plus(minerBalance, rewards)
      /\ creditsImmature' = [creditsImmature EXCEPT ![k] = NoCredits]
      /\ UNCHANGED candidates
  BY <1>1, PayEntry
<1> HIDE DEF b, k, new
<1>3. /\ b \in Blocks /\ StageMap[b] = "immature" /\ Moved({b}, "paid")
      /\ PromiseMap[b] = creditsImmature[CreditKey(item.key)]
  BY <1>1, <1>2, EndStage DEF b
<1>4. log = PromiseMap[b]
  <2>1. CASE item.key.hash = ZeroHash
    <3>1. creditsImmature[CreditKey(item.key)] = NoCredits
      BY <1>2, <2>1, EntryOwner
    <3>2. \A x \in immature : x.hash = x.id => CreditKey(x) # k
      <4>1. \A x \in immature : x.id = b => x = item.key
        BY <1>2 DEF StageInv, BlockInOneStage, Stored, b
      <4>2. item.key.hash # item.key.id
        BY <1>2, <2>1, EntryOwner
      <4>3. QED
        BY <1>1, <4>1, <4>2 DEF CreditKey
    <3>3. log = NoCredits
      BY <1>1, <3>2 DEF KeyInv, LogInv
    <3>4. QED
      BY <1>3, <3>1, <3>3
  <2>2. CASE item.key.hash # ZeroHash
    <3>1. CreditKey(item.key) = k
      BY <1>1, <1>2, <2>2, EntryOwner DEF CreditKey, b
    <3>2. QED
      BY <1>3, <3>1
  <2>3. QED
    BY <2>1, <2>2
<1>5. PromiseMap' = [PromiseMap EXCEPT ![b] = NoCredits]
  <2>1. k[2] = item.key.id
    BY <1>1 DEF b
  <2>2. QED
    BY <1>1, <1>2, <2>1, EndPromise DEF b
<1>6. Abstract!TakeBack(b)
  BY <1>2, <1>3, <1>4, <1>5, MoneyTypes, LedgerTakeBack
<1>7. PromiseMap[b] # NoCredits => rewards = PromiseMap[b]
  <2>1. rewards = RewardsOf(item.key)
    BY DEF RewardInv, HeldRewards
  <2>2. QED
    BY <1>2, <1>3, <2>1 DEF RewardInv, Promises
<1>8. QED
  BY <1>2, <1>3, <1>6, <1>7, MoneyTypes, LedgerPay

(* WriteOrphan *)
LEMMA CancelStep ==
    ASSUME TypeOK, TypeOK', StageInv, StageInv', ItemInv, KeyInv, stage = "credit",
           NEW item \in orphanedBlocks,
           WriteOrphan(item, creditsImmature[CreditKey(item.data)])
    PROVE  Abstract!LedgerNext
<1> DEFINE b == item.key.id
           k == CreditKey(item.key)
           new == Key(item.data)
<1>1. CreditKey(item.data) = k /\ new.id = b /\ new.orphan
  BY OrphanedItem
<1>2. /\ item.key \in immature /\ k \in CreditKeys /\ immature' = immature \ {item.key}
      /\ matured' = matured \cup {new}
      /\ minerImmature' = Minus(minerImmature, creditsImmature[k])
      /\ creditsImmature' = [creditsImmature EXCEPT ![k] = NoCredits]
      /\ UNCHANGED <<candidates, minerBalance>>
  BY <1>1, CancelEntry
<1> HIDE DEF b, k, new
<1>3. /\ b \in Blocks /\ StageMap[b] = "immature" /\ Moved({b}, "orphaned")
      /\ PromiseMap[b] = creditsImmature[k]
  BY <1>1, <1>2, EndStage DEF b, k
<1>4. PromiseMap' = [PromiseMap EXCEPT ![b] = NoCredits]
  BY <1>2, EndPromise DEF b, k
<1>5. Abstract!TakeBack(b)
  BY <1>2, <1>3, <1>4, MoneyTypes, LedgerTakeBack
<1>6. QED
  BY <1>2, <1>3, <1>5, LedgerCancel

-----------------------------------------------------------------------------
LEMMA LedgerStep ==
    ASSUME HeadersTell, ReadsSucceed, TypeOK, TypeOK', StageInv, StageInv', ItemInv, KeyInv,
           KeyInv', RewardInv, [Next]_vars
    PROVE  [Abstract!LedgerNext]_(Abstract!ledgerVars)
<1>1. CASE UNCHANGED <<blockVars, creditsImmature, minerImmature, minerBalance>>
  BY <1>1, SameMaps, LedgerStutter DEF blockVars
<1>2. CASE SessionStep
  <2>1. UNCHANGED moneyVars
    BY <1>2, SessionStores
  <2>2. ASSUME NEW s \in Sessions, writers[s].pc = "candidate",
               AddCandidate(writers[s].pow, writers[s].height, writers[s].total)
        PROVE  Abstract!LedgerNext
    BY <2>2, RecordStep
  <2>3. QED
    BY <1>1, <1>2, <2>1, <2>2, SessionCommands DEF moneyVars, WriteShareTx, WriteBlockTx
<1>3. CASE UnlockerStep
  <2>1. ASSUME NEW item \in maturedBlocks, upc = "write", item = First(maturedBlocks),
               stage = "credit", NEW log, Settled(item, log),
               WriteMaturedBlock(item, rewards, log)
        PROVE  Abstract!LedgerNext
    BY <2>1, PayStep DEF Settled
  <2>2. ASSUME NEW item \in orphanedBlocks, stage = "credit", NEW log, Settled(item, log),
               WriteOrphan(item, log)
        PROVE  Abstract!LedgerNext
    BY <2>2, CancelStep DEF Settled
  <2>3. CASE UNCHANGED storageVars
    BY <1>1, <2>3 DEF storageVars, moneyVars
  <2>4. QED
    BY <1>3, <2>1, <2>2, <2>3, PromiseStep, DoubtStep, UnlockerStores
<1>4. CASE ChainStep \/ Crash \/ Restart \/ UNCHANGED vars
  BY <1>1, <1>4 DEF ChainStep, Crash, Restart, vars, storageVars, moneyVars
<1>5. QED
  BY <1>2, <1>3, <1>4 DEF Next

LEMMA LedgerInitial == Init => Abstract!LedgerInit
<1> SUFFICES ASSUME Init PROVE Abstract!LedgerInit
  OBVIOUS
<1>1. /\ candidates = {} /\ immature = {} /\ matured = {}
      /\ minerImmature = NoCredits /\ minerBalance = NoCredits
  BY DEF Init, StorageInit
<1>2. \A b \in Blocks : StageOf(b) = "unknown" /\ PromiseOf(b) = NoCredits
  BY <1>1 DEF StageOf, PromiseOf, InSet
<1>3. Abstract!Nothing = NoCredits
  BY DEF Abstract!Nothing, NoCredits
<1>4. QED
  BY <1>1, <1>2, <1>3 DEF Abstract!LedgerInit

(* Pool implements Ledger: whatever sessions, the unlocker, the chain,     *)
(* crashes and failures do, a block goes once through the stages, what was *)
(* promised for it is taken back, and paid, exactly, and nothing else      *)
(* changes a balance.  The hypotheses are needed: a header that does not   *)
(* tell a pool block from another can send two blocks to one credit key,   *)
(* and after a failed HGETALL a promise is never taken back.               *)
THEOREM PoolImplementsLedger ==
    ASSUME HeadersTell, ReadsSucceed
    PROVE  Spec => ImplementsLedger
<1>1. TypeOK /\ TypeOK' /\ StageInv /\ StageInv' /\ ItemInv /\ KeyInv /\ KeyInv' /\ RewardInv
      /\ [Next]_vars
      => [Abstract!LedgerNext]_(Abstract!ledgerVars)
  BY LedgerStep
<1>2. QED
  BY <1>1, LedgerInitial, TypeInvariant, StageInvariant, ItemInvariant, KeyInvariant,
     RewardInvariant, PTL DEF Spec, ImplementsLedger, Abstract!LedgerSpec

-----------------------------------------------------------------------------
(* What the ledger's steps say of the pool's: a settled block stays what   *)
(* it is, and balances move with one immature block that becomes paid,     *)
(* upwards, and by its promise if it has one.                              *)
SettlesOnce ==
    /\ \A b \in Blocks : StageOf(b) \in {"paid", "orphaned"} => StageOf(b)' = StageOf(b)
    /\ minerBalance' # minerBalance =>
          \E b \in Blocks :
             /\ StageOf(b) = "immature" /\ StageOf(b)' = "paid"
             /\ \A c \in Blocks \ {b} : StageOf(c)' = StageOf(c)
             /\ \A a \in Accounts : minerBalance[a] =< minerBalance'[a]
             /\ PromiseOf(b) # NoCredits => minerBalance' = Plus(minerBalance, PromiseOf(b))

LEMMA StageChanges ==
    ASSUME NEW bs \in SUBSET Blocks, NEW from, NEW to, Abstract!Advance(bs, from, to),
           from \notin {"paid", "orphaned"}
    PROVE  /\ \A b \in bs : StageOf(b) = from /\ StageOf(b)' = to
           /\ \A b \in Blocks \ bs : StageOf(b)' = StageOf(b)
           /\ \A b \in Blocks : StageOf(b) \in {"paid", "orphaned"} => StageOf(b)' = StageOf(b)
<1>1. /\ \A b \in bs : StageMap[b] = from
      /\ StageMap' = [b \in Blocks |-> IF b \in bs THEN to ELSE StageMap[b]]
  BY DEF Abstract!Advance, StageMap
<1>2. \A b \in Blocks : StageMap[b] = StageOf(b)
  BY DEF StageMap
<1>3. \A b \in Blocks : StageMap'[b] = StageOf(b)'
  BY DEF StageMap
<1>4. \A b \in Blocks : StageOf(b)' = IF b \in bs THEN to ELSE StageOf(b)
  BY <1>1, <1>2, <1>3
<1>5. QED
  BY <1>1, <1>2, <1>4

LEMMA PaymentSettles ==
    ASSUME TypeOK, TypeOK', NEW b \in Blocks, Abstract!Pay(b)
    PROVE  SettlesOnce
<1>1. Abstract!Advance({b}, "immature", "paid")
  BY DEF Abstract!Pay
<1>2. /\ StageOf(b) = "immature" /\ StageOf(b)' = "paid"
      /\ \A c \in Blocks \ {b} : StageOf(c)' = StageOf(c)
      /\ \A c \in Blocks : StageOf(c) \in {"paid", "orphaned"} => StageOf(c)' = StageOf(c)
  BY <1>1, StageChanges
<1>3. minerBalance \in [Accounts -> Int]
  BY DEF TypeOK, StorageTypeOK, MoneyTypeOK
<1>4. PICK amount \in [Accounts -> Nat] :
         /\ minerBalance' = Plus(minerBalance, amount)
         /\ PromiseOf(b) # NoCredits => amount = PromiseOf(b)
  <2>1. Abstract!Nothing = NoCredits /\ PromiseMap[b] = PromiseOf(b)
    BY DEF Abstract!Nothing, NoCredits, PromiseMap
  <2>2. PICK amount \in [Accounts -> Nat] :
           /\ minerBalance' = Abstract!Add(minerBalance, amount)
           /\ PromiseMap[b] # Abstract!Nothing => amount = PromiseMap[b]
    BY DEF Abstract!Pay, Abstract!Credit, PromiseMap
  <2>3. Abstract!Add(minerBalance, amount) = Plus(minerBalance, amount)
    BY <1>3 DEF Abstract!Add, Plus
  <2>4. QED
    BY <2>1, <2>2, <2>3
<1>5. \A a \in Accounts : minerBalance[a] =< minerBalance'[a]
  BY <1>3, <1>4 DEF Plus
<1>6. QED
  BY <1>2, <1>4, <1>5 DEF SettlesOnce

LEMMA LedgerSettlesOnce ==
    ASSUME TypeOK, TypeOK', [Abstract!LedgerNext]_(Abstract!ledgerVars)
    PROVE  SettlesOnce
<1>1. CASE UNCHANGED Abstract!ledgerVars
  <2>1. UNCHANGED minerBalance /\ StageMap' = StageMap
    BY <1>1 DEF Abstract!ledgerVars, StageMap
  <2>2. \A b \in Blocks : StageMap[b] = StageOf(b) /\ StageMap'[b] = StageOf(b)'
    BY DEF StageMap
  <2>3. QED
    BY <2>1, <2>2 DEF SettlesOnce
<1>2. ASSUME NEW b \in Blocks, Abstract!Record(b) \/ Abstract!Promise(b) \/ Abstract!Cancel(b)
      PROVE  SettlesOnce
  <2>1. UNCHANGED minerBalance
    BY <1>2 DEF Abstract!Record, Abstract!Promise, Abstract!Cancel
  <2>2. \/ Abstract!Advance({b}, "unknown", "candidate")
        \/ Abstract!Advance({b}, "candidate", "immature")
        \/ Abstract!Advance({b}, "immature", "orphaned")
    BY <1>2 DEF Abstract!Record, Abstract!Promise, Abstract!Cancel
  <2>3. \A c \in Blocks : StageOf(c) \in {"paid", "orphaned"} => StageOf(c)' = StageOf(c)
    BY <2>2, StageChanges
  <2>4. QED
    BY <2>1, <2>3 DEF SettlesOnce
<1>3. ASSUME NEW b \in Blocks, Abstract!Pay(b) PROVE SettlesOnce
  BY <1>3, PaymentSettles
<1>4. ASSUME NEW bs \in SUBSET Blocks, Abstract!Doubt(bs) PROVE SettlesOnce
  <2>1. UNCHANGED minerBalance /\ Abstract!Advance(bs, "candidate", "immature")
    BY <1>4 DEF Abstract!Doubt
  <2>2. \A c \in Blocks : StageOf(c) \in {"paid", "orphaned"} => StageOf(c)' = StageOf(c)
    BY <2>1, StageChanges
  <2>3. QED
    BY <2>1, <2>2 DEF SettlesOnce
<1>5. QED
  BY <1>1, <1>2, <1>3, <1>4 DEF Abstract!LedgerNext

(* Whatever fails, repeats, crashes or is reorganised, no step of the pool *)
(* takes a block out of the matured set or turns a paid block into an      *)
(* orphan or back, and no balance ever falls: it rises only with the       *)
(* WriteMaturedBlock of one block, by what WriteImmatureBlock promised for *)
(* it, if it did.                                                          *)
THEOREM BlocksSettleOnce ==
    ASSUME HeadersTell, ReadsSucceed
    PROVE  Spec => [][SettlesOnce]_vars
<1>1. TypeOK /\ TypeOK' /\ StageInv /\ StageInv' /\ ItemInv /\ KeyInv /\ KeyInv' /\ RewardInv
      /\ [Next]_vars
      => SettlesOnce
  BY LedgerStep, LedgerSettlesOnce
<1>2. QED
  BY <1>1, TypeInvariant, StageInvariant, ItemInvariant, KeyInvariant, RewardInvariant,
     PTL DEF Spec
=============================================================================
