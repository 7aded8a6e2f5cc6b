-------------------------- MODULE InstructionProofs --------------------------
(***************************************************************************)
(* The memory of an execution, and the stores of a transaction to a slot,  *)
(* for every sequence of instructions, every gas limit and every value of  *)
(* the constants that satisfies MemoryAssumption and StorageAssumption.    *)
(***************************************************************************)
EXTENDS Memory, StorageInstructions,
        SequenceTheorems, FiniteSetTheorems, WellFoundedInduction, TLAPS

-----------------------------------------------------------------------------
(* The memory of an execution. *)

(* The words of the memory are few enough for 32-bit arithmetic.               *)
SizeBound == m_size <= NumWords(2 * MaxBufferSize) * WordSize

(* What a check of the memory changes: everything but its bytes.               *)
Accounts ==
    /\ m_size \in Nat /\ m_capacity \in Nat
    /\ gas_limit \in Nat /\ gas_left \in Int
    /\ status \in {"SUCCESS", "OUT_OF_GAS"}
    /\ status = "SUCCESS" => gas_left >= 0
    /\ m_size % WordSize = 0 /\ m_size <= m_capacity
    /\ CostIsExact /\ SizeBound

IndInv ==
    /\ Accounts
    /\ dirty \subseteq Nat /\ written \subseteq Nat
    /\ InBounds /\ FreshIsZero

-----------------------------------------------------------------------------
LEMMA SmallMod ==
    ASSUME NEW s \in Nat, NEW d \in Nat, s < d
    PROVE  s % d = s
BY SMT

(* The comment in grow_memory(): the cost of one more word needs only the      *)
(* remainder of the square, so a square that has wrapped around is as good.    *)
LEMMA OneWordIsExact ==
    ASSUME NEW n \in Nat, 2 * n + 2048 < Wrap
    PROVE  OneWordCost(n) = WordsCost(n + 1) - WordsCost(n)
<1>1. PICK s : s = n * n
  OBVIOUS
<1>2. s \in Nat /\ (n + 1) * (n + 1) = s + 2 * n + 1
  BY <1>1
<1>3. Wrap \in Nat /\ Wrap > 0 /\ Wrap % 512 = 0
  BY MemoryAssumption
<1>4. PICK k \in Nat : Wrap = 512 * k
  BY <1>3
<1>5. PICK q \in Nat, r \in Nat : s = Wrap * q + r /\ r = s % Wrap
  <2>1. s \in Nat /\ Wrap \in Nat /\ Wrap > 0
    BY <1>2, <1>3
  <2>2. s \div Wrap \in Nat /\ s % Wrap \in Nat
    BY <2>1, SMT
  <2>3. s = Wrap * (s \div Wrap) + (s % Wrap)
    BY <2>1, SMT
  <2> QED
    BY <2>2, <2>3
<1>6. PICK m \in Nat : m = k * q /\ s = 512 * m + r
  <2>1. Wrap * q = 512 * (k * q)
    BY <1>4
  <2> QED
    BY <1>5, <2>1
<1>7. (s % Wrap) % 512 = s % 512
  BY <1>5, <1>6
<1>8. PICK e \in Nat : e = s % 512 /\ e < 512
  BY <1>2
<1>9. (e + 2 * n + 1 + 3 * 512) % Wrap = e + 2 * n + 1 + 3 * 512
  <2>1. e + 2 * n + 1 + 3 * 512 \in Nat /\ e + 2 * n + 1 + 3 * 512 < Wrap /\ Wrap \in Nat
    BY <1>8, <1>3
  <2> QED
    BY <2>1, SmallMod
<1>10. OneWordCost(n) = (e + 2 * n + 1 + 3 * 512) \div 512
  BY <1>1, <1>7, <1>8, <1>9 DEF OneWordCost
<1>11. (e + 2 * n + 1 + 3 * 512) \div 512 = 3 + ((s + 2 * n + 1) \div 512) - (s \div 512)
  BY <1>2, <1>8
<1>12. WordsCost(n + 1) - WordsCost(n) = 3 + ((s + 2 * n + 1) \div 512) - (s \div 512)
  BY <1>1, <1>2 DEF WordsCost
<1> QED
  BY <1>10, <1>11, <1>12

LEMMA NumWordsIsCeiling ==
    ASSUME NEW size \in Nat
    PROVE  /\ NumWords(size) \in Nat
           /\ size <= NumWords(size) * WordSize
           /\ \A bound \in Nat : size <= bound => NumWords(size) <= NumWords(bound)
BY DEF NumWords, WordSize

LEMMA WholeWords ==
    ASSUME NEW s \in Nat, s % WordSize = 0, NEW w \in Nat, w * WordSize < s
    PROVE  (w + 1) * WordSize <= s
BY DEF WordSize

LEMMA CostIsNat ==
    ASSUME NEW n \in Nat
    PROVE  WordsCost(n) \in Nat
<1>1. n * n \in Nat
  OBVIOUS
<1> QED
  BY <1>1 DEF WordsCost

(* A growth of the memory to some number of words stays within the allocation. *)
LEMMA ChargeKeeps ==
    ASSUME IndInv, status = "SUCCESS", NEW words \in Nat, NEW cost,
           words > m_size \div WordSize, words <= NumWords(2 * MaxBufferSize),
           cost = WordsCost(words) - WordsCost(m_size \div WordSize),
           Charge(cost, words * WordSize), UNCHANGED gas_limit
    PROVE  /\ Accounts' /\ m_size <= m_size'
           /\ status' = "SUCCESS" => m_size' = words * WordSize
<1>1. PICK n \in Nat : n = m_size \div WordSize /\ m_size = n * WordSize
  BY DEF IndInv, Accounts, WordSize
<1>2. WordsCost(n) \in Nat /\ WordsCost(words) \in Nat
  BY CostIsNat
<1>3. gas_left' = gas_left - cost /\ gas_left' \in Int
  BY <1>1, <1>2 DEF Charge, IndInv, Accounts
<1>4. CASE gas_left' >= 0
  <2>1. Grow(words * WordSize) /\ status' = "SUCCESS"
    BY <1>4 DEF Charge
  <2>2. words * WordSize \in Nat /\ (words * WordSize) % WordSize = 0 /\ words * WordSize > m_size
    BY <1>1 DEF WordSize
  <2>3. m_size' = words * WordSize /\ m_size' \div WordSize = words
    BY <2>1 DEF Grow, WordSize
  <2>4. m_capacity' \in Nat /\ m_size' <= m_capacity'
    BY <2>1, <2>2 DEF Grow, GrowCapacity, IndInv, Accounts, PageSize
  <2>5. CostIsExact'
    <3>1. gas_limit \in Nat /\ gas_left \in Int /\ gas_limit - gas_left = WordsCost(n)
      BY <1>1 DEF IndInv, Accounts, CostIsExact
    <3>2. gas_limit - (gas_left - (WordsCost(words) - WordsCost(n))) = WordsCost(words)
      BY <3>1, <1>2
    <3>3. gas_limit' - gas_left' = WordsCost(words)
      BY <3>2, <1>1, <1>3
    <3> QED
      BY <2>1, <2>3, <3>3 DEF CostIsExact
  <2>6. SizeBound'
    BY <2>3, MemoryAssumption DEF SizeBound, NumWords, WordSize
  <2>7. gas_limit' \in Nat
    BY DEF IndInv, Accounts
  <2>8. m_size' \in Nat /\ m_size' % WordSize = 0
    BY <2>2, <2>3
  <2>9. Accounts'
    BY <1>3, <1>4, <2>1, <2>4, <2>5, <2>6, <2>7, <2>8 DEF Accounts
  <2>10. m_size <= m_size'
    BY <1>1, <2>2, <2>3 DEF WordSize
  <2> QED
    BY <2>3, <2>9, <2>10
<1>5. CASE ~ (gas_left' >= 0)
  <2>1. status' = "OUT_OF_GAS" /\ UNCHANGED <<m_size, m_capacity>>
    BY <1>5 DEF Charge
  <2> QED
    BY <1>3, <2>1 DEF IndInv, Accounts, CostIsExact, SizeBound
<1> QED
  BY <1>4, <1>5

LEMMA GrowMemoryKeeps ==
    ASSUME IndInv, status = "SUCCESS", NEW new_size \in Nat,
           new_size > m_size, new_size <= 2 * MaxBufferSize,
           GrowMemory(new_size), UNCHANGED gas_limit
    PROVE  /\ Accounts' /\ m_size <= m_size'
           /\ status' = "SUCCESS" => new_size <= m_size'
<1>1. PICK n \in Nat : n = m_size \div WordSize /\ m_size = n * WordSize
  BY DEF IndInv, Accounts, WordSize
<1>2. 2 * MaxBufferSize \in Nat /\ NumWords(2 * MaxBufferSize) \in Nat
  BY MemoryAssumption, NumWordsIsCeiling
<1>3. NumWords(new_size) \in Nat /\ n < NumWords(new_size)
      /\ NumWords(new_size) <= NumWords(2 * MaxBufferSize)
  BY <1>1, <1>2 DEF NumWords, WordSize
<1>4. CASE FitsOneWord(new_size)
  <2>1. Charge(OneWordCost(n), m_size + WordSize)
    BY <1>1, <1>4 DEF GrowMemory
  <2>2. m_size + WordSize = (n + 1) * WordSize
    BY <1>1 DEF WordSize
  <2>3. 2 * n + 2048 < Wrap
    BY <1>2, <1>3, MemoryAssumption
  <2>4. OneWordCost(n) = WordsCost(n + 1) - WordsCost(n)
    BY <2>3, OneWordIsExact
  <2>5. n + 1 \in Nat /\ n + 1 > n /\ n + 1 <= NumWords(2 * MaxBufferSize)
    BY <1>2, <1>3
  <2>6. Charge(OneWordCost(n), (n + 1) * WordSize)
    BY <2>1, <2>2
  <2>7. /\ Accounts' /\ m_size <= m_size'
        /\ status' = "SUCCESS" => m_size' = (n + 1) * WordSize
    BY <1>1, <2>4, <2>5, <2>6, ChargeKeeps
  <2>8. new_size <= m_size + WordSize
    BY <1>4 DEF FitsOneWord
  <2> QED
    BY <2>2, <2>7, <2>8
<1>5. CASE ~ FitsOneWord(new_size)
  <2>1. Charge(WordsCost(NumWords(new_size)) - WordsCost(n), NumWords(new_size) * WordSize)
    BY <1>1, <1>5 DEF GrowMemory, GrowMemoryGeneral
  <2>2. /\ Accounts' /\ m_size <= m_size'
        /\ status' = "SUCCESS" => m_size' = NumWords(new_size) * WordSize
    BY <1>1, <1>3, <2>1, ChargeKeeps
  <2> QED
    BY <2>2, NumWordsIsCeiling
<1> QED
  BY <1>4, <1>5

(* A check that passes leaves the whole range inside the memory.               *)
LEMMA CheckKeeps ==
    ASSUME IndInv, status = "SUCCESS", NEW offset \in Nat, NEW size \in Nat,
           CheckMemory(offset, size), UNCHANGED gas_limit
    PROVE  /\ Accounts' /\ m_size <= m_size'
           /\ status' = "SUCCESS" /\ size # 0 => offset + size <= m_size'
<1>1. MaxBufferSize \in Nat
  BY MemoryAssumption
<1>2. CASE /\ size = 0 \/ offset + size <= m_size
           /\ UNCHANGED <<m_size, m_capacity, gas_left, status>>
  BY <1>2 DEF IndInv, Accounts, CostIsExact, SizeBound
<1>3. CASE status' = "OUT_OF_GAS" /\ UNCHANGED <<m_size, m_capacity, gas_left>>
  BY <1>3 DEF IndInv, Accounts, CostIsExact, SizeBound
<1>4. CASE /\ size <= MaxBufferSize /\ offset <= MaxBufferSize
           /\ offset + size > m_size /\ GrowMemory(offset + size)
  <2>1. offset + size \in Nat /\ offset + size <= 2 * MaxBufferSize
    BY <1>1, <1>4
  <2> QED
    BY <1>4, <2>1, GrowMemoryKeeps
<1> QED
  BY <1>2, <1>3, <1>4 DEF CheckMemory

(* Filling the new extent with zeros, and storing within the memory, keeps     *)
(* what has not been written zero.                                             *)
LEMMA FillKeeps ==
    ASSUME IndInv, Accounts', m_size <= m_size', NEW stored \in SUBSET Nat,
           \A w \in stored : (w + 1) * WordSize <= m_size', Fill(stored)
    PROVE  IndInv'
<1>1. /\ m_size \in Nat /\ m_capacity \in Nat /\ m_size <= m_capacity
      /\ m_size' \in Nat /\ m_capacity' \in Nat
  BY DEF IndInv, Accounts
<1>2. dirty' \subseteq Nat /\ written' \subseteq Nat
  <2>1. WordsOf(m_capacity, m_capacity') \subseteq Nat
    BY DEF WordsOf
  <2> QED
    BY <2>1 DEF Fill, IndInv
<1>3. \A w \in written' : (w + 1) * WordSize <= m_size'
  <2> SUFFICES ASSUME NEW w \in written' PROVE (w + 1) * WordSize <= m_size'
    OBVIOUS
  <2>1. w \in Nat
    BY <1>2
  <2>2. CASE w \in written
    BY <1>1, <2>1, <2>2 DEF IndInv, InBounds, WordSize
  <2> QED
    BY <2>2 DEF Fill
<1>4. FreshIsZero'
  <2> SUFFICES ASSUME NEW w \in dirty', w * WordSize < m_size', w \notin stored
               PROVE  w \in written
    BY DEF FreshIsZero, Fill
  <2>1. /\ w \in Nat /\ w \in dirty \union WordsOf(m_capacity, m_capacity')
        /\ w \notin WordsOf(m_size, m_size')
    BY <1>2 DEF Fill
  <2>2. w \in 0..(m_size' \div WordSize)
    <3>1. PICK s \in Nat : s = m_size'
      BY <1>1
    <3>2. w * WordSize < s => w \in 0..(s \div WordSize)
      BY <2>1 DEF WordSize
    <3> QED
      BY <3>1, <3>2
  <2>3. (w + 1) * WordSize <= m_size
    <3>1. ~ (m_size < (w + 1) * WordSize)
      BY <2>1, <2>2 DEF WordsOf
    <3> QED
      BY <1>1, <2>1, <3>1 DEF WordSize
  <2>4. w \notin WordsOf(m_capacity, m_capacity')
    <3>1. w \in WordsOf(m_capacity, m_capacity') => m_capacity < (w + 1) * WordSize
      BY DEF WordsOf
    <3> QED
      BY <1>1, <2>1, <2>3, <3>1 DEF WordSize
  <2>5. w \in dirty
    BY <2>1, <2>4
  <2>6. w * WordSize < m_size
    BY <1>1, <2>1, <2>3 DEF WordSize
  <2> QED
    BY <2>5, <2>6 DEF FreshIsZero, IndInv
<1>5. InBounds' /\ TypeOK'
  BY <1>2, <1>3 DEF InBounds, Accounts, TypeOK
<1> QED
  BY <1>2, <1>4, <1>5 DEF IndInv, TypeOK

-----------------------------------------------------------------------------
(* All the accounts of the memory hold together, whatever is accessed and      *)
(* however often the execution state is used again.                            *)
THEOREM MemoryInvariance == MemorySpec => []IndInv
<1>1. MemoryInit => IndInv
  <2> SUFFICES ASSUME MemoryInit PROVE IndInv
    OBVIOUS
  <2>1. TypeOK
    BY MemoryAssumption DEF MemoryInit, TypeOK, WordsOf, PageSize
  <2>2. CostIsExact
    <3>1. WordsCost(0) = 0 /\ 0 \div WordSize = 0
      BY DEF WordsCost, WordSize
    <3> QED
      BY <2>1, <3>1 DEF MemoryInit, CostIsExact, TypeOK
  <2>3. InBounds /\ FreshIsZero
    BY <2>1 DEF MemoryInit, InBounds, FreshIsZero, TypeOK, WordSize, PageSize
  <2>4. SizeBound
    BY MemoryAssumption DEF MemoryInit, SizeBound, NumWords, WordSize
  <2> QED
    BY <2>1, <2>2, <2>3, <2>4 DEF IndInv, Accounts, TypeOK, InBounds
<1>2. IndInv /\ [MemoryNext]_memoryVars => IndInv'
  <2> SUFFICES ASSUME IndInv, [MemoryNext]_memoryVars PROVE IndInv'
    OBVIOUS
  <2>1. ASSUME NEW offset \in Offsets, NEW size \in Sizes, Load(offset, size) PROVE IndInv'
    <3>1. offset \in Nat /\ size \in Nat
      BY MemoryAssumption
    <3>2. Accounts' /\ m_size <= m_size'
      BY <2>1, <3>1, CheckKeeps DEF Load
    <3>3. {} \in SUBSET Nat /\ Fill({})
      BY <2>1 DEF Load
    <3> QED
      BY <3>2, <3>3, FillKeeps
  <2>2. ASSUME NEW offset \in Offsets, NEW size \in {1, WordSize}, Store(offset, size)
        PROVE  IndInv'
    <3>1. offset \in Nat /\ size \in Nat /\ size # 0
      BY MemoryAssumption DEF WordSize
    <3>2. /\ Accounts' /\ m_size <= m_size'
          /\ status' = "SUCCESS" => offset + size <= m_size'
      BY <2>2, <3>1, CheckKeeps DEF Store
    <3>3. PICK stored : /\ stored = IF status' = "SUCCESS" THEN WordsOf(offset, offset + size) ELSE {}
                        /\ Fill(stored)
      BY <2>2 DEF Store
    <3>4. stored \in SUBSET Nat
      BY <3>3 DEF WordsOf
    <3>5. \A w \in stored : (w + 1) * WordSize <= m_size'
      <4> SUFFICES ASSUME NEW w \in stored PROVE (w + 1) * WordSize <= m_size'
        OBVIOUS
      <4>1. w \in Nat /\ w * WordSize < offset + size /\ offset + size <= m_size'
        BY <3>2, <3>3, <3>4 DEF WordsOf
      <4>2. PICK s \in Nat : s = m_size' /\ s % WordSize = 0
        BY <3>2 DEF Accounts
      <4>3. w * WordSize < s
        BY <3>1, <4>1, <4>2 DEF WordSize
      <4>4. (w + 1) * WordSize <= s
        BY <4>1, <4>2, <4>3, WholeWords
      <4> QED
        BY <4>2, <4>4
    <3> QED
      BY <3>2, <3>3, <3>4, <3>5, FillKeeps
  <2>3. ASSUME Clear PROVE IndInv'
    <3>1. TypeOK'
      BY <2>3, MemoryAssumption DEF Clear, IndInv, TypeOK, Accounts
    <3>2. CostIsExact'
      <4>1. WordsCost(0) = 0 /\ 0 \div WordSize = 0
        BY DEF WordsCost, WordSize
      <4> QED
        BY <2>3, <3>1, <4>1 DEF Clear, CostIsExact, TypeOK
    <3>3. InBounds' /\ FreshIsZero'
      BY <2>3, <3>1 DEF Clear, InBounds, FreshIsZero, TypeOK, WordSize
    <3>4. SizeBound'
      BY <2>3, MemoryAssumption DEF Clear, SizeBound, NumWords, WordSize
    <3> QED
      BY <3>1, <3>2, <3>3, <3>4 DEF IndInv, Accounts, TypeOK, InBounds
  <2>4. CASE UNCHANGED memoryVars
    BY <2>4 DEF memoryVars, IndInv, Accounts, CostIsExact, InBounds, FreshIsZero, SizeBound
  <2> QED
    BY <2>1, <2>2, <2>3, <2>4 DEF MemoryNext
<1> QED
  BY <1>1, <1>2, PTL DEF MemorySpec

(* An execution that runs on after a growth has paid for it.                   *)
THEOREM MemoryTypeCorrect == MemorySpec => []TypeOK
<1>1. IndInv => TypeOK
  BY DEF IndInv, Accounts, TypeOK
<1> QED
  BY <1>1, MemoryInvariance, PTL

(* The shortcut for one more word and the general formula of grow_memory()     *)
(* together charge exactly the quadratic cost of the memory, though n * n      *)
(* wraps around in 32 bits.                                                    *)
THEOREM CostExact == MemorySpec => []CostIsExact
BY MemoryInvariance, PTL DEF IndInv, Accounts

(* No access leaves the allocated memory: Memory::grow() is called only with a *)
(* larger size in whole words, and allocates at least that much.               *)
THEOREM AccessesInBounds == MemorySpec => []InBounds
BY MemoryInvariance, PTL DEF IndInv

(* A reused or reallocated buffer never shows an execution anything but zeros  *)
(* where it has not written.                                                   *)
THEOREM FreshMemoryIsZero == MemorySpec => []FreshIsZero
BY MemoryInvariance, PTL DEF IndInv

-----------------------------------------------------------------------------
(* The costs. *)

LEMMA Fits16 ==
    ASSUME NEW x \in Int, 0 - 32768 <= x, x < 32768
    PROVE  Int16(x) = x
<1>1. 2 ^ 15 = 32768 /\ 2 ^ 16 = 65536
  OBVIOUS
<1> DEFINE y == x + 32768
<1>2. y \in Int /\ 0 <= y /\ y < 65536
  OBVIOUS
<1> HIDE DEF y
<1>3. y % 65536 = y
  BY <1>2
<1> QED
  BY <1>1, <1>3 DEF Int16, y

(* The prices of STORAGE_COST_SPEC. *)
LEMMA Schedules ==
    ASSUME NEW r \in Revisions
    PROVE  /\ r < ISTANBUL => StorageCostSpec(r) = CostSpec(FALSE, 200, 20000, 5000, 15000, 0)
           /\ r = ISTANBUL => StorageCostSpec(r) = CostSpec(TRUE, 800, 20000, 5000, 15000, 0)
           /\ r = BERLIN => StorageCostSpec(r) = CostSpec(TRUE, 100, 20000, 2900, 15000, 2100)
           /\ r \in LONDON..OSAKA =>
                StorageCostSpec(r) = CostSpec(TRUE, 100, 20000, 2900, 4800, 2100)
           /\ r >= AMSTERDAM =>
                StorageCostSpec(r) = CostSpec(TRUE, 100, 10100, 10100, 11616, 2000)
<1>2. ASSUME r < ISTANBUL PROVE StorageCostSpec(r) = CostSpec(FALSE, 200, 20000, 5000, 15000, 0)
  <2>1. r # ISTANBUL /\ r # BERLIN /\ r \notin LONDON..OSAKA /\ ~(r >= AMSTERDAM)
    BY <1>2 DEF Revisions, FRONTIER, ISTANBUL, BERLIN, LONDON, OSAKA, AMSTERDAM
  <2> QED
    BY <1>2, <2>1 DEF StorageCostSpec
<1>3. ASSUME r = ISTANBUL PROVE StorageCostSpec(r) = CostSpec(TRUE, 800, 20000, 5000, 15000, 0)
  <2>1. ~(r < ISTANBUL) /\ r # BERLIN /\ r \notin LONDON..OSAKA /\ ~(r >= AMSTERDAM)
    BY <1>3 DEF Revisions, FRONTIER, ISTANBUL, BERLIN, LONDON, OSAKA, AMSTERDAM
  <2> QED
    BY <1>3, <2>1 DEF StorageCostSpec
<1>4. ASSUME r = BERLIN PROVE StorageCostSpec(r) = CostSpec(TRUE, 100, 20000, 2900, 15000, 2100)
  <2>1. ~(r < ISTANBUL) /\ r # ISTANBUL /\ r \notin LONDON..OSAKA /\ ~(r >= AMSTERDAM)
    BY <1>4 DEF Revisions, FRONTIER, ISTANBUL, BERLIN, LONDON, OSAKA, AMSTERDAM
  <2> QED
    BY <1>4, <2>1 DEF StorageCostSpec, WARM_ACCESS, COLD_STORAGE_ACCESS
<1>5. ASSUME r \in LONDON..OSAKA PROVE StorageCostSpec(r) = CostSpec(TRUE, 100, 20000, 2900, 4800, 2100)
  <2>1. ~(r < ISTANBUL) /\ r # ISTANBUL /\ r # BERLIN /\ ~(r >= AMSTERDAM)
    BY <1>5 DEF Revisions, FRONTIER, ISTANBUL, BERLIN, LONDON, OSAKA, AMSTERDAM
  <2> QED
    BY <1>5, <2>1 DEF StorageCostSpec, WARM_ACCESS, COLD_STORAGE_ACCESS
<1>6. ASSUME r >= AMSTERDAM PROVE StorageCostSpec(r) = CostSpec(TRUE, 100, 10100, 10100, 11616, 2000)
  <2>1. ~(r < ISTANBUL) /\ r # ISTANBUL /\ r # BERLIN /\ r \notin LONDON..OSAKA
    BY <1>6 DEF Revisions, FRONTIER, ISTANBUL, BERLIN, LONDON, OSAKA, AMSTERDAM
  <2> QED
    BY <1>6, <2>1 DEF StorageCostSpec, WARM_ACCESS, COLD_STORAGE_ACCESS, STORAGE_WRITE, ADDITIONAL_COLD_STORAGE_ACCESS
<1> QED
  BY <1>2, <1>3, <1>4, <1>5, <1>6 DEF CostSpec

\* What the schedules with net metering have in common.
NetSchedule(c) ==
    /\ c.net_cost = TRUE
    /\ c.warm_access \in Nat /\ c.set \in Nat /\ c.reset \in Nat /\ c.clear \in Nat
    /\ c.cold \in Nat
    /\ c.warm_access <= c.set /\ c.warm_access <= c.reset
    /\ c.set <= 20000 /\ c.reset <= 20000 /\ c.clear <= 20000

\* Before Istanbul each change has a price.
LegacySchedule(c) ==
    /\ c.net_cost = FALSE
    /\ c.set = 20000 /\ c.reset = 5000 /\ c.clear = 15000 /\ c.cold = 0

IsSchedule(r, c) == NetSchedule(c) \/ (LegacySchedule(c) /\ r < AMSTERDAM)

(* Each revision has one kind of schedule or the other. *)
LEMMA SchedulesOK ==
    ASSUME NEW r \in Revisions, NEW c, c = StorageCostSpec(r)
    PROVE  IsSchedule(r, c)
<1>1. \/ r < ISTANBUL \/ r = ISTANBUL \/ r = BERLIN \/ r \in LONDON..OSAKA \/ r >= AMSTERDAM
  BY DEF Revisions, FRONTIER, ISTANBUL, BERLIN, LONDON, OSAKA, AMSTERDAM
<1>2. CASE r < ISTANBUL
  <2>1. c = CostSpec(FALSE, 200, 20000, 5000, 15000, 0)
    BY <1>2, Schedules DEF CostSpec
  <2>2. r < AMSTERDAM
    BY <1>2 DEF Revisions, FRONTIER, ISTANBUL, AMSTERDAM
  <2> QED
    BY <2>1, <2>2 DEF CostSpec, LegacySchedule, IsSchedule
<1>3. CASE r = ISTANBUL
  <2>1. c = CostSpec(TRUE, 800, 20000, 5000, 15000, 0)
    BY <1>3, Schedules DEF CostSpec
  <2> QED
    BY <2>1 DEF CostSpec, NetSchedule, LegacySchedule, IsSchedule
<1>4. CASE r = BERLIN
  <2>1. c = CostSpec(TRUE, 100, 20000, 2900, 15000, 2100)
    BY <1>4, Schedules DEF CostSpec
  <2> QED
    BY <2>1 DEF CostSpec, NetSchedule, LegacySchedule, IsSchedule
<1>5. CASE r \in LONDON..OSAKA
  <2>1. c = CostSpec(TRUE, 100, 20000, 2900, 4800, 2100)
    BY <1>5, Schedules DEF CostSpec
  <2> QED
    BY <2>1 DEF CostSpec, NetSchedule, LegacySchedule, IsSchedule
<1>6. CASE r >= AMSTERDAM
  <2>1. c = CostSpec(TRUE, 100, 10100, 10100, 11616, 2000)
    BY <1>6, Schedules DEF CostSpec
  <2> QED
    BY <2>1 DEF CostSpec, NetSchedule, LegacySchedule, IsSchedule
<1> QED
  BY <1>1, <1>2, <1>3, <1>4, <1>5, <1>6

(* No price of a net schedule is cut off by int16_t. *)
LEMMA NetPrices ==
    ASSUME NEW c, NetSchedule(c), NEW st
    PROVE  LET Costs(g, f) == /\ NetCosts(c, st).gas_cost = g
                              /\ NetCosts(c, st).gas_refund = f
           IN  /\ st = "ASSIGNED" => Costs(c.warm_access, 0)
               /\ st = "ADDED" => Costs(c.set, 0)
               /\ st = "DELETED" => Costs(c.reset, c.clear)
               /\ st = "MODIFIED" => Costs(c.reset, 0)
               /\ st = "DELETED_ADDED" => Costs(c.warm_access, -c.clear)
               /\ st = "MODIFIED_DELETED" => Costs(c.warm_access, c.clear)
               /\ st = "DELETED_RESTORED" =>
                     Costs(c.warm_access, c.reset - c.warm_access - c.clear)
               /\ st = "ADDED_DELETED" => Costs(c.warm_access, c.set - c.warm_access)
               /\ st = "MODIFIED_RESTORED" => Costs(c.warm_access, c.reset - c.warm_access)
<1>1. /\ Int16(0) = 0 /\ Int16(c.warm_access) = c.warm_access /\ Int16(c.set) = c.set
      /\ Int16(c.reset) = c.reset /\ Int16(c.clear) = c.clear
  BY Fits16 DEF NetSchedule
<1>2. /\ Int16(-c.clear) = -c.clear
      /\ Int16(c.set - c.warm_access) = c.set - c.warm_access
      /\ Int16(c.reset - c.warm_access) = c.reset - c.warm_access
      /\ Int16(c.reset - c.warm_access - c.clear) = c.reset - c.warm_access - c.clear
  BY Fits16 DEF NetSchedule
<1> QED
  BY <1>1, <1>2 DEF NetCosts, StoreCost

(* Before Istanbul a store has the price of its own change. *)
LEMMA LegacyPrices ==
    ASSUME NEW c, LegacySchedule(c),
           NEW o, NEW n, NEW v
    PROVE  LegacyCosts(c, SetStorageStatus(o, n, v))
             = [gas_cost |-> IF n = 0 /\ v # 0 THEN 20000 ELSE 5000,
                gas_refund |-> IF n # 0 /\ v = 0 THEN 15000 ELSE 0]
<1>1. Int16(20000) = 20000 /\ Int16(5000) = 5000 /\ Int16(15000) = 15000 /\ Int16(0) = 0
  BY Fits16
<1> QED
  BY <1>1 DEF LegacySchedule, LegacyCosts, StoreCost, SetStorageStatus

(* Host and MockedHost give a store the same status. *)
LEMMA HostsAgree ==
    ASSUME NEW o, NEW n, NEW v
    PROVE  SetStorageStatus(o, n, v) = MockedStatus(o, n, v)
  BY DEF SetStorageStatus, MockedStatus

-----------------------------------------------------------------------------
(* What the stores that stay have cost. *)

Slots == [original : Words, current : Words, access : {"cold", "sload", "sstore"}]

\* The refunds, the costs and the number of stores.
Ledger == [refund : Int, spent : Int, stores : Int]

Change(c, s) ==
    IF s.original = s.current THEN 0
    ELSE (IF s.original = 0 THEN c.set ELSE c.reset) - c.warm_access
Cleared(c, s) == IF s.original # 0 /\ s.current = 0 THEN c.clear ELSE 0
ColdPaid(c, s) == IF s.access = "sstore" THEN c.cold ELSE 0

Settled(c, a, s) ==
    /\ a.refund >= 0
    /\ c.net_cost = TRUE =>
         /\ a.refund >= Cleared(c, s)
         /\ a.spent - a.refund = a.stores * c.warm_access + ColdPaid(c, s) + Change(c, s) - Cleared(c, s)

\* A store of v in the slot s.
Price(r, s, v) == SstoreCosts(r, SetStorageStatus(s.original, s.current, v))
PriceOf(r, s, v) ==
    [refund |-> Price(r, s, v).gas_refund,
     spent |-> Price(r, s, v).gas_cost
                 + (IF r >= BERLIN /\ s.access = "cold" THEN StorageCostSpec(r).cold ELSE 0),
     stores |-> 1]
Stored(r, s, v) ==
    [s EXCEPT !.current = v, !.access = IF r >= BERLIN /\ s.access = "cold" THEN "sstore" ELSE @]

Plus(a, b) ==
    [refund |-> a.refund + b.refund, spent |-> a.spent + b.spent, stores |-> a.stores + b.stores]

(* A store of any status pays the difference that it makes to the slot. *)
LEMMA NetStore ==
    ASSUME NEW c, NetSchedule(c), NEW s, NEW t, s.original = t.original,
           NEW p, p = NetCosts(c, SetStorageStatus(s.original, s.current, t.current))
    PROVE  /\ p.gas_cost \in Int /\ p.gas_refund \in Int
           /\ Cleared(c, s) + p.gas_refund >= Cleared(c, t)
           /\ p.gas_cost - p.gas_refund
                = c.warm_access + Change(c, t) - Cleared(c, t) - Change(c, s) + Cleared(c, s)
<1> DEFINE o == s.original
           n == s.current
           v == t.current
           st == SetStorageStatus(o, n, v)
<1>0. /\ c.warm_access \in Nat /\ c.set \in Nat /\ c.reset \in Nat /\ c.clear \in Nat
      /\ c.warm_access <= c.set /\ c.warm_access <= c.reset
  BY DEF NetSchedule
<1> USE DEF Cleared, Change
<1>1. CASE o = n /\ o # v /\ n = 0
  <2>1. st = "ADDED"
    BY <1>1 DEF SetStorageStatus
  <2> QED
    BY <1>0, <1>1, <2>1, NetPrices
<1>2. CASE o = n /\ o # v /\ n # 0 /\ v = 0
  <2>1. st = "DELETED"
    BY <1>2 DEF SetStorageStatus
  <2> QED
    BY <1>0, <1>2, <2>1, NetPrices
<1>3. CASE o = n /\ o # v /\ n # 0 /\ v # 0
  <2>1. st = "MODIFIED"
    BY <1>3 DEF SetStorageStatus
  <2> QED
    BY <1>0, <1>3, <2>1, NetPrices
<1>4. CASE o # n /\ o # v /\ n = 0 /\ v # 0
  <2>1. st = "DELETED_ADDED"
    BY <1>4 DEF SetStorageStatus
  <2> QED
    BY <1>0, <1>4, <2>1, NetPrices
<1>5. CASE o # n /\ o # v /\ n # 0 /\ v = 0
  <2>1. st = "MODIFIED_DELETED"
    BY <1>5 DEF SetStorageStatus
  <2> QED
    BY <1>0, <1>5, <2>1, NetPrices
<1>6. CASE o # n /\ o = v /\ n = 0
  <2>1. st = "DELETED_RESTORED"
    BY <1>6 DEF SetStorageStatus
  <2> QED
    BY <1>0, <1>6, <2>1, NetPrices
<1>7. CASE o # n /\ o = v /\ n # 0 /\ v = 0
  <2>1. st = "ADDED_DELETED"
    BY <1>7 DEF SetStorageStatus
  <2> QED
    BY <1>0, <1>7, <2>1, NetPrices
<1>8. CASE o # n /\ o = v /\ n # 0 /\ v # 0
  <2>1. st = "MODIFIED_RESTORED"
    BY <1>8 DEF SetStorageStatus
  <2> QED
    BY <1>0, <1>8, <2>1, NetPrices
<1>9. CASE \/ o = n /\ o = v
           \/ o # n /\ o # v /\ n = 0 /\ v = 0
           \/ o # n /\ o # v /\ n # 0 /\ v # 0
  <2>1. st = "ASSIGNED"
    BY <1>9 DEF SetStorageStatus
  <2> QED
    BY <1>0, <1>9, <2>1, NetPrices
<1> QED
  BY <1>1, <1>2, <1>3, <1>4, <1>5, <1>6, <1>7, <1>8, <1>9

(* Before Istanbul no store takes a refund back. *)
LEMMA LegacyStore ==
    ASSUME NEW c, LegacySchedule(c),
           NEW o, NEW n, NEW v, NEW p, p = LegacyCosts(c, SetStorageStatus(o, n, v))
    PROVE  p.gas_cost \in Int /\ p.gas_refund \in Int /\ p.gas_refund >= 0
  BY LegacyPrices

StoreSettled(r, s, v) ==
    /\ PriceOf(r, s, v) \in Ledger /\ Stored(r, s, v) \in Slots
    /\ \A a \in Ledger : Settled(StorageCostSpec(r), a, s) =>
         Settled(StorageCostSpec(r), Plus(a, PriceOf(r, s, v)), Stored(r, s, v))

(* A ledger settled for a slot is settled for the slot after a store. *)
LEMMA StoreSettles ==
    ASSUME NEW r \in Revisions, NEW s \in Slots, NEW v \in Words
    PROVE  StoreSettled(r, s, v)
<1> DEFINE c == StorageCostSpec(r)
           p == Price(r, s, v)
           t == Stored(r, s, v)
           paid == IF r >= BERLIN /\ s.access = "cold" THEN c.cold ELSE 0
<1>1. t \in Slots /\ t.original = s.original /\ t.current = v
  BY DEF Stored, Slots
<1>2. CASE NetSchedule(c)
  <2>1. p = NetCosts(c, SetStorageStatus(s.original, s.current, v))
    BY <1>2 DEF NetSchedule, Price, SstoreCosts
  <2>2. /\ p.gas_cost \in Int /\ p.gas_refund \in Int
        /\ Cleared(c, s) + p.gas_refund >= Cleared(c, t)
        /\ p.gas_cost - p.gas_refund
             = c.warm_access + Change(c, t) - Cleared(c, t) - Change(c, s) + Cleared(c, s)
    <3> HIDE DEF c, p, t
    <3> QED
      BY <1>1, <1>2, <2>1, NetStore
  <2>3. c.cold \in Nat /\ c.warm_access \in Nat
    BY <1>2 DEF NetSchedule
  <2>4. ColdPaid(c, t) = ColdPaid(c, s) + paid
    BY <2>3 DEF ColdPaid, Stored, Slots
  <2>5. /\ Cleared(c, s) \in Int /\ Cleared(c, t) \in Int
        /\ Change(c, s) \in Int /\ Change(c, t) \in Int
        /\ ColdPaid(c, s) \in Int /\ paid \in Int
        /\ Cleared(c, t) >= 0
    BY <1>2, <2>3 DEF Cleared, Change, ColdPaid, NetSchedule
  <2>6. /\ PriceOf(r, s, v) = [refund |-> p.gas_refund, spent |-> p.gas_cost + paid, stores |-> 1]
    BY DEF PriceOf
  <2> HIDE DEF c, p, t, paid
  <2>7. ASSUME NEW a \in Ledger, Settled(c, a, s)
        PROVE  Settled(c, Plus(a, PriceOf(r, s, v)), t)
    <3> DEFINE b == Plus(a, PriceOf(r, s, v))
    <3>1. /\ b.refund = a.refund + p.gas_refund
          /\ b.spent = a.spent + p.gas_cost + paid
          /\ b.stores = a.stores + 1
      BY <2>2, <2>5, <2>6 DEF Plus, Ledger
    <3>2. a.refund \in Int /\ a.spent \in Int /\ a.stores \in Int
      BY DEF Ledger
    <3>3. (a.stores + 1) * c.warm_access = a.stores * c.warm_access + c.warm_access
      BY <2>3, <3>2
    <3>4. PICK m \in Int : m = a.stores * c.warm_access
      BY <2>3, <3>2
    <3>5. /\ a.refund >= Cleared(c, s)
          /\ a.spent - a.refund = m + ColdPaid(c, s) + Change(c, s) - Cleared(c, s)
      BY <1>2, <2>7, <3>4 DEF Settled, NetSchedule
    <3>6. b.refund >= 0 /\ b.refund >= Cleared(c, t)
      BY <2>2, <2>5, <3>1, <3>2, <3>5
    <3>7. b.stores * c.warm_access = m + c.warm_access
      BY <3>1, <3>3, <3>4
    <3>8. b.spent - b.refund = (m + c.warm_access) + ColdPaid(c, t) + Change(c, t) - Cleared(c, t)
      <4> HIDE DEF b
      <4>1. /\ b.spent - b.refund
                 = (a.spent - a.refund) + (p.gas_cost - p.gas_refund) + paid
        BY <2>2, <2>5, <3>1, <3>2
      <4>2. \A x, y, m1, w, c1, c2, h1, h2, k1, k2, q \in Int :
               /\ x = m1 + c1 + h1 - k1 /\ y = w + h2 - k2 - h1 + k1 /\ c2 = c1 + q
               => x + y + q = (m1 + w) + c2 + h2 - k2
        OBVIOUS
      <4>3. a.spent - a.refund \in Int /\ p.gas_cost - p.gas_refund \in Int
        BY <2>2, <3>2
      <4> QED
        BY <2>2, <2>3, <2>4, <2>5, <3>4, <3>5, <4>1, <4>2, <4>3
    <3> HIDE DEF b
    <3> QED
      BY <3>6, <3>7, <3>8 DEF Settled, b
  <2>8. PriceOf(r, s, v) \in Ledger
    BY <2>2, <2>5, <2>6 DEF Ledger
  <2> QED
    BY <1>1, <2>7, <2>8 DEF c, t, StoreSettled
<1>3. CASE LegacySchedule(c)
  <2>1. p = LegacyCosts(c, SetStorageStatus(s.original, s.current, v))
    BY <1>3 DEF LegacySchedule, Price, SstoreCosts
  <2>2. p.gas_cost \in Int /\ p.gas_refund \in Int /\ p.gas_refund >= 0
    <3> HIDE DEF c, p
    <3> QED
      BY <1>3, <2>1, LegacyStore
  <2>3. paid \in Int
    BY <1>3 DEF LegacySchedule
  <2>4. /\ PriceOf(r, s, v) = [refund |-> p.gas_refund, spent |-> p.gas_cost + paid, stores |-> 1]
    BY DEF PriceOf
  <2>5. PriceOf(r, s, v) \in Ledger
    BY <2>2, <2>3, <2>4 DEF Ledger
  <2> HIDE DEF c, p, t, paid
  <2>6. ASSUME NEW a \in Ledger, Settled(c, a, s)
        PROVE  Settled(c, Plus(a, PriceOf(r, s, v)), t)
    <3>1. a.refund \in Int /\ a.refund >= 0
      BY <2>6 DEF Ledger, Settled
    <3> QED
      BY <1>3, <2>2, <2>4, <3>1 DEF LegacySchedule, Settled, Plus
  <2> QED
    BY <1>1, <2>5, <2>6 DEF c, t, StoreSettled
<1> QED
  <2>1. IsSchedule(r, c)
    BY SchedulesOK
  <2> QED
    BY <2>1, <1>2, <1>3 DEF IsSchedule

-----------------------------------------------------------------------------
(* The sums over the running calls: FoldFunction() takes the calls in any   *)
(* order, the ledger of the calls goes up from the first.                   *)

(* A set of natural numbers has a least one. *)
LEMMA LeastNatural ==
    ASSUME NEW T \in SUBSET Nat, T # {}
    PROVE  \E m \in T : \A n \in T : m <= n
<1> DEFINE R == OpToRel(<, Nat)
<1>1. IsWellFoundedOn(R, Nat)
  BY Zenon, NatLessThanWellFounded
<1> HIDE DEF R
<1>2. \E m \in T : \A n \in T : <<n, m>> \notin R
  BY <1>1, WFMin
<1>3. \A m, n \in Nat : <<n, m>> \notin R => m <= n
  BY DEF R, OpToRel
<1> QED
  BY <1>2, <1>3

\* The index the fold adds next.
NextAdded(A) == CHOOSE i \in A : TRUE

\* w[i] is what the index i counts for; sum is right for at most n indices.
Adds(w, S, sum, n) ==
    \A A \in SUBSET S : Cardinality(A) <= n =>
       sum[A] = IF A = {} THEN 0 ELSE w[NextAdded(A)] + sum[A \ {NextAdded(A)}]

(* What is used of finite sets of indices. *)
LEMMA IndexSets ==
    ASSUME NEW S, IsFiniteSet(S)
    PROVE  \A A \in SUBSET S :
             /\ IsFiniteSet(A) /\ Cardinality(A) \in Nat /\ Cardinality(A) <= Cardinality(S)
             /\ Cardinality(A) = 0 <=> A = {}
             /\ \A i \in A : Cardinality(A \ {i}) = Cardinality(A) - 1
             /\ A # {} => NextAdded(A) \in A
<1>2. SUFFICES ASSUME NEW A \in SUBSET S
               PROVE  /\ IsFiniteSet(A) /\ Cardinality(A) \in Nat /\ Cardinality(A) <= Cardinality(S)
                      /\ Cardinality(A) = 0 <=> A = {}
                      /\ \A i \in A : Cardinality(A \ {i}) = Cardinality(A) - 1
                      /\ A # {} => NextAdded(A) \in A
  OBVIOUS
<1>3. IsFiniteSet(A) /\ Cardinality(A) \in Nat /\ Cardinality(A) <= Cardinality(S)
  BY FS_Subset, FS_CardinalityType
<1> QED
  BY <1>3, FS_RemoveElement, FS_EmptySet DEF NextAdded

(* A sum that is right for n indices can be made right for one more. *)
LEMMA AddsMore ==
    ASSUME NEW w, NEW S, IsFiniteSet(S), NEW sum, NEW n \in Nat, Adds(w, S, sum, n)
    PROVE  \E more : Adds(w, S, more, n + 1)
<1> DEFINE more == [A \in SUBSET S |->
                IF Cardinality(A) <= n THEN sum[A]
                ELSE w[NextAdded(A)] + sum[A \ {NextAdded(A)}]]
<1>1. SUFFICES ASSUME NEW A \in SUBSET S, Cardinality(A) <= n + 1
               PROVE  more[A] = IF A = {} THEN 0
                                ELSE w[NextAdded(A)] + more[A \ {NextAdded(A)}]
  BY DEF Adds
<1>2. CASE A = {}
  <2>1. Cardinality(A) <= n
    BY <1>2, IndexSets
  <2> QED
    BY <2>1, <1>2 DEF Adds
<1>3. CASE A # {}
  <2> DEFINE rest == A \ {NextAdded(A)}
  <2>1. rest \in SUBSET S /\ Cardinality(rest) <= n
    BY <1>1, <1>3, IndexSets
  <2>2. more[rest] = sum[rest]
    BY <2>1
  <2> HIDE DEF rest
  <2>3. more[A] = w[NextAdded(A)] + sum[rest]
    BY <1>3, <1>1 DEF Adds, rest
  <2> QED
    BY <2>2, <2>3, <1>3 DEF rest
<1> QED
  BY <1>2, <1>3

(* Hence there is one for any number of indices. *)
LEMMA AddsExist ==
    ASSUME NEW w, NEW S, IsFiniteSet(S)
    PROVE  \A n \in Nat : \E sum : Adds(w, S, sum, n)
<1> DEFINE T == {n \in Nat : ~ \E sum : Adds(w, S, sum, n)}
<1>1. SUFFICES ASSUME T # {} PROVE FALSE
  OBVIOUS
<1>2. PICK m \in T : \A n \in T : m <= n
  BY <1>1, LeastNatural
<1>3. m # 0
  <2>1. Adds(w, S, [A \in SUBSET S |-> 0], 0)
    BY IndexSets DEF Adds
  <2> QED
    BY <2>1
<1>4. m - 1 \in Nat /\ m - 1 \notin T /\ (m - 1) + 1 = m
  BY <1>2, <1>3
<1>5. PICK sum : Adds(w, S, sum, m - 1)
  BY <1>4
<1>6. \E more : Adds(w, S, more, m)
  BY <1>4, <1>5, AddsMore
<1> QED
  BY <1>6

\* The function that the fold defines: the sum over every set of indices.
Sums(w, S) ==
    CHOOSE sum : sum = [A \in SUBSET S |->
       IF A = {} THEN 0 ELSE w[NextAdded(A)] + sum[A \ {NextAdded(A)}]]

(* The sum is what the fold adds up. *)
LEMMA SumsAdd ==
    ASSUME NEW w, NEW S, IsFiniteSet(S)
    PROVE  /\ Sums(w, S)[{}] = 0
           /\ \A A \in SUBSET S : A # {} =>
                Sums(w, S)[A] = w[NextAdded(A)] + Sums(w, S)[A \ {NextAdded(A)}]
<1> DEFINE Sum(sum) == [B \in SUBSET S |->
              IF B = {} THEN 0 ELSE w[NextAdded(B)] + sum[B \ {NextAdded(B)}]]
<1>1. PICK sum : Adds(w, S, sum, Cardinality(S))
  BY FS_CardinalityType, AddsExist
<1> DEFINE s == [B \in SUBSET S |-> sum[B]]
<1>2. \A B \in SUBSET S : Cardinality(B) <= Cardinality(S)
  BY IndexSets
<1>3. \A B \in SUBSET S : s[B \ {NextAdded(B)}] = sum[B \ {NextAdded(B)}]
  OBVIOUS
<1>4. s = Sum(s)
  <2>1. \A B \in SUBSET S : s[B] = Sum(s)[B]
    BY <1>1, <1>2, <1>3 DEF Adds
  <2> QED
    BY <2>1
<1>5. Sums(w, S) = CHOOSE t : t = Sum(t)
  BY Zenon DEF Sums
<1> HIDE DEF s, Sum
<1>6. Sums(w, S) = Sum(Sums(w, S))
  BY Zenon, <1>4, <1>5
<1> QED
  BY <1>6 DEF Sum

\* A smallest set of indices with a property some set has.
LEMMA SmallestSet ==
    ASSUME NEW S, IsFiniteSet(S), NEW T \in SUBSET SUBSET S, T # {}
    PROVE  \E A \in T : \A B \in T : Cardinality(A) <= Cardinality(B)
<1> DEFINE sizes == {Cardinality(A) : A \in T}
<1>1. sizes \in SUBSET Nat /\ sizes # {}
  BY IndexSets
<1>2. PICK m \in sizes : \A n \in sizes : m <= n
  BY <1>1, LeastNatural
<1> QED
  BY <1>2

(* Integers sum up to an integer. *)
LEMMA SumsType ==
    ASSUME NEW S, IsFiniteSet(S), NEW w \in [S -> Int]
    PROVE  \A A \in SUBSET S : Sums(w, S)[A] \in Int
<1> DEFINE T == {B \in SUBSET S : Sums(w, S)[B] \notin Int}
<1>1. SUFFICES ASSUME T # {} PROVE FALSE
  OBVIOUS
<1>2. T \in SUBSET SUBSET S
  OBVIOUS
<1>3. PICK B \in T : \A C \in T : Cardinality(B) <= Cardinality(C)
  BY <1>1, <1>2, SmallestSet
<1>4. B # {}
  <2>1. Sums(w, S)[{}] = 0
    BY SumsAdd
  <2> QED
    BY <1>3, <2>1
<1>5. NextAdded(B) \in B
  BY <1>3, <1>4, IndexSets
<1>6. B \ {NextAdded(B)} \in SUBSET S /\ B \ {NextAdded(B)} \notin T
  <2>1. /\ Cardinality(B \ {NextAdded(B)}) < Cardinality(B)
        /\ B \ {NextAdded(B)} \in SUBSET S
    BY <1>3, <1>5, IndexSets
  <2>2. Cardinality(B) \in Nat /\ Cardinality(B \ {NextAdded(B)}) \in Nat
    BY <1>3, <2>1, IndexSets
  <2> QED
    BY <1>3, <2>1, <2>2
<1>7. Sums(w, S)[B] = w[NextAdded(B)] + Sums(w, S)[B \ {NextAdded(B)}]
  BY <1>3, <1>4, SumsAdd
<1>8. w[NextAdded(B)] \in Int /\ Sums(w, S)[B \ {NextAdded(B)}] \in Int
  BY <1>3, <1>5, <1>6
<1> QED
  BY <1>3, <1>7, <1>8

(* Any index may be added last. *)
LEMMA SumsSplit ==
    ASSUME NEW S, IsFiniteSet(S), NEW w \in [S -> Int]
    PROVE  \A A \in SUBSET S : \A a \in A :
             Sums(w, S)[A] = w[a] + Sums(w, S)[A \ {a}]
<1>11. /\ Sums(w, S)[{}] = 0
       /\ \A A \in SUBSET S : A # {} =>
            Sums(w, S)[A] = w[NextAdded(A)] + Sums(w, S)[A \ {NextAdded(A)}]
  BY SumsAdd
<1> DEFINE sum == Sums(w, S)
           Splits(B) == \A b \in B : sum[B] = w[b] + sum[B \ {b}]
           T == {B \in SUBSET S : ~Splits(B)}
<1>0. \A B \in SUBSET S : sum[B] \in Int
  BY SumsType
<1>1. SUFFICES ASSUME T # {} PROVE FALSE
  OBVIOUS
<1>2. T \in SUBSET SUBSET S
  OBVIOUS
<1>3. PICK B \in T : \A C \in T : Cardinality(B) <= Cardinality(C)
  BY <1>1, <1>2, SmallestSet
<1>4. PICK b \in B : sum[B] # w[b] + sum[B \ {b}]
  BY <1>3
<1> DEFINE c == NextAdded(B)
<1>5. c \in B /\ sum[B] = w[c] + sum[B \ {c}]
  <2>1. \A A \in SUBSET S : A # {} => sum[A] = w[NextAdded(A)] + sum[A \ {NextAdded(A)}]
    BY <1>11
  <2>2. B \in SUBSET S /\ B # {}
    BY <1>3, <1>4
  <2>3. NextAdded(B) \in B
    BY <2>2, IndexSets
  <2> HIDE DEF sum
  <2> QED
    BY <2>1, <2>2, <2>3
<1> HIDE DEF c, sum
<1>6. b # c
  BY <1>4, <1>5
<1>7. /\ B \ {c} \in SUBSET S /\ Splits(B \ {c})
      /\ B \ {b} \in SUBSET S /\ Splits(B \ {b})
  <2>1. /\ Cardinality(B \ {c}) < Cardinality(B)
        /\ Cardinality(B \ {b}) < Cardinality(B)
    BY <1>3, <1>4, <1>5, IndexSets
  <2> HIDE DEF Splits
  <2>2. B \ {c} \notin T /\ B \ {b} \notin T
    <3>1. \A C \in T : Cardinality(C) \in Nat
      BY IndexSets
    <3>2. Cardinality(B) \in Nat
      BY <1>3, IndexSets
    <3> QED
      BY <1>3, <2>1, <3>1, <3>2
  <2> QED
    BY <1>3, <2>2
<1>8. (B \ {c}) \ {b} = (B \ {b}) \ {c}
  OBVIOUS
<1> DEFINE rest == sum[(B \ {b}) \ {c}]
<1>9. sum[B \ {c}] = w[b] + rest /\ sum[B \ {b}] = w[c] + rest
  BY <1>4, <1>5, <1>6, <1>7, <1>8
<1>10. rest \in Int /\ w[b] \in Int /\ w[c] \in Int
  BY <1>0, <1>3, <1>4, <1>5
<1> HIDE DEF rest
<1> QED
  BY <1>4, <1>5, <1>9, <1>10

(* The sum of all is where a ledger that adds one after the other ends. *)
LEMMA SumIsLast ==
    ASSUME NEW N \in Nat, NEW w \in [1..N -> Int], NEW L \in [0..N -> Int],
           L[0] = 0, \A i \in 1..N : L[i] = L[i - 1] + w[i]
    PROVE  Sums(w, 1..N)[1..N] = L[N]
<1> DEFINE S == 1..N
           sum == Sums(w, S)
           T == {i \in 0..N : sum[1..i] # L[i]}
<1>1. IsFiniteSet(S) /\ w \in [S -> Int]
  BY FS_Interval
<1>2. sum[{}] = 0 /\ \A A \in SUBSET S : \A a \in A : sum[A] = w[a] + sum[A \ {a}]
  <2> HIDE DEF S
  <2>1. sum[{}] = 0
    BY <1>1, SumsAdd
  <2>2. \A A \in SUBSET S : \A a \in A : sum[A] = w[a] + sum[A \ {a}]
    BY <1>1, SumsSplit
  <2> QED
    BY <2>1, <2>2
<1> HIDE DEF sum
<1>3. SUFFICES ASSUME T # {} PROVE FALSE
  <2>1. N \in 0..N
    OBVIOUS
  <2> QED
    BY <2>1 DEF sum
<1>4. PICK m \in T : \A n \in T : m <= n
  <2>1. T \in SUBSET Nat
    OBVIOUS
  <2> QED
    BY <1>3, <2>1, LeastNatural
<1>5. m # 0
  <2>1. 1..0 = {}
    OBVIOUS
  <2> QED
    BY <1>2, <1>4, <2>1
<1>6. m \in 1..N /\ m - 1 \in 0..N /\ m - 1 \notin T
  <2>1. m \in 0..N
    BY <1>4
  <2>2. m \in 1..N /\ m - 1 \in 0..N /\ m - 1 < m
    BY <2>1, <1>5
  <2>3. m - 1 \in T => m <= m - 1
    BY <1>4
  <2> QED
    BY <2>2, <2>3
<1>7. 1..m \in SUBSET S /\ m \in 1..m
  BY <1>6
<1>8. (1..m) \ {m} = 1..(m - 1)
  <2>1. m \in Int
    BY <1>6
  <2>2. \A i \in (1..m) \ {m} : i \in 1..(m - 1)
    <3>1. SUFFICES ASSUME NEW i \in Int, i # m, 1 <= i, i <= m PROVE i <= m - 1
      BY <2>1
    <3> QED
      BY <2>1, <3>1
  <2>3. \A i \in 1..(m - 1) : i \in (1..m) \ {m}
    BY <2>1
  <2> QED
    BY Zenon, <2>2, <2>3
<1>9. sum[1..m] = w[m] + sum[1..(m - 1)]
  <2>1. sum[1..m] = w[m] + sum[(1..m) \ {m}]
    BY <1>2, <1>7
  <2> QED
    BY Zenon, <1>8, <2>1
<1>10. sum[1..(m - 1)] = L[m - 1]
  BY <1>6
<1>11. L[m] = L[m - 1] + w[m] /\ L[m - 1] \in Int /\ w[m] \in Int
  BY <1>6
<1> QED
  BY <1>4, <1>9, <1>10, <1>11

(* Total() is the sum over all calls. *)
LEMMA TotalIsSum ==
    ASSUME NEW field
    PROVE  Total(field) = Sums([i \in DOMAIN frames |-> frames[i][field]], DOMAIN frames)[DOMAIN frames]
<1>1. \A A \in SUBSET DOMAIN frames : A # {} => NextAdded(A) \in DOMAIN frames
  BY DEF NextAdded
<1> DEFINE w == [i \in DOMAIN frames |-> frames[i][field]]
           G(sum) == [A \in SUBSET DOMAIN frames |->
                       IF A = {} THEN 0 ELSE w[NextAdded(A)] + sum[A \ {NextAdded(A)}]]
           F(sum) == [A \in SUBSET DOMAIN frames |->
                       IF A = {} THEN 0 ELSE frames[NextAdded(A)][field] + sum[A \ {NextAdded(A)}]]
<1>2. \A sum : G(sum) = F(sum)
  BY <1>1
<1>3. Total(field) = (CHOOSE sum : sum = F(sum))[DOMAIN frames]
  BY Zenon DEF Total, FoldFunction, FoldFunctionOnSet, MapThenFoldSet, NextAdded
<1>4. Sums(w, DOMAIN frames) = CHOOSE sum : sum = G(sum)
  BY Zenon DEF Sums
<1> HIDE DEF F, G
<1>5. (CHOOSE sum : sum = F(sum)) = (CHOOSE sum : sum = G(sum))
  BY <1>2
<1> QED
  BY <1>3, <1>4, <1>5 DEF w

-----------------------------------------------------------------------------
(* The ledger of the running calls. *)

Frames == [gas_left : Int, gas_refund : Int, state_gas : Int, static : BOOLEAN,
           snapshot : Slots, stores : Int, spent : Int]

Spends(f) == [refund |-> f.gas_refund, spent |-> f.spent, stores |-> f.stores]

Nothing == [refund |-> 0, spent |-> 0, stores |-> 0]

\* acc[i] is what the first i calls of fs have spent.
Ledgers(acc, fs) ==
    /\ acc \in [0..Len(fs) -> Ledger]
    /\ acc[0] = Nothing
    /\ \A i \in 1..Len(fs) : acc[i] = Plus(acc[i - 1], Spends(fs[i]))

\* It is settled for the slot, and for the slot that each call began with.
SettledBy(acc, c, fs, s) ==
    /\ \A i \in 1..Len(fs) : Settled(c, acc[i - 1], fs[i].snapshot)
    /\ fs # <<>> => Settled(c, acc[Len(fs)], s)

Accounted(c, fs, s) == \E acc : Ledgers(acc, fs) /\ SettledBy(acc, c, fs, s)

(* Ledgers add up to a ledger, in any grouping. *)
LEMMA PlusType ==
    ASSUME NEW a \in Ledger, NEW b \in Ledger PROVE Plus(a, b) \in Ledger
  BY DEF Plus, Ledger

LEMMA PlusAssociates ==
    ASSUME NEW a \in Ledger, NEW b \in Ledger, NEW d \in Ledger
    PROVE  Plus(a, Plus(b, d)) = Plus(Plus(a, b), d)
  BY DEF Plus, Ledger

LEMMA PlusNothing ==
    ASSUME NEW a \in Ledger PROVE Plus(a, Nothing) = a
  BY DEF Plus, Ledger, Nothing

LEMMA SpendsType ==
    ASSUME NEW f \in Frames PROVE Spends(f) \in Ledger
  BY DEF Spends, Frames, Ledger

\* gs begins with the calls of fs up to n.
Alike(gs, fs, n) ==
    \A i \in 1..n : gs[i].snapshot = fs[i].snapshot /\ Spends(gs[i]) = Spends(fs[i])

(* The running call spends d, and the slot changes from s to t. *)
LEMMA LedgerMoves ==
    ASSUME NEW c, NEW s, NEW t, NEW fs \in Seq(Frames), NEW gs \in Seq(Frames),
           NEW N \in Nat, N = Len(fs), N # 0, Len(gs) = N, Alike(gs, fs, N - 1),
           gs[N].snapshot = fs[N].snapshot,
           NEW d \in Ledger, Spends(gs[N]) = Plus(Spends(fs[N]), d),
           \A a \in Ledger : Settled(c, a, s) => Settled(c, Plus(a, d), t),
           Accounted(c, fs, s)
    PROVE  Accounted(c, gs, t)
<1>1. PICK acc : Ledgers(acc, fs) /\ SettledBy(acc, c, fs, s)
  BY DEF Accounted
<1> DEFINE new == [i \in 0..N |-> IF i = N THEN Plus(acc[N], d) ELSE acc[i]]
<1>2. /\ acc \in [0..N -> Ledger] /\ acc[0] = Nothing
      /\ \A i \in 1..N : acc[i] = Plus(acc[i - 1], Spends(fs[i]))
      /\ \A i \in 1..N : Settled(c, acc[i - 1], fs[i].snapshot)
      /\ Settled(c, acc[N], s)
  BY <1>1 DEF Ledgers, SettledBy
<1>3. /\ new \in [0..N -> Ledger] /\ new[N] = Plus(acc[N], d)
      /\ \A i \in 0..(N - 1) : new[i] = acc[i]
  <2>1. Plus(acc[N], d) \in Ledger
    BY <1>2, PlusType
  <2> QED
    BY <1>2, <2>1
<1> HIDE DEF new
<1>4. new[N] = Plus(new[N - 1], Spends(gs[N]))
  <2>1. acc[N] = Plus(acc[N - 1], Spends(fs[N])) /\ acc[N - 1] \in Ledger /\ fs[N] \in Frames
    BY <1>2
  <2>2. Plus(acc[N], d) = Plus(acc[N - 1], Plus(Spends(fs[N]), d))
    BY <2>1, SpendsType, PlusAssociates
  <2> QED
    BY <1>3, <2>2
<1>5. \A i \in 1..N : new[i] = Plus(new[i - 1], Spends(gs[i]))
  <2>1. ASSUME NEW i \in 1..(N - 1) PROVE new[i] = Plus(new[i - 1], Spends(gs[i]))
    <3>1. i \in 1..N /\ i \in 0..(N - 1) /\ i - 1 \in 0..(N - 1)
      BY <1>2
    <3>2. acc[i] = Plus(acc[i - 1], Spends(fs[i]))
      BY <1>2, <3>1
    <3>3. new[i] = acc[i] /\ new[i - 1] = acc[i - 1]
      BY <1>3, <3>1
    <3>4. Spends(gs[i]) = Spends(fs[i])
      BY DEF Alike
    <3> QED
      BY <3>2, <3>3, <3>4
  <2> QED
    BY <1>4, <2>1
<1>6. \A i \in 1..N : Settled(c, new[i - 1], gs[i].snapshot)
  <2>1. ASSUME NEW i \in 1..N PROVE Settled(c, new[i - 1], gs[i].snapshot)
    <3>1. gs[i].snapshot = fs[i].snapshot
      BY DEF Alike
    <3>2. new[i - 1] = acc[i - 1]
      BY <1>3
    <3> QED
      BY <3>1, <3>2, <1>2
  <2> QED
    BY <2>1
<1>7. Settled(c, new[N], t)
  BY <1>2, <1>3
<1>8. new[0] = Nothing
  BY <1>2, <1>3
<1>9. Ledgers(new, gs)
  BY <1>3, <1>5, <1>8 DEF Ledgers
<1>10. SettledBy(new, c, gs, t)
  BY <1>6, <1>7 DEF SettledBy
<1> QED
  BY <1>9, <1>10 DEF Accounted

(* A call begins. *)
LEMMA LedgerCalls ==
    ASSUME NEW c, NEW s, NEW fs \in Seq(Frames), NEW gs \in Seq(Frames),
           NEW N \in Nat, N = Len(fs), Len(gs) = N + 1, Alike(gs, fs, N),
           gs[N + 1].snapshot = s, Spends(gs[N + 1]) = Nothing,
           fs # <<>>, Accounted(c, fs, s)
    PROVE  Accounted(c, gs, s)
<1>1. PICK acc : Ledgers(acc, fs) /\ SettledBy(acc, c, fs, s)
  BY DEF Accounted
<1> DEFINE new == [i \in 0..(N + 1) |-> IF i = N + 1 THEN acc[N] ELSE acc[i]]
<1>2. /\ acc \in [0..N -> Ledger] /\ acc[0] = Nothing
      /\ \A i \in 1..N : acc[i] = Plus(acc[i - 1], Spends(fs[i]))
      /\ \A i \in 1..N : Settled(c, acc[i - 1], fs[i].snapshot)
      /\ Settled(c, acc[N], s)
  BY <1>1 DEF Ledgers, SettledBy
<1>3. /\ new \in [0..(N + 1) -> Ledger] /\ new[N + 1] = acc[N]
      /\ \A i \in 0..N : new[i] = acc[i]
  BY <1>2
<1> HIDE DEF new
<1>4. new[N + 1] = Plus(new[N], Spends(gs[N + 1]))
  <2>1. acc[N] \in Ledger /\ new[N] = acc[N]
    BY <1>2, <1>3
  <2> QED
    BY <1>3, <2>1, PlusNothing
<1>5. \A i \in 1..(N + 1) : new[i] = Plus(new[i - 1], Spends(gs[i]))
  <2>1. ASSUME NEW i \in 1..N PROVE new[i] = Plus(new[i - 1], Spends(gs[i]))
    <3>1. i \in 1..N /\ i \in 0..N /\ i - 1 \in 0..N
      BY <1>2
    <3>2. acc[i] = Plus(acc[i - 1], Spends(fs[i]))
      BY <1>2, <3>1
    <3>3. new[i] = acc[i] /\ new[i - 1] = acc[i - 1]
      BY <1>3, <3>1
    <3>4. Spends(gs[i]) = Spends(fs[i])
      BY DEF Alike
    <3> QED
      BY <3>2, <3>3, <3>4
  <2> QED
    BY <1>4, <2>1
<1>6. \A i \in 1..(N + 1) : Settled(c, new[i - 1], gs[i].snapshot)
  <2>1. ASSUME NEW i \in 1..N PROVE Settled(c, new[i - 1], gs[i].snapshot)
    <3>1. gs[i].snapshot = fs[i].snapshot
      BY DEF Alike
    <3>2. new[i - 1] = acc[i - 1]
      BY <1>3
    <3> QED
      BY <3>1, <3>2, <1>2
  <2>2. Settled(c, new[N], gs[N + 1].snapshot)
    BY <1>2, <1>3
  <2> QED
    BY <2>1, <2>2
<1>7. Settled(c, new[N + 1], s)
  BY <1>2, <1>3
<1>8. new[0] = Nothing
  BY <1>2, <1>3
<1>9. Ledgers(new, gs)
  BY <1>3, <1>5, <1>8 DEF Ledgers
<1>10. SettledBy(new, c, gs, s)
  BY <1>6, <1>7 DEF SettledBy
<1> QED
  BY <1>9, <1>10 DEF Accounted

(* The running call returns to its caller. *)
LEMMA LedgerReturns ==
    ASSUME NEW c, NEW s, NEW fs \in Seq(Frames), NEW gs \in Seq(Frames),
           NEW N \in Nat, N = Len(fs), N > 1, Len(gs) = N - 1, Alike(gs, fs, N - 2),
           gs[N - 1].snapshot = fs[N - 1].snapshot,
           Spends(gs[N - 1]) = Plus(Spends(fs[N - 1]), Spends(fs[N])),
           Accounted(c, fs, s)
    PROVE  Accounted(c, gs, s)
<1>1. PICK acc : Ledgers(acc, fs) /\ SettledBy(acc, c, fs, s)
  BY DEF Accounted
<1> DEFINE M == N - 1
           new == [i \in 0..M |-> IF i = M THEN acc[N] ELSE acc[i]]
<1>2. /\ acc \in [0..N -> Ledger] /\ acc[0] = Nothing
      /\ \A i \in 1..N : acc[i] = Plus(acc[i - 1], Spends(fs[i]))
      /\ \A i \in 1..N : Settled(c, acc[i - 1], fs[i].snapshot)
      /\ Settled(c, acc[N], s)
  BY <1>1 DEF Ledgers, SettledBy
<1>3. /\ new \in [0..M -> Ledger] /\ new[M] = acc[N]
      /\ \A i \in 0..(M - 1) : new[i] = acc[i]
  BY <1>2
<1>4. M \in Nat /\ M # 0 /\ N = M + 1 /\ N - 2 = M - 1
  OBVIOUS
<1> HIDE DEF new, M
<1>5. new[M] = Plus(new[M - 1], Spends(gs[M]))
  <2>1. /\ acc[N] = Plus(acc[M], Spends(fs[N])) /\ fs[N] \in Frames
        /\ acc[M] = Plus(acc[M - 1], Spends(fs[M])) /\ fs[M] \in Frames
        /\ acc[M - 1] \in Ledger
    <3>1. N \in 1..N /\ M \in 1..N /\ N - 1 = M /\ M - 1 \in 0..N
      BY <1>4
    <3> QED
      BY <1>2, <3>1
  <2>2. acc[N] = Plus(acc[M - 1], Plus(Spends(fs[M]), Spends(fs[N])))
    <3>1. Spends(fs[N]) \in Ledger /\ Spends(fs[M]) \in Ledger
      BY <2>1, SpendsType
    <3> QED
      BY <2>1, <3>1, PlusAssociates
  <2> QED
    BY <1>3, <1>4, <2>2 DEF M
<1>6. \A i \in 1..M : new[i] = Plus(new[i - 1], Spends(gs[i]))
  <2>1. ASSUME NEW i \in 1..(M - 1) PROVE new[i] = Plus(new[i - 1], Spends(gs[i]))
    <3>1. i \in 1..N /\ i \in 0..(M - 1) /\ i - 1 \in 0..(M - 1)
      BY <1>4
    <3>2. acc[i] = Plus(acc[i - 1], Spends(fs[i]))
      BY <1>2, <3>1
    <3>3. new[i] = acc[i] /\ new[i - 1] = acc[i - 1]
      BY <1>3, <3>1
    <3>4. Spends(gs[i]) = Spends(fs[i])
      BY <1>4 DEF Alike
    <3> QED
      BY <3>2, <3>3, <3>4
  <2>2. \A i \in 1..M : i = M \/ i \in 1..(M - 1)
    BY <1>4
  <2> QED
    BY <1>5, <2>1, <2>2
<1>7. \A i \in 1..M : Settled(c, new[i - 1], gs[i].snapshot)
  <2>1. ASSUME NEW i \in 1..M PROVE Settled(c, new[i - 1], gs[i].snapshot)
    <3>1. gs[i].snapshot = fs[i].snapshot
      BY <1>4 DEF Alike, M
    <3>2. new[i - 1] = acc[i - 1]
      BY <1>3, <1>4
    <3>3. i \in 1..N
      BY <1>4
    <3> QED
      BY <3>1, <3>2, <3>3, <1>2
  <2> QED
    BY <2>1
<1>8. Settled(c, new[M], s) /\ new[0] = Nothing
  BY <1>2, <1>3, <1>4
<1>9. Ledgers(new, gs)
  BY <1>3, <1>6, <1>8 DEF Ledgers, M
<1>10. SettledBy(new, c, gs, s)
  BY <1>7, <1>8 DEF SettledBy, M
<1> QED
  BY <1>9, <1>10 DEF Accounted

(* The running call fails, and the slot is again what the call began with. *)
LEMMA LedgerFails ==
    ASSUME NEW c, NEW s, NEW fs \in Seq(Frames), NEW gs \in Seq(Frames),
           NEW N \in Nat, N = Len(fs), N # 0, Len(gs) = N - 1, Alike(gs, fs, N - 1),
           Accounted(c, fs, s)
    PROVE  Accounted(c, gs, fs[N].snapshot)
<1>1. PICK acc : Ledgers(acc, fs) /\ SettledBy(acc, c, fs, s)
  BY DEF Accounted
<1> DEFINE M == N - 1
           new == [i \in 0..M |-> acc[i]]
<1>2. /\ acc \in [0..N -> Ledger] /\ acc[0] = Nothing
      /\ \A i \in 1..N : acc[i] = Plus(acc[i - 1], Spends(fs[i]))
      /\ \A i \in 1..N : Settled(c, acc[i - 1], fs[i].snapshot)
  BY <1>1 DEF Ledgers, SettledBy
<1>3. new \in [0..M -> Ledger] /\ \A i \in 0..M : new[i] = acc[i]
  BY <1>2
<1>4. M \in Nat /\ N = M + 1
  OBVIOUS
<1> HIDE DEF new, M
<1>5. \A i \in 1..M : new[i] = Plus(new[i - 1], Spends(gs[i]))
  <2>1. ASSUME NEW i \in 1..M PROVE new[i] = Plus(new[i - 1], Spends(gs[i]))
    <3>1. i \in 0..M /\ i - 1 \in 0..M /\ i \in 1..N
      BY <1>4
    <3>2. acc[i] = Plus(acc[i - 1], Spends(fs[i]))
      BY <1>2, <3>1
    <3>3. new[i] = acc[i] /\ new[i - 1] = acc[i - 1]
      BY <1>3, <3>1
    <3>4. Spends(gs[i]) = Spends(fs[i])
      BY DEF Alike, M
    <3> QED
      BY <3>2, <3>3, <3>4
  <2> QED
    BY <2>1
<1>6. \A i \in 1..M : Settled(c, new[i - 1], gs[i].snapshot)
  <2>1. ASSUME NEW i \in 1..M PROVE Settled(c, new[i - 1], gs[i].snapshot)
    <3>1. gs[i].snapshot = fs[i].snapshot
      BY <1>4 DEF Alike, M
    <3>2. new[i - 1] = acc[i - 1]
      BY <1>3, <1>4
    <3>3. i \in 1..N
      BY <1>4
    <3> QED
      BY <3>1, <3>2, <3>3, <1>2
  <2> QED
    BY <2>1
<1>7. Settled(c, new[M], fs[N].snapshot) /\ new[0] = Nothing
  BY <1>2, <1>3, <1>4
<1>8. Ledgers(new, gs)
  BY <1>3, <1>5, <1>7 DEF Ledgers, M
<1>9. SettledBy(new, c, gs, fs[N].snapshot)
  BY <1>6, <1>7 DEF SettledBy, M
<1> QED
  BY <1>8, <1>9 DEF Accounted

-----------------------------------------------------------------------------
(* The inductive invariant: the ledger is settled for the slot, now and at  *)
(* the start of each call, and so is the state gas.                         *)

\* The state gas of the slot, if it is new.
Held(r, s) == IF r >= AMSTERDAM /\ s.original = 0 /\ s.current # 0 THEN STORAGE_SET_STATE_GAS ELSE 0

\* A call that fails leaves its caller what it had before the call.
Reserved(r, fs, s) ==
    /\ \A i \in 1..(Len(fs) - 1) :
         fs[i].state_gas + Held(r, fs[i + 1].snapshot) = StateGasUnits * STORAGE_SET_STATE_GAS
    /\ fs # <<>> => fs[Len(fs)].state_gas + Held(r, s) = StateGasUnits * STORAGE_SET_STATE_GAS

StorageInv ==
    /\ rev \in CostRevisions /\ slot \in Slots /\ frames \in Seq(Frames)
    /\ Accounted(StorageCostSpec(rev), frames, slot)
    /\ Reserved(rev, frames, slot)

LEMMA FrameFields ==
    ASSUME NEW f \in Frames
    PROVE  /\ f.gas_left \in Int /\ f.gas_refund \in Int /\ f.state_gas \in Int
           /\ f.stores \in Int /\ f.spent \in Int /\ f.snapshot \in Slots
  BY DEF Frames

(* The running call is one of the calls. *)
LEMMA LastFrame ==
    ASSUME NEW fs \in Seq(Frames), fs # <<>>
    PROVE  /\ Len(fs) \in Nat /\ Len(fs) # 0 /\ fs[Len(fs)] \in Frames
           /\ \A i \in 1..Len(fs) : fs[i] \in Frames /\ fs[i].snapshot \in Slots
<1>1. Len(fs) \in Nat /\ Len(fs) # 0
  OBVIOUS
<1>2. \A i \in 1..Len(fs) : fs[i] \in Frames
  OBVIOUS
<1>3. \A f \in Frames : f.snapshot \in Slots
  BY DEF Frames
<1> QED
  BY <1>1, <1>2, <1>3

(* Only the running call changes. *)
LEMMA LastChanged ==
    ASSUME NEW fs \in Seq(Frames), fs # <<>>, NEW x \in Frames, NEW gs,
           gs = [fs EXCEPT ![Len(fs)] = x]
    PROVE  /\ gs \in Seq(Frames) /\ Len(gs) = Len(fs) /\ gs[Len(fs)] = x
           /\ \A i \in 1..(Len(fs) - 1) : gs[i] = fs[i]
           /\ Alike(gs, fs, Len(fs) - 1)
<1>1. gs \in Seq(Frames) /\ Len(gs) = Len(fs) /\ gs[Len(fs)] = x
  OBVIOUS
<1>2. \A i \in 1..(Len(fs) - 1) : gs[i] = fs[i]
  OBVIOUS
<1> QED
  BY <1>1, <1>2 DEF Alike

(* The state gas that sstore() charges or refills is what the slot gets to hold. *)
LEMMA StateGasOfStore ==
    ASSUME NEW r \in Int, NEW s, NEW v, NEW t, t.original = s.original, t.current = v,
           NEW st, st = SetStorageStatus(s.original, s.current, v)
    PROVE  (IF r < AMSTERDAM THEN 0
            ELSE IF st = "ADDED_DELETED" THEN STORAGE_SET_STATE_GAS
            ELSE IF st = "ADDED" THEN -STORAGE_SET_STATE_GAS ELSE 0) = Held(r, s) - Held(r, t)
<1>1. STORAGE_SET_STATE_GAS \in Int
  BY DEF STORAGE_SET_STATE_GAS
<1>2. st = "ADDED_DELETED" <=> s.original # s.current /\ s.original = v /\ s.current # 0 /\ v = 0
  BY DEF SetStorageStatus
<1>3. st = "ADDED" <=> s.original = s.current /\ s.original # v /\ s.current = 0
  BY DEF SetStorageStatus
<1>4. r < AMSTERDAM <=> ~(r >= AMSTERDAM)
  BY DEF AMSTERDAM
<1> QED
  BY <1>1, <1>2, <1>3, <1>4 DEF Held

LEMMA HeldType == \A r, s : Held(r, s) \in Int
  BY DEF Held, STORAGE_SET_STATE_GAS

(* The invariant holds at the start of a transaction, *)
LEMMA InitStorageInv == StorageInit => StorageInv
<1> SUFFICES ASSUME StorageInit PROVE StorageInv
  OBVIOUS
<1>1. rev \in CostRevisions /\ rev \in Revisions
  BY StorageAssumption DEF StorageInit
<1>2. PICK w \in Words : slot = [original |-> w, current |-> w, access |-> "cold"]
  BY DEF StorageInit
<1>3. slot \in Slots /\ slot.original = slot.current /\ slot.access = "cold"
  BY <1>2 DEF Slots
<1> DEFINE f == NewFrame(TxGas, StateGasUnits * STORAGE_SET_STATE_GAS, FALSE)
           c == StorageCostSpec(rev)
<1>4. StateGasUnits * STORAGE_SET_STATE_GAS \in Int
  BY StorageAssumption DEF STORAGE_SET_STATE_GAS
<1>5. /\ f \in Frames /\ f.snapshot = slot /\ Spends(f) = Nothing
      /\ f.state_gas = StateGasUnits * STORAGE_SET_STATE_GAS
  BY <1>3, <1>4, StorageAssumption DEF NewFrame, Frames, Spends, Nothing
<1>6. frames = <<f>>
  BY DEF StorageInit
<1> HIDE DEF f
<1>7. frames \in Seq(Frames) /\ Len(frames) = 1 /\ frames[1] = f
  BY <1>5, <1>6
<1>8. Settled(c, Nothing, slot)
  <2>1. IsSchedule(rev, c)
    BY <1>1, SchedulesOK
  <2>2. c.net_cost = TRUE => c.warm_access \in Nat
    BY <2>1 DEF IsSchedule, NetSchedule, LegacySchedule
  <2> HIDE DEF c
  <2> QED
    BY <1>3, <2>2 DEF Settled, Nothing, Cleared, Change, ColdPaid
<1>9. Nothing \in Ledger
  BY DEF Nothing, Ledger
<1> DEFINE acc == [i \in 0..1 |-> Nothing]
<1>10. Ledgers(acc, frames)
  <2>1. Nothing = Plus(Nothing, Nothing)
    BY <1>9, PlusNothing
  <2> QED
    BY <1>5, <1>7, <1>9, <2>1 DEF Ledgers
<1>11. SettledBy(acc, c, frames, slot)
  BY <1>5, <1>7, <1>8 DEF SettledBy
<1>12. Accounted(c, frames, slot)
  BY <1>10, <1>11 DEF Accounted
<1>13. Reserved(rev, frames, slot)
  BY <1>3, <1>4, <1>5, <1>7 DEF Reserved, Held
<1> QED
  BY <1>1, <1>3, <1>7, <1>12, <1>13 DEF StorageInv

(* and when the running call fails, or reverts with gas left. *)
LEMMA FailKeepsInv ==
    ASSUME StorageInv, frames # <<>>, NEW gas \in Int, FailFrame(gas), UNCHANGED rev
    PROVE  StorageInv'
<1> DEFINE N == Len(frames)
           c == StorageCostSpec(rev)
<1>1. /\ frames \in Seq(Frames) /\ N \in Nat /\ N # 0 /\ frames[N] \in Frames
      /\ \A i \in 1..N : frames[i] \in Frames /\ frames[i].snapshot \in Slots
  BY LastFrame DEF StorageInv
<1>2. slot' = frames[N].snapshot /\ slot' \in Slots
  BY <1>1 DEF FailFrame, Top
<1>3. /\ Rest \in Seq(Frames) /\ Len(Rest) = N - 1
      /\ \A i \in 1..(N - 1) : Rest[i] = frames[i]
  <2>1. 1 \in 1..(N + 1) /\ N - 1 \in 0..N /\ (N - 1) - 1 + 1 = N - 1
    BY <1>1
  <2>2. Rest = SubSeq(frames, 1, N - 1)
    BY DEF Rest
  <2> QED
    BY <1>1, <2>1, <2>2
<1>4. /\ frames' \in Seq(Frames) /\ Len(frames') = N - 1
      /\ \A i \in 1..(N - 1) : /\ frames'[i].snapshot = frames[i].snapshot
                               /\ frames'[i].state_gas = frames[i].state_gas
                               /\ Spends(frames'[i]) = Spends(frames[i])
  <2>1. CASE Rest = <<>>
    BY <1>1, <1>3, <2>1 DEF FailFrame
  <2>2. CASE Rest # <<>>
    <3> DEFINE x == [Rest[Len(Rest)] EXCEPT !.gas_left = @ + gas]
    <3>1. frames' = [Rest EXCEPT ![Len(Rest)] = x]
      BY <2>2 DEF FailFrame
    <3>2. Rest[Len(Rest)] \in Frames
      BY <1>3, <2>2, LastFrame
    <3>3. /\ x \in Frames /\ x.snapshot = Rest[Len(Rest)].snapshot
          /\ x.state_gas = Rest[Len(Rest)].state_gas /\ Spends(x) = Spends(Rest[Len(Rest)])
      BY <3>2 DEF Frames, Spends
    <3> HIDE DEF x
    <3>4. /\ frames' \in Seq(Frames) /\ Len(frames') = N - 1 /\ frames'[N - 1] = x
          /\ \A i \in 1..(N - 2) : frames'[i] = Rest[i]
      <4>1. /\ frames' \in Seq(Frames) /\ Len(frames') = Len(Rest) /\ frames'[Len(Rest)] = x
            /\ \A i \in 1..(Len(Rest) - 1) : frames'[i] = Rest[i]
        BY <1>3, <2>2, <3>1, <3>3, LastChanged
      <4> QED
        BY <1>1, <1>3, <4>1
    <3>5. \A i \in 1..(N - 1) : i = N - 1 \/ i \in 1..(N - 2)
      BY <1>1
    <3> QED
      BY <1>3, <3>3, <3>4, <3>5
  <2> QED
    BY <2>1, <2>2
<1>5. Alike(frames', frames, N - 1)
  BY <1>4 DEF Alike
<1>6. Accounted(c, frames', slot')
  <2>1. Accounted(c, frames, slot)
    BY DEF StorageInv
  <2> HIDE DEF c
  <2> QED
    BY <1>1, <1>2, <1>4, <1>5, <2>1, LedgerFails
<1>7. Reserved(rev, frames', slot')
  <2>1. \A i \in 1..(N - 1) :
          frames[i].state_gas + Held(rev, frames[i + 1].snapshot) = StateGasUnits * STORAGE_SET_STATE_GAS
    BY DEF StorageInv, Reserved
  <2>2. \A i \in 1..(N - 2) : i \in 1..(N - 1) /\ i + 1 \in 1..(N - 1)
    BY <1>1
  <2>3. frames' # <<>> => N - 1 \in 1..(N - 1) /\ (N - 1) + 1 = N
    BY <1>1, <1>4
  <2>4. (N - 1) - 1 = N - 2
    BY <1>1
  <2> QED
    BY <1>2, <1>4, <2>1, <2>2, <2>3, <2>4 DEF Reserved
<1> QED
  BY <1>2, <1>4, <1>6, <1>7 DEF StorageInv

(* The running call goes on: x is what it becomes. *)
LEMMA MoveKeepsInv ==
    ASSUME StorageInv, frames # <<>>, UNCHANGED rev,
           NEW x \in Frames, frames' = [frames EXCEPT ![Len(frames)] = x],
           x.snapshot = Top.snapshot, slot' \in Slots,
           NEW d \in Ledger, Spends(x) = Plus(Spends(Top), d),
           x.state_gas + Held(rev, slot') = Top.state_gas + Held(rev, slot),
           \A a \in Ledger : Settled(StorageCostSpec(rev), a, slot)
                               => Settled(StorageCostSpec(rev), Plus(a, d), slot')
    PROVE  StorageInv'
<1> DEFINE N == Len(frames)
           c == StorageCostSpec(rev)
<1>1. /\ frames \in Seq(Frames) /\ N \in Nat /\ N # 0 /\ Top = frames[N]
      /\ Accounted(c, frames, slot)
  BY LastFrame DEF StorageInv, Top
<1>2. /\ frames' \in Seq(Frames) /\ Len(frames') = N /\ frames'[N] = x
      /\ \A i \in 1..(N - 1) : frames'[i] = frames[i]
      /\ Alike(frames', frames, N - 1)
  <2>1. /\ frames' \in Seq(Frames) /\ Len(frames') = Len(frames) /\ frames'[Len(frames)] = x
        /\ \A i \in 1..(Len(frames) - 1) : frames'[i] = frames[i]
        /\ Alike(frames', frames, Len(frames) - 1)
    <3>1. frames \in Seq(Frames) /\ frames # <<>> /\ x \in Frames
      BY <1>1
    <3>2. frames' = [frames EXCEPT ![Len(frames)] = x]
      OBVIOUS
    <3>3. \A gs : gs = [frames EXCEPT ![Len(frames)] = x] =>
            /\ gs \in Seq(Frames) /\ Len(gs) = Len(frames) /\ gs[Len(frames)] = x
            /\ \A i \in 1..(Len(frames) - 1) : gs[i] = frames[i]
            /\ Alike(gs, frames, Len(frames) - 1)
      BY <3>1, LastChanged
    <3> QED
      BY <3>2, <3>3
  <2> QED
    BY <2>1
<1>3. Accounted(c, frames', slot')
  <2> HIDE DEF c
  <2>1. frames'[N].snapshot = frames[N].snapshot /\ Spends(frames'[N]) = Plus(Spends(frames[N]), d)
    BY <1>1, <1>2
  <2>2. \A a \in Ledger : Settled(c, a, slot) => Settled(c, Plus(a, d), slot')
    BY DEF c
  <2> HIDE DEF N
  <2>3. N = Len(frames) /\ Len(frames') = N
    BY <1>2 DEF N
  <2> QED
    BY <1>1, <1>2, <2>1, <2>2, <2>3, LedgerMoves
<1>4. Reserved(rev, frames', slot')
  <2>1. \A i \in 1..(N - 1) :
          frames[i].state_gas + Held(rev, frames[i + 1].snapshot) = StateGasUnits * STORAGE_SET_STATE_GAS
    BY DEF StorageInv, Reserved
  <2>2. frames[N].state_gas + Held(rev, slot) = StateGasUnits * STORAGE_SET_STATE_GAS
    BY DEF StorageInv, Reserved
  <2>3. ASSUME NEW i \in 1..(N - 1) PROVE frames'[i + 1].snapshot = frames[i + 1].snapshot
    <3>1. i + 1 = N \/ i + 1 \in 1..(N - 1)
      BY <1>1
    <3> QED
      BY <1>1, <1>2, <3>1
  <2>4. frames'[N].state_gas + Held(rev, slot') = StateGasUnits * STORAGE_SET_STATE_GAS
    BY <1>1, <1>2, <2>2
  <2> QED
    BY <1>2, <2>1, <2>3, <2>4 DEF Reserved
<1> QED
  BY <1>2, <1>3, <1>4 DEF StorageInv

(* sload() keeps it: it costs nothing that a store would pay. *)
LEMMA SloadKeepsInv ==
    ASSUME StorageInv, Sload
    PROVE  StorageInv'
<1> DEFINE gas == Top.gas_left - ADDITIONAL_COLD_STORAGE_ACCESS
<1>1. /\ frames # <<>> /\ UNCHANGED rev /\ rev >= BERLIN /\ slot.access = "cold"
      /\ slot \in Slots /\ Top \in Frames /\ frames \in Seq(Frames)
  BY LastFrame DEF StorageInv, Sload, IsCold, Top
<1>2. CASE gas < 0
  BY <1>1, <1>2, FailKeepsInv DEF Sload
<1>3. CASE ~(gas < 0)
  <2> DEFINE x == [Top EXCEPT !.gas_left = gas]
             c == StorageCostSpec(rev)
  <2>1. slot' = [slot EXCEPT !.access = "sload"] /\ frames' = [frames EXCEPT ![Len(frames)] = x]
    BY <1>1, <1>3 DEF Sload, Top
  <2>2. gas \in Int
    BY <1>1 DEF Frames, ADDITIONAL_COLD_STORAGE_ACCESS, COLD_STORAGE_ACCESS, WARM_ACCESS
  <2>3. /\ x \in Frames /\ x.snapshot = Top.snapshot /\ x.state_gas = Top.state_gas
        /\ Spends(x) = Spends(Top)
    BY <1>1, <2>2 DEF Frames, Spends
  <2>4. Nothing \in Ledger /\ Spends(x) = Plus(Spends(Top), Nothing)
    BY <1>1, <2>3, SpendsType, PlusNothing DEF Nothing, Ledger
  <2>5. slot' \in Slots /\ Held(rev, slot') = Held(rev, slot)
    BY <1>1, <2>1 DEF Slots, Held
  <2>6. ASSUME NEW a \in Ledger, Settled(c, a, slot) PROVE Settled(c, Plus(a, Nothing), slot')
    <3>1. Plus(a, Nothing) = a
      BY PlusNothing
    <3>2. /\ ColdPaid(c, slot') = ColdPaid(c, slot) /\ Change(c, slot') = Change(c, slot)
          /\ Cleared(c, slot') = Cleared(c, slot)
      BY <1>1, <2>1 DEF Slots, ColdPaid, Change, Cleared
    <3> HIDE DEF c
    <3> QED
      BY <2>6, <3>1, <3>2 DEF Settled
  <2> HIDE DEF x
  <2> QED
    BY <1>1, <2>1, <2>3, <2>4, <2>5, <2>6, MoveKeepsInv
<1> QED
  BY <1>2, <1>3

(* sstore() keeps it, whether the call fails or goes on. *)
LEMMA SstoreKeepsInv ==
    ASSUME StorageInv, NEW value \in Words, Sstore(value)
    PROVE  StorageInv'
<1> DEFINE st == SetStorageStatus(slot.original, slot.current, value)
           costs == SstoreCosts(rev, st)
           gas_cost == costs.gas_cost + (IF IsCold THEN StorageCostSpec(rev).cold ELSE 0)
           state_gas == Top.state_gas +
               (IF rev < AMSTERDAM THEN 0
                ELSE IF st = "ADDED_DELETED" THEN STORAGE_SET_STATE_GAS
                ELSE IF st = "ADDED" THEN -STORAGE_SET_STATE_GAS ELSE 0)
           fails == \/ Top.static
                    \/ rev >= ISTANBUL /\ Top.gas_left <= CALL_STIPEND
                    \/ Top.gas_left < gas_cost
                    \/ state_gas < 0
           d == PriceOf(rev, slot, value)
<1>1. /\ frames # <<>> /\ UNCHANGED rev /\ rev \in CostRevisions /\ rev \in Revisions
      /\ slot \in Slots /\ Top \in Frames /\ frames \in Seq(Frames)
  BY StorageAssumption, LastFrame DEF StorageInv, Sstore, Top
<1>2. CASE fails
  BY <1>1, <1>2, FailKeepsInv DEF Sstore
<1>3. CASE ~fails
  <2> DEFINE x == [Top EXCEPT !.gas_left = @ - gas_cost, !.state_gas = state_gas,
                              !.gas_refund = @ + costs.gas_refund, !.stores = @ + 1,
                              !.spent = @ + gas_cost]
             c == StorageCostSpec(rev)
  <2>1. /\ slot' = [slot EXCEPT !.current = value, !.access = IF IsCold THEN "sstore" ELSE @]
        /\ frames' = [frames EXCEPT ![Len(frames)].gas_left = @ - gas_cost,
                                    ![Len(frames)].state_gas = state_gas,
                                    ![Len(frames)].gas_refund = @ + costs.gas_refund,
                                    ![Len(frames)].stores = @ + 1,
                                    ![Len(frames)].spent = @ + gas_cost]
    BY <1>3 DEF Sstore
  <2>2. slot' = Stored(rev, slot, value)
    BY <1>1, <2>1 DEF Stored, IsCold
  <2>3. d = [refund |-> costs.gas_refund, spent |-> gas_cost, stores |-> 1]
    BY DEF PriceOf, Price, IsCold
  <2>4. StoreSettled(rev, slot, value)
    BY <1>1, StoreSettles
  <2>5. d \in Ledger /\ slot' \in Slots
    BY <2>2, <2>4 DEF StoreSettled
  <2>6. costs.gas_refund \in Int /\ gas_cost \in Int
    BY <2>3, <2>5 DEF Ledger
  <2>7. slot'.original = slot.original /\ slot'.current = value
    BY <1>1, <2>1 DEF Slots
  <2> HIDE DEF costs, gas_cost, d, fails
  <2>8. state_gas = Top.state_gas + (Held(rev, slot) - Held(rev, slot'))
    <3>1. rev \in Int
      BY <1>1 DEF Revisions, FRONTIER, AMSTERDAM
    <3> QED
      BY <2>7, <3>1, StateGasOfStore
  <2> HIDE DEF state_gas, st
  <2>9. Top.state_gas \in Int /\ Held(rev, slot) \in Int /\ Held(rev, slot') \in Int
    BY <1>1, HeldType DEF Frames
  <2>10. state_gas \in Int
    BY <2>8, <2>9
  <2>11. frames' = [frames EXCEPT ![Len(frames)] = x]
    BY <1>1, <2>1 DEF Top
  <2>12. /\ x \in Frames /\ x.snapshot = Top.snapshot /\ x.state_gas = state_gas
         /\ Spends(x) = Plus(Spends(Top), d)
    <3>1. /\ Top.gas_left - gas_cost \in Int /\ Top.gas_refund + costs.gas_refund \in Int
          /\ Top.stores + 1 \in Int /\ Top.spent + gas_cost \in Int
      BY <1>1, <2>6, FrameFields
    <3>4. x \in Frames
      BY <1>1, <3>1, <2>10 DEF Frames
    <3>2. x.snapshot = Top.snapshot /\ x.state_gas = state_gas
      BY <1>1 DEF Frames
    <3>3. /\ x.gas_refund = Top.gas_refund + costs.gas_refund
          /\ x.spent = Top.spent + gas_cost /\ x.stores = Top.stores + 1
      BY <1>1 DEF Frames
    <3> HIDE DEF x
    <3> QED
      BY <2>3, <3>2, <3>3, <3>4 DEF Spends, Plus
  <2>13. x.state_gas + Held(rev, slot') = Top.state_gas + Held(rev, slot)
    BY <2>8, <2>9, <2>12
  <2>14. \A a \in Ledger : Settled(c, a, slot) => Settled(c, Plus(a, d), slot')
    BY <2>2, <2>4 DEF StoreSettled, d
  <2> HIDE DEF x
  <2> QED
    BY <1>1, <2>5, <2>11, <2>12, <2>13, <2>14, MoveKeepsInv
<1> QED
  BY <1>2, <1>3

(* A call keeps it: it begins with the slot and the state gas of its caller, *)
LEMMA CallKeepsInv ==
    ASSUME StorageInv, NEW gas \in CallGas, NEW static \in BOOLEAN, StorageCall(gas, static)
    PROVE  StorageInv'
<1> DEFINE N == Len(frames)
           c == StorageCostSpec(rev)
           x == [Top EXCEPT !.gas_left = @ - gas]
           f == NewFrame(gas, Top.state_gas, static \/ Top.static)
           mid == [frames EXCEPT ![N] = x]
<1>1. /\ frames # <<>> /\ UNCHANGED <<rev, slot>> /\ gas \in Int
      /\ slot \in Slots /\ Top \in Frames /\ frames \in Seq(Frames)
      /\ N \in Nat /\ N # 0 /\ Top = frames[N] /\ Accounted(c, frames, slot)
  BY StorageAssumption, LastFrame DEF StorageInv, StorageCall, Top
<1>2. frames' = Append(mid, f)
  BY <1>1 DEF StorageCall, Top
<1>3. /\ x \in Frames /\ x.snapshot = Top.snapshot /\ x.state_gas = Top.state_gas
      /\ Spends(x) = Spends(Top)
  <2>1. Top.gas_left - gas \in Int
    BY <1>1 DEF Frames
  <2> QED
    BY <1>1, <2>1 DEF Frames, Spends
<1>4. /\ f \in Frames /\ f.snapshot = slot /\ f.state_gas = Top.state_gas /\ Spends(f) = Nothing
  BY <1>1 DEF NewFrame, Frames, Spends, Nothing
<1> HIDE DEF x, f
<1>5. /\ mid \in Seq(Frames) /\ Len(mid) = N /\ mid[N] = x
      /\ \A i \in 1..(N - 1) : mid[i] = frames[i]
  BY <1>1, <1>3, LastChanged
<1> HIDE DEF mid
<1>6. /\ frames' \in Seq(Frames) /\ Len(frames') = N + 1 /\ frames'[N + 1] = f
      /\ \A i \in 1..N : frames'[i] = mid[i]
  BY <1>2, <1>4, <1>5
<1>7. \A i \in 1..N : i = N \/ i \in 1..(N - 1)
  BY <1>1
<1>8. \A i \in 1..N : /\ frames'[i].snapshot = frames[i].snapshot
                      /\ frames'[i].state_gas = frames[i].state_gas
                      /\ Spends(frames'[i]) = Spends(frames[i])
  BY <1>1, <1>3, <1>5, <1>6, <1>7
<1>9. Alike(frames', frames, N)
  BY <1>8 DEF Alike
<1>10. Accounted(c, frames', slot')
  <2> HIDE DEF c, N
  <2>1. N = Len(frames)
    BY DEF N
  <2> QED
    BY <1>1, <1>4, <1>6, <1>9, <2>1, LedgerCalls
<1>11. Reserved(rev, frames', slot')
  <2>1. \A i \in 1..(N - 1) :
          frames[i].state_gas + Held(rev, frames[i + 1].snapshot) = StateGasUnits * STORAGE_SET_STATE_GAS
    BY DEF StorageInv, Reserved
  <2>2. frames[N].state_gas + Held(rev, slot) = StateGasUnits * STORAGE_SET_STATE_GAS
    BY <1>1 DEF StorageInv, Reserved
  <2>3. ASSUME NEW i \in 1..N
        PROVE  frames'[i].state_gas + Held(rev, frames'[i + 1].snapshot) = StateGasUnits * STORAGE_SET_STATE_GAS
    <3>1. CASE i = N
      BY <1>1, <1>4, <1>6, <1>8, <2>2, <3>1
    <3>2. CASE i \in 1..(N - 1)
      <4>1. i + 1 \in 1..N
        BY <1>1, <3>2
      <4> QED
        BY <1>8, <2>1, <3>2, <4>1
    <3> QED
      BY <1>7, <3>1, <3>2
  <2>4. frames'[N + 1].state_gas + Held(rev, slot) = StateGasUnits * STORAGE_SET_STATE_GAS
    BY <1>1, <1>4, <1>6, <2>2
  <2>5. (N + 1) - 1 = N
    BY <1>1
  <2> QED
    BY <1>1, <1>6, <2>3, <2>4, <2>5 DEF Reserved
<1> QED
  BY <1>1, <1>6, <1>10, <1>11 DEF StorageInv, StorageCall

(* and so does its return, with which the caller takes over what it has spent. *)
LEMMA ReturnKeepsInv ==
    ASSUME StorageInv, StorageReturn
    PROVE  StorageInv'
<1> DEFINE N == Len(frames)
           c == StorageCostSpec(rev)
           low == Rest[Len(Rest)]
           x == [low EXCEPT !.gas_left = @ + Top.gas_left, !.gas_refund = @ + Top.gas_refund,
                            !.state_gas = Top.state_gas, !.stores = @ + Top.stores,
                            !.spent = @ + Top.spent]
<1>1. /\ frames # <<>> /\ UNCHANGED <<rev, slot>> /\ N \in Nat /\ N > 1
      /\ slot \in Slots /\ Top \in Frames /\ frames \in Seq(Frames)
      /\ Top = frames[N] /\ Accounted(c, frames, slot)
  BY LastFrame DEF StorageInv, StorageReturn, Top
<1>2. /\ Rest \in Seq(Frames) /\ Len(Rest) = N - 1
      /\ \A i \in 1..(N - 1) : Rest[i] = frames[i]
  <2>1. 1 \in 1..(N + 1) /\ N - 1 \in 0..N /\ (N - 1) - 1 + 1 = N - 1
    BY <1>1
  <2>2. Rest = SubSeq(frames, 1, N - 1)
    BY DEF Rest
  <2> QED
    BY <1>1, <2>1, <2>2
<1>3. Rest # <<>> /\ low \in Frames /\ low = frames[N - 1]
  BY <1>1, <1>2
<1>4. frames' = [Rest EXCEPT ![Len(Rest)] = x]
  BY <1>2, <1>3 DEF StorageReturn
<1>5. /\ x \in Frames /\ x.snapshot = low.snapshot /\ x.state_gas = Top.state_gas
      /\ Spends(x) = Plus(Spends(low), Spends(Top))
  <2> HIDE DEF low
  <2>3. /\ low.gas_left + Top.gas_left \in Int /\ low.gas_refund + Top.gas_refund \in Int
        /\ low.stores + Top.stores \in Int /\ low.spent + Top.spent \in Int
        /\ Top.state_gas \in Int
    BY <1>1, <1>3, FrameFields
  <2>1. x \in Frames
    BY <1>3, <2>3 DEF Frames
  <2>2. /\ x.snapshot = low.snapshot /\ x.state_gas = Top.state_gas
        /\ x.gas_refund = low.gas_refund + Top.gas_refund
        /\ x.spent = low.spent + Top.spent /\ x.stores = low.stores + Top.stores
    BY <1>3 DEF Frames
  <2> HIDE DEF x
  <2> QED
    BY <2>1, <2>2 DEF Spends, Plus
<1> HIDE DEF x, low
<1>6. /\ frames' \in Seq(Frames) /\ Len(frames') = N - 1 /\ frames'[N - 1] = x
      /\ \A i \in 1..(N - 2) : frames'[i] = frames[i]
  <2>1. /\ frames' \in Seq(Frames) /\ Len(frames') = Len(Rest) /\ frames'[Len(Rest)] = x
        /\ \A i \in 1..(Len(Rest) - 1) : frames'[i] = Rest[i]
    BY <1>2, <1>3, <1>4, <1>5, LastChanged
  <2>2. (N - 1) - 1 = N - 2 /\ \A i \in 1..(N - 2) : i \in 1..(N - 1)
    BY <1>1
  <2> QED
    BY <1>1, <1>2, <2>1, <2>2
<1>7. Alike(frames', frames, N - 2)
  BY <1>6 DEF Alike
<1>8. Accounted(c, frames', slot')
  <2> HIDE DEF c, N
  <2>1. N = Len(frames)
    BY DEF N
  <2> QED
    BY <1>1, <1>3, <1>5, <1>6, <1>7, <2>1, LedgerReturns
<1>9. Reserved(rev, frames', slot')
  <2>1. \A i \in 1..(N - 1) :
          frames[i].state_gas + Held(rev, frames[i + 1].snapshot) = StateGasUnits * STORAGE_SET_STATE_GAS
    BY DEF StorageInv, Reserved
  <2>2. frames[N].state_gas + Held(rev, slot) = StateGasUnits * STORAGE_SET_STATE_GAS
    BY <1>1 DEF StorageInv, Reserved
  <2>3. ASSUME NEW i \in 1..(N - 2)
        PROVE  frames'[i].state_gas + Held(rev, frames'[i + 1].snapshot) = StateGasUnits * STORAGE_SET_STATE_GAS
    <3>1. i \in 1..(N - 1) /\ (i + 1 = N - 1 \/ i + 1 \in 1..(N - 2))
      BY <1>1
    <3>2. frames'[i + 1].snapshot = frames[i + 1].snapshot
      BY <1>3, <1>5, <1>6, <3>1
    <3> QED
      BY <1>6, <2>1, <3>1, <3>2
  <2>4. frames'[N - 1].state_gas + Held(rev, slot) = StateGasUnits * STORAGE_SET_STATE_GAS
    BY <1>1, <1>5, <1>6, <2>2
  <2>5. (N - 1) - 1 = N - 2
    BY <1>1
  <2> QED
    BY <1>1, <1>6, <2>3, <2>4, <2>5 DEF Reserved
<1> QED
  BY <1>1, <1>6, <1>8, <1>9 DEF StorageInv

(* No step breaks the invariant. *)
LEMMA NextKeepsInv ==
    ASSUME StorageInv, [StorageNext]_storageVars
    PROVE  StorageInv'
<1>1. CASE Sload
  BY <1>1, SloadKeepsInv
<1>2. ASSUME NEW value \in Words, Sstore(value) PROVE StorageInv'
  BY <1>2, SstoreKeepsInv
<1>3. ASSUME NEW gas \in CallGas, NEW static \in BOOLEAN, StorageCall(gas, static)
      PROVE  StorageInv'
  BY <1>3, CallKeepsInv
<1>4. CASE StorageReturn
  BY <1>4, ReturnKeepsInv
<1>5. CASE StorageRevert
  <2>1. frames # <<>> /\ Top.gas_left \in Int
    <3>1. frames # <<>> /\ frames \in Seq(Frames)
      BY <1>5 DEF StorageRevert, StorageInv
    <3>2. Top \in Frames
      BY <3>1, LastFrame DEF Top
    <3> QED
      BY <3>1, <3>2 DEF Frames
  <2> QED
    BY <1>5, <2>1, FailKeepsInv DEF StorageRevert
<1>6. CASE UNCHANGED storageVars
  BY <1>6 DEF storageVars, StorageInv
<1> QED
  BY <1>1, <1>2, <1>3, <1>4, <1>5, <1>6 DEF StorageNext

-----------------------------------------------------------------------------
(* What the invariant says of the property. *)

(* The fields that Total() takes. *)
LEMMA Fields ==
    \A f \in Frames : /\ f["gas_refund"] = Spends(f).refund
                      /\ f["spent"] = Spends(f).spent /\ f["stores"] = Spends(f).stores
  BY DEF Frames, Spends

(* The totals are the last entry of the ledger. *)
LEMMA TotalIsLast ==
    ASSUME frames \in Seq(Frames), NEW acc, Ledgers(acc, frames)
    PROVE  /\ Total("gas_refund") = acc[Len(frames)].refund
           /\ Total("spent") = acc[Len(frames)].spent
           /\ Total("stores") = acc[Len(frames)].stores
<1> DEFINE N == Len(frames)
<1>1. /\ N \in Nat /\ DOMAIN frames = 1..N
      /\ \A i \in 1..N : frames[i] \in Frames
  OBVIOUS
<1>2. /\ acc \in [0..N -> Ledger] /\ acc[0] = Nothing
      /\ \A i \in 1..N : acc[i] = Plus(acc[i - 1], Spends(frames[i])) /\ acc[i - 1] \in Ledger
                         /\ Spends(frames[i]) \in Ledger
  BY <1>1, SpendsType DEF Ledgers
<1> HIDE DEF N
<1>6. \A i \in 1..N : /\ acc[i].refund = acc[i - 1].refund + Spends(frames[i]).refund
                      /\ acc[i].spent = acc[i - 1].spent + Spends(frames[i]).spent
                      /\ acc[i].stores = acc[i - 1].stores + Spends(frames[i]).stores
  <2>1. ASSUME NEW i \in 1..N
        PROVE  /\ acc[i].refund = acc[i - 1].refund + Spends(frames[i]).refund
               /\ acc[i].spent = acc[i - 1].spent + Spends(frames[i]).spent
               /\ acc[i].stores = acc[i - 1].stores + Spends(frames[i]).stores
    <3>1. acc[i] = Plus(acc[i - 1], Spends(frames[i]))
      BY <1>2
    <3>2. /\ Plus(acc[i - 1], Spends(frames[i])).refund
                = acc[i - 1].refund + Spends(frames[i]).refund
          /\ Plus(acc[i - 1], Spends(frames[i])).spent
                = acc[i - 1].spent + Spends(frames[i]).spent
          /\ Plus(acc[i - 1], Spends(frames[i])).stores
                = acc[i - 1].stores + Spends(frames[i]).stores
      BY DEF Plus
    <3> QED
      BY <3>1, <3>2
  <2> QED
    BY <2>1
<1>7. \A i \in 1..N : i \in 0..N /\ i - 1 \in 0..N
  BY <1>1
<1>3. Total("gas_refund") = acc[N].refund
  <2> DEFINE w == [i \in 1..N |-> frames[i]["gas_refund"]]
             L == [i \in 0..N |-> acc[i].refund]
  <2>1. Total("gas_refund") = Sums(w, 1..N)[1..N]
    BY <1>1, TotalIsSum
  <2>2. w \in [1..N -> Int] /\ \A i \in 1..N : w[i] = Spends(frames[i]).refund
    BY <1>1, <1>2, Fields DEF Ledger
  <2>3. L \in [0..N -> Int] /\ L[0] = 0 /\ L[N] = acc[N].refund
    BY <1>1, <1>2 DEF Ledger, Nothing
  <2>4. \A i \in 1..N : L[i] = L[i - 1] + w[i]
    BY <1>6, <1>7, <2>2
  <2> HIDE DEF w, L
  <2> QED
    BY <1>1, <2>1, <2>2, <2>3, <2>4, SumIsLast
<1>4. Total("spent") = acc[N].spent
  <2> DEFINE w == [i \in 1..N |-> frames[i]["spent"]]
             L == [i \in 0..N |-> acc[i].spent]
  <2>1. Total("spent") = Sums(w, 1..N)[1..N]
    BY <1>1, TotalIsSum
  <2>2. w \in [1..N -> Int] /\ \A i \in 1..N : w[i] = Spends(frames[i]).spent
    BY <1>1, <1>2, Fields DEF Ledger
  <2>3. L \in [0..N -> Int] /\ L[0] = 0 /\ L[N] = acc[N].spent
    BY <1>1, <1>2 DEF Ledger, Nothing
  <2>4. \A i \in 1..N : L[i] = L[i - 1] + w[i]
    BY <1>6, <1>7, <2>2
  <2> HIDE DEF w, L
  <2> QED
    BY <1>1, <2>1, <2>2, <2>3, <2>4, SumIsLast
<1>5. Total("stores") = acc[N].stores
  <2> DEFINE w == [i \in 1..N |-> frames[i]["stores"]]
             L == [i \in 0..N |-> acc[i].stores]
  <2>1. Total("stores") = Sums(w, 1..N)[1..N]
    BY <1>1, TotalIsSum
  <2>2. w \in [1..N -> Int] /\ \A i \in 1..N : w[i] = Spends(frames[i]).stores
    BY <1>1, <1>2, Fields DEF Ledger
  <2>3. L \in [0..N -> Int] /\ L[0] = 0 /\ L[N] = acc[N].stores
    BY <1>1, <1>2 DEF Ledger, Nothing
  <2>4. \A i \in 1..N : L[i] = L[i - 1] + w[i]
    BY <1>6, <1>7, <2>2
  <2> HIDE DEF w, L
  <2> QED
    BY <1>1, <2>1, <2>2, <2>3, <2>4, SumIsLast
<1> QED
  BY <1>3, <1>4, <1>5 DEF N

(* The last entry is settled for the slot: that is the property. *)
LEMMA InvIsNetCost == StorageInv => SstoreNetCost
<1> SUFFICES ASSUME StorageInv PROVE SstoreNetCost
  OBVIOUS
<1> DEFINE c == StorageCostSpec(rev)
           N == Len(frames)
<1>1. rev \in Revisions /\ frames \in Seq(Frames) /\ IsSchedule(rev, c)
  BY StorageAssumption, SchedulesOK DEF StorageInv
<1>2. PICK acc : Ledgers(acc, frames) /\ SettledBy(acc, c, frames, slot)
  BY DEF StorageInv, Accounted
<1>3. /\ Total("gas_refund") = acc[N].refund /\ Total("spent") = acc[N].spent
      /\ Total("stores") = acc[N].stores
  BY <1>1, <1>2, TotalIsLast
<1>4. ASSUME frames # <<>>
      PROVE  /\ Total("gas_refund") >= 0
             /\ c.net_cost =>
                  Total("spent") - Total("gas_refund")
                    = Total("stores") * c.warm_access + ColdPaid(c, slot) + Change(c, slot) - Cleared(c, slot)
             /\ Top.state_gas + Held(rev, slot) = StateGasUnits * STORAGE_SET_STATE_GAS
  <2>1. Settled(c, acc[N], slot)
    BY <1>2, <1>4 DEF SettledBy
  <2>2. c.net_cost = TRUE \/ c.net_cost = FALSE
    BY <1>1 DEF IsSchedule, NetSchedule, LegacySchedule
  <2>3. Top.state_gas + Held(rev, slot) = StateGasUnits * STORAGE_SET_STATE_GAS
    BY <1>4 DEF StorageInv, Reserved, Top
  <2> HIDE DEF c
  <2> QED
    BY <1>3, <2>1, <2>2, <2>3 DEF Settled
<1>5. ASSUME NEW v \in Words
      PROVE  /\ SetStorageStatus(slot.original, slot.current, v)
                   = MockedStatus(slot.original, slot.current, v)
             /\ ~c.net_cost =>
                  SstoreCosts(rev, SetStorageStatus(slot.original, slot.current, v))
                    = [gas_cost |-> IF slot.current = 0 /\ v # 0 THEN 20000 ELSE 5000,
                       gas_refund |-> IF slot.current # 0 /\ v = 0 THEN 15000 ELSE 0]
  <2>1. ASSUME ~c.net_cost PROVE LegacySchedule(c)
    BY <1>1, <2>1 DEF IsSchedule, NetSchedule
  <2> QED
    BY <2>1, HostsAgree, LegacyPrices DEF SstoreCosts
<1> HIDE DEF c
<1>6. c = StorageCostSpec(rev)
  BY DEF c
<1> QED
  BY <1>4, <1>5, <1>6 DEF SstoreNetCost, Held, ColdPaid, Change, Cleared

(* For every sequence of calls, loads and stores of StorageSpec: what the   *)
(* stores of sstore() that stay have cost, less their refunds, is what the  *)
(* change of the slot is worth, the refund counter is not negative, and     *)
(* state gas is held exactly for a new slot.                                *)
THEOREM NetCosting == StorageSpec => []SstoreNetCost
<1>1. StorageInit => StorageInv
  BY InitStorageInv
<1>2. StorageInv /\ [StorageNext]_storageVars => StorageInv'
  BY NextKeepsInv
<1>3. StorageInv => SstoreNetCost
  BY InvIsNetCost
<1> QED
  BY <1>1, <1>2, <1>3, PTL DEF StorageSpec
=============================================================================
