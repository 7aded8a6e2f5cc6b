------------------------------- MODULE Memory -------------------------------
(* The memory of an execution state and the gas it costs: class Memory of      *)
(* lib/evmone/execution_state.hpp, with grow_memory() and check_memory() of    *)
(* instructions.hpp. The object outlives an execution: the next one clears it  *)
(* and finds the bytes and the capacity of the last one.                       *)
EXTENDS Integers

CONSTANTS
    MaxBufferSize,  \* max_buffer_size, 2^32 - 1
    Wrap,           \* the values of uint32_t, 2^32
    Offsets, Sizes, \* the operands of memory accesses
    GasLimits       \* the gas an execution may start with

VARIABLES
    m_size, m_capacity,
    dirty,          \* the allocated words that may hold bytes other than zero
    written,        \* history: the words that this execution has stored to
    gas_limit,      \* the gas this execution has started with
    gas_left,
    status

memoryVars == <<m_size, m_capacity, dirty, written, gas_limit, gas_left, status>>

WordSize == 32
PageSize == 4 * 1024

NumWords(size) == (size + (WordSize - 1)) \div WordSize

(* The 32-bit arithmetic is wide enough for the cost of one more word, though  *)
(* not for the square of the number of words.                                  *)
ASSUME MemoryAssumption ==
    /\ MaxBufferSize \in Nat /\ Wrap \in Nat
    /\ Offsets \subseteq Nat /\ Sizes \subseteq Nat
    /\ GasLimits \subseteq Nat
    /\ Wrap % 512 = 0
    /\ 2 * NumWords(2 * MaxBufferSize) + 2048 < Wrap

WordsOf(from, to) == {w \in 0..(to \div WordSize) : from < (w + 1) * WordSize /\ w * WordSize < to}

-----------------------------------------------------------------------------
MemoryInit ==
    /\ m_size = 0 /\ m_capacity = PageSize
    /\ dirty = WordsOf(0, PageSize)
    /\ written = {}
    /\ gas_limit \in GasLimits /\ gas_left = gas_limit
    /\ status = "SUCCESS"

(* The capacity is doubled, or set to the size in whole pages. The bytes that  *)
(* realloc() adds are not initialized.                                         *)
BugGrowCapacity(new_size) == 2 * m_capacity
GrowCapacity(new_size) ==
    LET doubled == m_capacity * 2
    IN  IF doubled < new_size THEN ((new_size + (PageSize - 1)) \div PageSize) * PageSize
        ELSE doubled

(* Memory::grow(), without the bytes.                                          *)
Grow(new_size) ==
    /\ m_capacity' = IF new_size > m_capacity THEN GrowCapacity(new_size) ELSE m_capacity
    /\ m_size' = new_size

(* The bytes of an access: what realloc() adds may be anything, grow() fills   *)
(* the new extent with zeros, and then the instruction stores.                 *)
BugFill(stored) ==
    /\ dirty' = dirty \union WordsOf(m_capacity, m_capacity') \union stored
    /\ written' = written \union stored
Fill(stored) ==
    /\ dirty' = ((dirty \union WordsOf(m_capacity, m_capacity')) \ WordsOf(m_size, m_size'))
                    \union stored
    /\ written' = written \union stored

WordsCost(words) == 3 * words + (words * words) \div 512

(* One more word: in uint32_t, so the square may wrap around.                  *)
BugOneWordCost(n) == (((((n * n) % Wrap) % 512) + 2 * n + 3 * 512) % Wrap) \div 512
OneWordCost(n) == (((((n * n) % Wrap) % 512) + 2 * n + 1 + 3 * 512) % Wrap) \div 512

BugCharge(cost, new_size) ==
    gas_left' = gas_left - cost /\ Grow(new_size) /\ UNCHANGED status
Charge(cost, new_size) ==
    /\ gas_left' = gas_left - cost
    /\ IF gas_left' >= 0
       THEN Grow(new_size) /\ status' = "SUCCESS"
       ELSE status' = "OUT_OF_GAS" /\ UNCHANGED <<m_size, m_capacity>>

GrowMemoryGeneral(new_size) ==
    LET new_words == NumWords(new_size)
        current_words == m_size \div WordSize
    IN  Charge(WordsCost(new_words) - WordsCost(current_words), new_words * WordSize)

FitsOneWord(new_size) ==
    new_size <= m_size + WordSize /\ m_size + WordSize <= m_capacity

GrowMemory(new_size) ==
    IF FitsOneWord(new_size)
    THEN Charge(OneWordCost(m_size \div WordSize), m_size + WordSize)
    ELSE GrowMemoryGeneral(new_size)

(* The range is fine as it is, is too large for any gas, or needs growth.      *)
CheckMemory(offset, size) ==
    \/ /\ size = 0 \/ (size <= MaxBufferSize /\ offset <= MaxBufferSize /\ offset + size <= m_size)
       /\ UNCHANGED <<m_size, m_capacity, gas_left, status>>
    \/ /\ size # 0 /\ (size > MaxBufferSize \/ offset > MaxBufferSize)
       /\ status' = "OUT_OF_GAS"
       /\ UNCHANGED <<m_size, m_capacity, gas_left>>
    \/ /\ size # 0 /\ size <= MaxBufferSize /\ offset <= MaxBufferSize
       /\ offset + size > m_size
       /\ GrowMemory(offset + size)

(* An instruction that only reads, as MLOAD does.                              *)
Load(offset, size) ==
    /\ status = "SUCCESS"
    /\ CheckMemory(offset, size)
    /\ Fill({})
    /\ UNCHANGED gas_limit

(* MSTORE and MSTORE8 store if their check has passed.                         *)
Store(offset, size) ==
    /\ status = "SUCCESS"
    /\ CheckMemory(offset, size)
    /\ Fill(IF status' = "SUCCESS" THEN WordsOf(offset, offset + size) ELSE {})
    /\ UNCHANGED gas_limit

(* ExecutionState::reset(): the next execution at this depth.                  *)
Clear ==
    /\ m_size' = 0 /\ written' = {} /\ status' = "SUCCESS"
    /\ gas_limit' \in GasLimits /\ gas_left' = gas_limit'
    /\ UNCHANGED <<m_capacity, dirty>>

MemoryNext ==
    \/ \E offset \in Offsets, size \in Sizes : Load(offset, size)
    \/ \E offset \in Offsets, size \in {1, WordSize} : Store(offset, size)
    \/ Clear

MemorySpec == MemoryInit /\ [][MemoryNext]_memoryVars

-----------------------------------------------------------------------------
(* Sizes and words are natural numbers, and an execution that runs on has no   *)
(* negative gas: a growth it cannot pay for ends it.                           *)
TypeOK ==
    /\ m_size \in Nat /\ m_capacity \in Nat
    /\ dirty \subseteq Nat /\ written \subseteq Nat
    /\ gas_limit \in Nat /\ gas_left \in Int
    /\ status \in {"SUCCESS", "OUT_OF_GAS"}
    /\ status = "SUCCESS" => gas_left >= 0

(* However the memory has grown, word by word through the 32-bit shortcut or   *)
(* by any leaps, all growths together have cost what a memory of that size     *)
(* costs.                                                                      *)
CostIsExact ==
    status = "SUCCESS" => gas_limit - gas_left = WordsCost(m_size \div WordSize)

(* The memory is whole words, all of them allocated: the assertions of grow()  *)
(* and aligned_at(), and the bounds of every store.                            *)
InBounds ==
    /\ m_size % WordSize = 0 /\ m_size <= m_capacity
    /\ \A w \in written : (w + 1) * WordSize <= m_size

(* An execution reads zeros from what it has not written, whatever the last    *)
(* execution left in the buffer and whatever realloc() returned.               *)
FreshIsZero ==
    \A w \in dirty : w * WordSize < m_size => w \in written
=============================================================================
