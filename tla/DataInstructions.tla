-------------------------- MODULE DataInstructions --------------------------
(***************************************************************************)
(* The instructions of lib/evmone/instructions.hpp that move data between  *)
(* the memory, the inputs of the execution and the outside.  The operands  *)
(* are words of the stack, far larger than what a size_t holds; a size_t   *)
(* is larger than any buffer.                                              *)
(***************************************************************************)
EXTENDS Integers, Sequences

CONSTANTS
    WordValues,         \* 2^256
    SizeValues,         \* 2^64, the values of size_t
    BufferLimit,        \* max_buffer_size, 2^32 - 1
    ByteValues,         \* 2^8
    WordBytes,          \* word_size, 32
    DataGas,            \* the gas of the execution
    ColdAccountCost,    \* additional_cold_account_access()
    Inputs,             \* input, code, ext_code and return_data: sequences of bytes
    DataOffsets, DataSizes, \* the operands
    MaxInstrs           \* the instructions of an execution

NumWordsOf(size) == (size + (WordBytes - 1)) \div WordBytes
MemoryCost(words) == 3 * words + (words * words) \div 2

(* No execution has the gas for more than the largest buffer.              *)
ASSUME DataAssumption ==
    /\ BufferLimit < SizeValues /\ SizeValues < WordValues
    /\ ByteValues ^ WordBytes = WordValues
    /\ DataGas < MemoryCost(NumWordsOf(BufferLimit + 1))
    /\ ColdAccountCost \in Nat
    /\ DataOffsets \subseteq 0..(WordValues - 1) /\ DataSizes \subseteq 0..(WordValues - 1)

VARIABLES
    exec,       \* gas_left, memory, status, static, out: what was read or emitted,
                \* and warm: the account of ext_code has been accessed
    instr       \* the last instruction, with its operands

dataVars == <<exec, instr>>

-----------------------------------------------------------------------------
SizeT(x) == x % SizeValues
Fail(e, status) == [e EXCEPT !.status = status]
Ok(e) == e.status = "SUCCESS"
ChargeGas(e, cost) ==
    IF e.gas_left < cost THEN Fail(e, "OUT_OF_GAS") ELSE [e EXCEPT !.gas_left = @ - cost]

CopyCost(size) == 3 * NumWordsOf(size)

OutOfBounds == <<-1>>

(* Bytes of a buffer, and storing them; beyond its end the code would read *)
(* or write what is not its own.                                           *)
Slice(data, index, size) ==
    IF size = 0 THEN <<>>
    ELSE IF index + size > Len(data) THEN OutOfBounds
    ELSE SubSeq(data, index + 1, index + size)

StoreBytes(e, index, bytes) ==
    IF bytes = <<>> THEN e
    ELSE IF bytes = OutOfBounds \/ index + Len(bytes) > Len(e.memory)
    THEN Fail(e, "OUT_OF_BOUNDS")
    ELSE [e EXCEPT !.memory = [i \in DOMAIN @ |->
                                 IF i \in (index + 1)..(index + Len(bytes)) THEN bytes[i - index] ELSE @[i]]]

Emit(e, bytes) ==
    IF bytes = OutOfBounds THEN Fail(e, "OUT_OF_BOUNDS") ELSE [e EXCEPT !.out = bytes]

Zeros(n) == [i \in 1..n |-> 0]
Least(x, y) == IF x < y THEN x ELSE y

(* check_memory(); the module Memory has its arithmetic.                   *)
CheckAccess(e, offset, size) ==
    LET words == NumWordsOf(offset + size)
        cost == MemoryCost(words) - MemoryCost(Len(e.memory) \div WordBytes)
        charged == ChargeGas(e, cost)
    IN  IF size = 0 THEN e
        ELSE IF size > BufferLimit \/ offset > BufferLimit THEN Fail(e, "OUT_OF_GAS")
        ELSE IF offset + size <= Len(e.memory) THEN e
        ELSE IF ~Ok(charged) THEN charged
        ELSE [charged EXCEPT !.memory = @ \o Zeros(words * WordBytes - Len(@))]

\* The memory of an access, and the cost of the instruction on top of it.
Access(e, offset, size, cost) ==
    LET c == CheckAccess(e, offset, size) IN IF Ok(c) THEN ChargeGas(c, cost) ELSE c

-----------------------------------------------------------------------------
BytesOf(word) == [i \in 1..WordBytes |-> (word \div ByteValues ^ (WordBytes - i)) % ByteValues]

CallDataLoad(e, index256) ==
    LET index == SizeT(index256)
        high == index256 \div SizeValues
        input_size == Len(Inputs.input)
    IN  IF high # 0 \/ index >= input_size THEN [e EXCEPT !.out = Zeros(WordBytes)]
        ELSE IF input_size - index >= WordBytes THEN Emit(e, Slice(Inputs.input, index, WordBytes))
        ELSE [e EXCEPT !.out = Slice(Inputs.input, index, input_size - index)
                                 \o Zeros(WordBytes - (input_size - index))]

(* CALLDATACOPY and CODECOPY.                                              *)
\* Wrong variant: the offset in the data is truncated, not clamped.
BugCopyInput(e, data, mem_index, input_index, size) ==
    LET src == SizeT(input_index)
        s == SizeT(size)
        copy_size == IF src >= Len(data) THEN 0 ELSE Least(s, Len(data) - src)
        charged == Access(e, mem_index, size, CopyCost(s))
    IN  IF ~Ok(charged) THEN charged
        ELSE StoreBytes(charged, SizeT(mem_index), Slice(data, src, copy_size) \o Zeros(s - copy_size))

CopyInput(e, data, mem_index, input_index, size) ==
    LET dst == SizeT(mem_index)
        src == IF Len(data) < input_index THEN Len(data) ELSE SizeT(input_index)
        s == SizeT(size)
        copy_size == Least(s, Len(data) - src)
        charged == Access(e, mem_index, size, CopyCost(s))
        copied == StoreBytes(charged, dst, Slice(data, src, copy_size))
    IN  IF ~Ok(charged) THEN charged
        ELSE IF s - copy_size > 0 THEN StoreBytes(copied, dst + copy_size, Zeros(s - copy_size))
        ELSE copied

CallDataCopy(e, dst, src, size) == CopyInput(e, Inputs.input, dst, src, size)
CodeCopy(e, dst, src, size) == CopyInput(e, Inputs.code, dst, src, size)

(* The first access of an account costs more; EXTCODESIZE, as BALANCE and  *)
(* EXTCODEHASH, does nothing else but reading.                             *)
AccessAccount(e) == IF e.warm THEN e ELSE ChargeGas([e EXCEPT !.warm = TRUE], ColdAccountCost)

ExtCodeSize(e) ==
    LET accessed == AccessAccount(e)
    IN  IF ~Ok(accessed) THEN accessed ELSE Emit(accessed, <<Len(Inputs.ext_code)>>)

(* copy_code() of the hosts.                                               *)
CopyCode(offset, size) ==
    LET code == Inputs.ext_code
        from == Least(offset, Len(code))
    IN  Slice(code, from, Least(size, Len(code) - from))

ExtCodeCopy(e, mem_index, input_index, size) ==
    LET s == SizeT(size)
        paid == Access(e, mem_index, size, CopyCost(s))
        charged == IF Ok(paid) THEN AccessAccount(paid) ELSE paid
        src == IF BufferLimit < input_index THEN BufferLimit ELSE SizeT(input_index)
        dst == SizeT(mem_index)
        code == CopyCode(src, s)
        cleared == s - Len(code)
        copied == StoreBytes(charged, dst, code)
    IN  IF ~Ok(charged) THEN charged
        ELSE IF cleared > 0 THEN StoreBytes(copied, dst + Len(code), Zeros(cleared))
        ELSE copied

ReturnDataCopy(e, mem_index, input_index, size) ==
    LET s == SizeT(size)
        src == SizeT(input_index)
        checked == CheckAccess(e, mem_index, size)
        charged == ChargeGas(checked, CopyCost(s))
    IN  IF ~Ok(checked) THEN checked
        ELSE IF Len(Inputs.return_data) < input_index THEN Fail(checked, "INVALID_MEMORY_ACCESS")
        ELSE IF SizeT(src + s) > Len(Inputs.return_data) THEN Fail(checked, "INVALID_MEMORY_ACCESS")
        ELSE IF ~Ok(charged) THEN charged
        ELSE StoreBytes(charged, SizeT(mem_index), Slice(Inputs.return_data, src, s))

MCopy(e, dst, src, size) ==
    LET charged == Access(e, IF dst < src THEN src ELSE dst, size, CopyCost(SizeT(size)))
    IN  IF ~Ok(charged) THEN charged
        ELSE StoreBytes(charged, SizeT(dst), Slice(charged.memory, SizeT(src), SizeT(size)))

MLoad(e, index) ==
    LET charged == CheckAccess(e, index, WordBytes)
    IN  IF ~Ok(charged) THEN charged ELSE Emit(charged, Slice(charged.memory, SizeT(index), WordBytes))

MStore(e, index, value) ==
    LET charged == CheckAccess(e, index, WordBytes)
    IN  IF ~Ok(charged) THEN charged ELSE StoreBytes(charged, SizeT(index), BytesOf(value))

MStore8(e, index, value) ==
    LET charged == CheckAccess(e, index, 1)
    IN  IF ~Ok(charged) THEN charged ELSE StoreBytes(charged, SizeT(index), <<value % ByteValues>>)

(* KECCAK256, LOG and RETURN: the bytes that are hashed or given out.      *)
Keccak256(e, index, size) ==
    LET charged == Access(e, index, size, 6 * NumWordsOf(SizeT(size)))
    IN  IF ~Ok(charged) THEN charged ELSE Emit(charged, Slice(charged.memory, SizeT(index), SizeT(size)))

Log(e, offset, size) ==
    LET charged == Access(e, offset, size, 8 * SizeT(size))
    IN  IF e.static THEN Fail(e, "STATIC_MODE_VIOLATION")
        ELSE IF ~Ok(charged) THEN charged
        ELSE Emit(charged, Slice(charged.memory, SizeT(offset), SizeT(size)))

Return(e, offset, size) ==
    LET checked == CheckAccess(e, offset, size)
    IN  IF ~Ok(checked) THEN checked
        ELSE Fail(Emit(checked, Slice(checked.memory, IF SizeT(size) # 0 THEN SizeT(offset) ELSE 0, SizeT(size))),
                  "RETURNED")

-----------------------------------------------------------------------------
DataInit ==
    /\ exec \in [gas_left : {DataGas}, memory : {<<>>}, status : {"SUCCESS"}, static : BOOLEAN, out : {<<>>},
                warm : {FALSE}]
    /\ instr = [n |-> 0, op |-> "none", dst |-> 0, src |-> 0, size |-> 0]

(* An instruction of the execution: its operands, and what it does.        *)
Execute(op, dst, src, size, result) ==
    /\ Ok(exec) /\ instr.n < MaxInstrs
    /\ exec' = result
    /\ instr' = [n |-> instr.n + 1, op |-> op, dst |-> dst, src |-> src, size |-> size]

DataNext ==
    \/ \E index \in DataOffsets : Execute("CALLDATALOAD", 0, index, WordBytes, CallDataLoad(exec, index))
    \/ \E dst, src \in DataOffsets, size \in DataSizes :
         \/ Execute("CALLDATACOPY", dst, src, size, CallDataCopy(exec, dst, src, size))
         \/ Execute("CODECOPY", dst, src, size, CodeCopy(exec, dst, src, size))
         \/ Execute("EXTCODECOPY", dst, src, size, ExtCodeCopy(exec, dst, src, size))
         \/ Execute("RETURNDATACOPY", dst, src, size, ReturnDataCopy(exec, dst, src, size))
         \/ Execute("MCOPY", dst, src, size, MCopy(exec, dst, src, size))
    \/ Execute("EXTCODESIZE", 0, 0, 0, ExtCodeSize(exec))
    \/ \E index \in DataOffsets : Execute("MLOAD", 0, index, WordBytes, MLoad(exec, index))
    \/ \E index, value \in DataOffsets : Execute("MSTORE", index, value, WordBytes, MStore(exec, index, value))
    \/ \E index, value \in DataOffsets : Execute("MSTORE8", index, value, 1, MStore8(exec, index, value))
    \/ \E index \in DataOffsets, size \in DataSizes :
         \/ Execute("KECCAK256", 0, index, size, Keccak256(exec, index, size))
         \/ Execute("LOG", 0, index, size, Log(exec, index, size))
         \/ Execute("RETURN", 0, index, size, Return(exec, index, size))

-----------------------------------------------------------------------------
ByteAt(data, k) == IF k < Len(data) THEN data[k + 1] ELSE 0

Reads == {"MLOAD", "KECCAK256", "LOG", "RETURN"}

(* Every instruction moves exactly the bytes that its operands name, as    *)
(* unbounded numbers: what lies beyond the end of an input is zeros, or    *)
(* ends RETURNDATACOPY; ranges may overlap; the memory grows to whole      *)
(* words of the range, zeros where nothing is stored, and all else in it   *)
(* stays.  An instruction fails exactly if its range is invalid or if its  *)
(* cost, which depends on the same numbers, is more than the gas left.  No *)
(* access leaves its buffer.                                               *)
DataMovesExact ==
    [][instr' # instr =>
        LET op == instr'.op
            dst == instr'.dst
            src == instr'.src
            size == instr'.size
            m == exec.memory
            data == CASE op \in {"CALLDATALOAD", "CALLDATACOPY"} -> Inputs.input
                      [] op = "CODECOPY" -> Inputs.code
                      [] op = "EXTCODECOPY" -> Inputs.ext_code
                      [] op = "RETURNDATACOPY" -> Inputs.return_data
                      [] OTHER -> m
            moved == [k \in 1..size |->
                        CASE op = "MSTORE" -> (src \div (IF k = 1 THEN ByteValues ELSE 1)) % ByteValues
                          [] op = "MSTORE8" -> src % ByteValues
                          [] OTHER -> ByteAt(data, src + k - 1)]
            offset == CASE op = "MCOPY" -> IF src < dst THEN dst ELSE src
                        [] op \in Reads -> src
                        [] OTHER -> dst
            end == IF size = 0 \/ op = "CALLDATALOAD" THEN 0 ELSE offset + size
            words == NumWordsOf(IF end < Len(m) THEN Len(m) ELSE end)
            cost == MemoryCost(words) - MemoryCost(NumWordsOf(Len(m)))
                      + (IF op \in {"EXTCODECOPY", "EXTCODESIZE"} /\ ~exec.warm THEN ColdAccountCost ELSE 0)
                      + CASE op = "KECCAK256" -> 6 * NumWordsOf(size)
                          [] op = "LOG" -> 8 * size
                          [] op \in {"CALLDATALOAD", "MLOAD", "MSTORE", "MSTORE8", "RETURN"} -> 0
                          [] OTHER -> 3 * NumWordsOf(size)
            fails == \/ cost > exec.gas_left
                     \/ op = "RETURNDATACOPY" /\ src + size > Len(data)
                     \/ op = "LOG" /\ exec.static
            given_out == op \in Reads \union {"CALLDATALOAD"}
        IN  IF fails THEN exec'.status \notin {"SUCCESS", "RETURNED", "OUT_OF_BOUNDS"}
            ELSE /\ exec'.status = IF op = "RETURN" THEN "RETURNED" ELSE "SUCCESS"
                 /\ exec'.gas_left = exec.gas_left - cost
                 /\ exec'.out = IF op = "EXTCODESIZE" THEN <<Len(Inputs.ext_code)>>
                                ELSE IF given_out THEN moved ELSE exec.out
                 /\ exec'.memory = [k \in 1..(words * WordBytes) |->
                                      IF ~given_out /\ k - 1 \in dst..(dst + size - 1) THEN moved[k - dst]
                                      ELSE ByteAt(m, k - 1)]]_dataVars
=============================================================================
