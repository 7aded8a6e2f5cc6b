------------------------- MODULE InterpretersProofs -------------------------
(* The interpreters for all codes, costs and limits: what they leave unchecked *)
(* at execution is safe, by the requirements of whole blocks in the Advanced   *)
(* interpreter and by the padding of the code in the Baseline one.             *)
EXTENDS Interpreters, SequenceTheorems, WellFoundedInduction, TLAPS

-----------------------------------------------------------------------------
(* Sequences of any elements: stacks hold words, instructions hold arguments   *)
(* of several types, and none of these matters here.                           *)

IsSequence(s) == s \in Seq(Range(s))

LEMMA IsSequenceFacts ==
    ASSUME NEW s, IsSequence(s)
    PROVE  Len(s) \in Nat /\ DOMAIN s = 1..Len(s)
BY LenProperties DEF IsSequence

LEMMA SeqIsSequence ==
    ASSUME NEW S, NEW s \in Seq(S)
    PROVE  IsSequence(s)
<1>1. Len(s) \in Nat /\ DOMAIN s = 1..Len(s) /\ s \in [1..Len(s) -> S]
  BY LenProperties
<1>2. s \in [1..Len(s) -> Range(s)]
  BY <1>1 DEF Range
<1> QED
  BY <1>1, <1>2 DEF IsSequence

LEMMA InLarger ==
    ASSUME NEW s, IsSequence(s), NEW T, Range(s) \subseteq T
    PROVE  s \in Seq(T)
<1>1. Len(s) \in Nat /\ s \in [1..Len(s) -> Range(s)]
  BY LenProperties DEF IsSequence
<1>2. s \in [1..Len(s) -> T]
  BY <1>1
<1> QED
  BY <1>1, <1>2

LEMMA PushStack ==
    ASSUME NEW s, IsSequence(s), NEW x
    PROVE  IsSequence(<<x>> \o s) /\ Len(<<x>> \o s) = Len(s) + 1
<1> DEFINE T == Range(s) \union {x}
           one == <<x>>
<1>1. s \in Seq(T)
  BY InLarger
<1>2. one \in Seq(T) /\ Len(one) = 1
  OBVIOUS
<1> HIDE DEF T, one
<1>3. one \o s \in Seq(T) /\ Len(one \o s) = Len(one) + Len(s)
  BY <1>1, <1>2, ConcatProperties
<1>4. Len(s) \in Nat
  BY <1>1, LenProperties
<1>5. IsSequence(one \o s) /\ Len(one \o s) = Len(s) + 1
  <2>1. IsSequence(one \o s)
    BY <1>3, SeqIsSequence
  <2> QED
    BY <1>2, <1>3, <1>4, <2>1
<1> QED
  BY <1>5 DEF one

LEMMA PopStack ==
    ASSUME NEW s, IsSequence(s), NEW n \in Nat, n <= Len(s)
    PROVE  IsSequence(SubSeq(s, n + 1, Len(s))) /\ Len(SubSeq(s, n + 1, Len(s))) = Len(s) - n
<1> DEFINE t == SubSeq(s, n + 1, Len(s))
<1>1. Len(s) \in Nat /\ \A i \in 1..Len(s) : s[i] \in Range(s)
  BY LenProperties, ElementOfSeq DEF IsSequence
<1>2. \A i \in (n + 1)..Len(s) : s[i] \in Range(s)
  BY <1>1
<1>3. /\ t \in Seq(Range(s))
      /\ Len(t) = IF n + 1 <= Len(s) THEN Len(s) - (n + 1) + 1 ELSE 0
  BY <1>1, <1>2, SubSeqProperties
<1> HIDE DEF t
<1>4. IsSequence(t)
  BY <1>3, SeqIsSequence
<1>5. Len(t) = Len(s) - n
  BY <1>1, <1>3
<1> QED
  BY <1>4, <1>5 DEF t

\* Sequence t is s with x at its end, or with x in place of its item i.
IsAppended(s, x, t) ==
    /\ IsSequence(t) /\ Len(t) = Len(s) + 1 /\ t[Len(s) + 1] = x
    /\ \A i \in 1..Len(s) : t[i] = s[i]

IsChanged(s, i, x, t) ==
    /\ IsSequence(t) /\ Len(t) = Len(s)
    /\ \A j \in 1..Len(s) : t[j] = IF j = i THEN x ELSE s[j]

LEMMA AppendOne ==
    ASSUME NEW s, IsSequence(s), NEW x, NEW t, t = Append(s, x)
    PROVE  IsAppended(s, x, t)
<1> DEFINE T == Range(s) \union {x}
<1>1. s \in Seq(T) /\ x \in T
  BY InLarger
<1> HIDE DEF T
<1>2. /\ t \in Seq(T) /\ Len(t) = Len(s) + 1 /\ t[Len(s) + 1] = x
      /\ \A i \in 1..Len(s) : t[i] = s[i]
  BY <1>1, AppendProperties
<1> QED
  BY <1>2, SeqIsSequence DEF IsAppended

LEMMA SetOne ==
    ASSUME NEW s, IsSequence(s), NEW i \in 1..Len(s), NEW x, NEW t, t = [s EXCEPT ![i] = x]
    PROVE  IsChanged(s, i, x, t)
<1> DEFINE T == Range(s) \union {x}
<1>1. s \in Seq(T) /\ x \in T
  BY InLarger
<1> HIDE DEF T
<1>2. /\ t \in Seq(T) /\ Len(t) = Len(s)
      /\ \A j \in 1..Len(s) : t[j] = IF j = i THEN x ELSE s[j]
  BY <1>1, ExceptSeq
<1> QED
  BY <1>2, SeqIsSequence DEF IsChanged

-----------------------------------------------------------------------------
(* Instructions. *)

IsFrame(f) ==
    f = [pc |-> f.pc, stack |-> f.stack, memory |-> f.memory, gas |-> f.gas,
         block_cost |-> f.block_cost, status |-> f.status]

LEMMA TraitsFacts ==
    ASSUME NEW op \in Opcodes
    PROVE  /\ Traits[op].required \in 0..2 /\ Traits[op].change \in -2..1
           /\ Traits[op].required + Traits[op].change >= 0
           /\ op \in {OP_JUMPDEST, OP_STOP} => Traits[op].required = 0 /\ Traits[op].change = 0
           /\ op = OP_JUMP => Traits[op].required = 1 /\ Traits[op].change = -1
           /\ op = OP_JUMPI => Traits[op].required = 2 /\ Traits[op].change = -2
           /\ op = OP_POP => Traits[op].required = 1 /\ Traits[op].change = -1
           /\ op = OP_MSTORE => Traits[op].required = 2 /\ Traits[op].change = -2
           /\ op = OP_CALL => Traits[op].required = 1 /\ Traits[op].change = 0
           /\ op = OP_DUP1 => Traits[op].required = 1 /\ Traits[op].change = 1
           /\ op \in {OP_PC, OP_GAS, OP_PUSH0, OP_PUSH1, OP_PUSH2, OP_DUPN} =>
                Traits[op].required = 0 /\ Traits[op].change = 1
           /\ op = OP_INVALID => Traits[op].required = 0 /\ Traits[op].change = 0
BY DEF Traits, Opcodes, OP_STOP, OP_POP, OP_MSTORE, OP_JUMP, OP_JUMPI, OP_PC, OP_GAS, OP_JUMPDEST,
       OP_PUSH0, OP_PUSH1, OP_PUSH2, OP_DUP1, OP_CALL, OP_DUPN, OP_INVALID

LEMMA PushSizeFacts ==
    /\ MaxPushSize = 2 /\ Padding = 3 /\ PushSize(OP_STOP) = 0 /\ OP_STOP \in Opcodes
    /\ \A op \in Opcodes : PushSize(op) \in 0..2
    /\ \A op \in Opcodes : ImmediateSize(op) \in 0..1 /\ (ImmediateSize(op) = 1 <=> op = OP_DUPN)
    /\ PushSize(OP_DUPN) = 0
BY DEF MaxPushSize, Padding, PushSize, ImmediateSize, Eip8024, Opcodes, OP_STOP, OP_PUSH1, OP_PUSH2,
       OP_DUPN, OP_INVALID

-----------------------------------------------------------------------------
(* The Baseline interpreter. *)

BaselineInv ==
    /\ code \in Seq(Opcodes)
    /\ scan \in Nat /\ jumpdest_bitset \subseteq Nat
    /\ IsFrame(baseline)
    /\ baseline.status = "RUNNING" => baseline.pc \in 0..(Len(code) + MaxPushSize)

LEMMA PaddedCodeFacts ==
    ASSUME code \in Seq(Opcodes)
    PROVE  /\ Len(code) \in Nat /\ Len(PaddedCode) = Len(code) + 3
           /\ \A i \in 0..(Len(code) + 2) :
                /\ PaddedCode[i + 1] \in Opcodes
                /\ i >= Len(code) => PaddedCode[i + 1] = OP_STOP
<1> DEFINE pad == [i \in 1..Padding |-> OP_STOP]
<1>1. Len(code) \in Nat
  BY LenProperties
<1>2. pad \in Seq(Opcodes) /\ Len(pad) = 3 /\ \A i \in 1..3 : pad[i] = OP_STOP
  BY PushSizeFacts
<1> HIDE DEF pad
<1>3. /\ PaddedCode \in Seq(Opcodes) /\ Len(PaddedCode) = Len(code) + 3
      /\ \A i \in 1..(Len(code) + Len(pad)) :
           PaddedCode[i] = IF i <= Len(code) THEN code[i] ELSE pad[i - Len(code)]
  <2>1. PaddedCode = code \o pad
    BY DEF PaddedCode, pad
  <2>2. /\ code \o pad \in Seq(Opcodes) /\ Len(code \o pad) = Len(code) + Len(pad)
        /\ \A i \in 1..(Len(code) + Len(pad)) :
             (code \o pad)[i] = IF i <= Len(code) THEN code[i] ELSE pad[i - Len(code)]
    BY <1>2, ConcatProperties
  <2> QED
    BY <1>2, <2>1, <2>2
<1> SUFFICES ASSUME NEW i \in 0..(Len(code) + 2)
             PROVE  /\ PaddedCode[i + 1] \in Opcodes
                    /\ i >= Len(code) => PaddedCode[i + 1] = OP_STOP
  BY <1>1, <1>3
<1>4. i + 1 \in 1..(Len(code) + 3)
  BY <1>1
<1>5. PaddedCode[i + 1] \in Opcodes
  BY <1>3, <1>4, ElementOfSeq
<1>6. ASSUME i >= Len(code)
      PROVE  PaddedCode[i + 1] = OP_STOP
  <2>1. i + 1 \in 1..(Len(code) + Len(pad)) /\ ~(i + 1 <= Len(code)) /\ (i + 1) - Len(code) \in 1..3
    BY <1>1, <1>2, <1>4, <1>6
  <2> QED
    BY <1>2, <1>3, <2>1
<1> QED
  BY <1>5, <1>6

\* The effects of the helpers, field by field.
LEMMA WithStack ==
    ASSUME NEW f, IsFrame(f), NEW s, NEW g, g = [f EXCEPT !.stack = s]
    PROVE  IsFrame(g) /\ g.pc = f.pc /\ g.status = f.status /\ g.stack = s
BY DEF IsFrame

LEMMA WithGas ==
    ASSUME NEW f, IsFrame(f), NEW x, NEW g, g = [f EXCEPT !.gas = x]
    PROVE  IsFrame(g) /\ g.pc = f.pc /\ g.status = f.status /\ g.stack = f.stack
BY DEF IsFrame

LEMMA WithPc ==
    ASSUME NEW f, IsFrame(f), NEW i, NEW g, g = [f EXCEPT !.pc = i]
    PROVE  IsFrame(g) /\ g.pc = i /\ g.status = f.status /\ g.stack = f.stack
BY DEF IsFrame

LEMMA PushFacts ==
    ASSUME NEW f, IsFrame(f), NEW x
    PROVE  /\ IsFrame(Push(f, x)) /\ Push(f, x).pc = f.pc /\ Push(f, x).status = f.status
           /\ Push(f, x).stack = <<x>> \o f.stack
<1> DEFINE s == <<x>> \o f.stack
<1>1. Push(f, x) = [f EXCEPT !.stack = s]
  BY DEF Push
<1> HIDE DEF s
<1>2. /\ IsFrame(Push(f, x)) /\ Push(f, x).pc = f.pc /\ Push(f, x).status = f.status
      /\ Push(f, x).stack = s
  BY <1>1, WithStack
<1> QED
  BY <1>2 DEF s

LEMMA PopFacts ==
    ASSUME NEW f, IsFrame(f), NEW n
    PROVE  /\ IsFrame(Pop(f, n)) /\ Pop(f, n).pc = f.pc /\ Pop(f, n).status = f.status
           /\ Pop(f, n).stack = SubSeq(f.stack, n + 1, Len(f.stack))
<1> DEFINE s == SubSeq(f.stack, n + 1, Len(f.stack))
<1>1. Pop(f, n) = [f EXCEPT !.stack = s]
  BY DEF Pop
<1> HIDE DEF s
<1>2. /\ IsFrame(Pop(f, n)) /\ Pop(f, n).pc = f.pc /\ Pop(f, n).status = f.status
      /\ Pop(f, n).stack = s
  BY <1>1, WithStack
<1> QED
  BY <1>2 DEF s

LEMMA ExitFacts ==
    ASSUME NEW f, IsFrame(f), NEW r
    PROVE  /\ IsFrame(Exit(f, r)) /\ Exit(f, r).pc = f.pc /\ Exit(f, r).status = r
           /\ Exit(f, r).stack = f.stack
BY DEF IsFrame, Exit

USE DEF OP_STOP, OP_POP, OP_MSTORE, OP_JUMP, OP_JUMPI, OP_PC, OP_GAS, OP_JUMPDEST,
        OP_PUSH0, OP_PUSH1, OP_PUSH2, OP_DUP1, OP_CALL, OP_DUPN, OP_INVALID

\* The instructions that Core() implements.
CoreOpcodes == {OP_STOP, OP_POP, OP_MSTORE, OP_GAS, OP_PUSH0, OP_DUP1, OP_CALL, OP_JUMPDEST, OP_INVALID}

LEMMA CoreFrame ==
    ASSUME NEW op \in Opcodes, NEW f, IsFrame(f), NEW g, g = Core(op, f)
    PROVE  IsFrame(g) /\ g.pc = f.pc /\ (op = OP_STOP => g.status # "RUNNING")
<1>1. IsFrame(MStore(f)) /\ MStore(f).pc = f.pc
  BY DEF MStore, IsFrame, Pop, Exit
<1>2. IsFrame(Call(f)) /\ Call(f).pc = f.pc
  <2> DEFINE h(used) == [Pop(f, 1) EXCEPT !.gas = @ - used]
  <2>1. ASSUME NEW used
        PROVE  IsFrame(h(used)) /\ h(used).pc = f.pc
    <3>1. IsFrame(Pop(f, 1)) /\ Pop(f, 1).pc = f.pc
      BY PopFacts
    <3> DEFINE x == Pop(f, 1).gas - used
    <3>2. h(used) = [Pop(f, 1) EXCEPT !.gas = x]
      BY <3>1 DEF IsFrame
    <3> HIDE DEF x, h
    <3> QED
      BY <3>1, <3>2, WithGas
  <2>2. PICK used, x : Call(f) = Push(h(used), x)
    BY DEF Call
  <2> HIDE DEF h
  <2>3. IsFrame(Push(h(used), x)) /\ Push(h(used), x).pc = h(used).pc
    BY <2>1, PushFacts
  <2> QED
    BY <2>1, <2>2, <2>3
<1>3. /\ \A x : IsFrame(Push(f, x)) /\ Push(f, x).pc = f.pc
      /\ \A n : IsFrame(Pop(f, n)) /\ Pop(f, n).pc = f.pc
      /\ IsFrame(Exit(f, "SUCCESS")) /\ Exit(f, "SUCCESS").pc = f.pc /\ Exit(f, "SUCCESS").status = "SUCCESS"
  <2>1. \A x : IsFrame(Push(f, x)) /\ Push(f, x).pc = f.pc
    BY PushFacts
  <2>2. \A n : IsFrame(Pop(f, n)) /\ Pop(f, n).pc = f.pc
    BY PopFacts
  <2>3. IsFrame(Exit(f, "SUCCESS")) /\ Exit(f, "SUCCESS").pc = f.pc /\ Exit(f, "SUCCESS").status = "SUCCESS"
    BY ExitFacts
  <2> QED
    BY <2>1, <2>2, <2>3
<1>4. op = OP_STOP => g = Exit(f, "SUCCESS")
  BY DEF Core
<1>5. \/ g = Exit(f, "SUCCESS") \/ g = Pop(f, 1) \/ g = MStore(f) \/ g = Push(f, f.gas)
      \/ g = Push(f, 0) \/ g = Push(f, f.stack[1]) \/ g = Call(f) \/ g = f
  BY DEF Core
<1> QED
  BY <1>1, <1>2, <1>3, <1>4, <1>5

\* What an instruction does to the program counter.
LEMMA InvokeFacts ==
    ASSUME NEW op \in Opcodes, NEW f, IsFrame(f), f.pc \in Nat, jumpdest_bitset \subseteq Nat,
           Len(code) \in Nat, NEW g, g = Invoke(op, f)
    PROVE  /\ IsFrame(g)
           /\ \/ g.pc = f.pc + 1 + PushSize(op) + ImmediateSize(op)
              \/ g.pc \in Nat /\ g.pc < Len(code)
              \/ g.status # "RUNNING"
           /\ op = OP_STOP => g.status # "RUNNING"
<1>1. ASSUME NEW h, IsFrame(h), NEW dst
      PROVE  /\ IsFrame(JumpImpl(h, dst))
             /\ \/ JumpImpl(h, dst).pc \in Nat /\ JumpImpl(h, dst).pc < Len(code)
                \/ JumpImpl(h, dst).status # "RUNNING"
  <2>1. CASE dst < Len(code) /\ dst \in jumpdest_bitset
    BY <1>1, <2>1 DEF JumpImpl, IsFrame
  <2>2. CASE ~(dst < Len(code) /\ dst \in jumpdest_bitset)
    BY <1>1, <2>2 DEF JumpImpl, IsFrame, Exit
  <2> QED
    BY <2>1, <2>2
<1>2. ASSUME NEW h, IsFrame(h), h.pc = f.pc, NEW n \in Nat, g = [h EXCEPT !.pc = @ + 1 + n], n = PushSize(op),
             op # OP_DUPN
      PROVE  IsFrame(g) /\ g.pc = f.pc + 1 + PushSize(op) + ImmediateSize(op) /\ g.status = h.status
  BY <1>2, PushSizeFacts DEF IsFrame
<1>3. ASSUME NEW h, IsFrame(h), h.pc = f.pc, g = [h EXCEPT !.pc = @ + 1], op # OP_DUPN, PushSize(op) = 0
      PROVE  /\ IsFrame(g) /\ g.pc = f.pc + 1 + PushSize(op) + ImmediateSize(op)
             /\ g.status = h.status
  BY <1>3, PushSizeFacts DEF IsFrame
<1>4. IsFrame(Pop(f, 1)) /\ IsFrame(Pop(f, 2)) /\ Pop(f, 2).pc = f.pc
  BY PopFacts
<1>5. CASE op = OP_JUMP
  <2>0. PushSize(op) = 0
    BY <1>5 DEF PushSize
  <2>1. g = JumpImpl(Pop(f, 1), f.stack[1])
    BY <1>5, <2>0 DEF Invoke
  <2> QED
    BY <1>1, <1>4, <1>5, <2>1
<1>6. CASE op = OP_JUMPI
  <2>0. op # OP_JUMP /\ op # OP_STOP /\ op # OP_DUPN /\ PushSize(op) = 0
    BY <1>6 DEF PushSize
  <2>1. CASE f.stack[2] # 0
    <3>1. g = JumpImpl(Pop(f, 2), f.stack[1])
      BY <1>6, <2>0, <2>1 DEF Invoke
    <3> QED
      BY <1>1, <1>4, <2>0, <3>1
  <2>2. CASE f.stack[2] = 0
    <3>1. g = [Pop(f, 2) EXCEPT !.pc = @ + 1]
      BY <1>6, <2>0, <2>2 DEF Invoke
    <3> QED
      BY <1>3, <1>4, <2>0, <3>1
  <2> QED
    BY <2>1, <2>2
<1>7. CASE op = OP_DUPN
  <2>1. PushSize(op) = 0 /\ ImmediateSize(op) = 1 /\ op # OP_STOP
    BY <1>7, PushSizeFacts
  <2>2. g = Dupn(f)
    BY <1>7, <2>1 DEF Invoke
  <2> DEFINE n == DecodeDupn(PaddedCode[f.pc + 2])
             x == f.stack[n]
  <2>3. \/ g = Exit(f, "UNDEFINED_INSTRUCTION") \/ g = Exit(f, "STACK_UNDERFLOW")
        \/ g = [Push(f, x) EXCEPT !.pc = @ + 2]
    BY <2>2 DEF Dupn
  <2> HIDE DEF x
  <2>4. IsFrame(Push(f, x)) /\ Push(f, x).pc = f.pc
    BY PushFacts
  <2>5. /\ IsFrame(Exit(f, "UNDEFINED_INSTRUCTION")) /\ IsFrame(Exit(f, "STACK_UNDERFLOW"))
        /\ Exit(f, "UNDEFINED_INSTRUCTION").status # "RUNNING"
        /\ Exit(f, "STACK_UNDERFLOW").status # "RUNNING"
    BY ExitFacts
  <2>6. CASE g = [Push(f, x) EXCEPT !.pc = @ + 2]
    <3>1. IsFrame(g) /\ g.pc = f.pc + 2
      BY <2>4, <2>6 DEF IsFrame
    <3> QED
      BY <2>1, <3>1
  <2> QED
    BY <2>1, <2>3, <2>5, <2>6
<1>8. CASE op # OP_JUMP /\ op # OP_JUMPI /\ op # OP_DUPN
  <2>1. CASE op = OP_PC
    <3>1. op # OP_STOP /\ PushSize(op) = 0
      BY <2>1 DEF PushSize
    <3>2. g = [Push(f, f.pc) EXCEPT !.pc = @ + 1]
      BY <1>8, <2>1, <3>1, SMTT(30) DEF Invoke
    <3>3. IsFrame(Push(f, f.pc)) /\ Push(f, f.pc).pc = f.pc
      BY PushFacts
    <3> QED
      BY <1>3, <1>8, <3>1, <3>2, <3>3
  <2>2. CASE op # OP_PC /\ PushSize(op) > 0
    <3> DEFINE x == PushValue(f.pc, PushSize(op))
    <3>1. op # OP_STOP
      BY <2>2, PushSizeFacts
    <3>2. g = [Push(f, x) EXCEPT !.pc = @ + 1 + PushSize(op)]
      BY <1>8, <2>2 DEF Invoke
    <3> HIDE DEF x
    <3>3. IsFrame(Push(f, x)) /\ Push(f, x).pc = f.pc
      BY PushFacts
    <3>4. PushSize(op) \in Nat
      BY PushSizeFacts
    <3> QED
      BY <1>2, <1>8, <3>1, <3>2, <3>3, <3>4
  <2>3. CASE op # OP_PC /\ ~(PushSize(op) > 0)
    <3>1. g = [Core(op, f) EXCEPT !.pc = @ + 1]
      BY <1>8, <2>3 DEF Invoke
    <3>2. IsFrame(Core(op, f)) /\ Core(op, f).pc = f.pc /\ (op = OP_STOP => Core(op, f).status # "RUNNING")
      BY CoreFrame
    <3>3. PushSize(op) = 0
      BY <2>3, PushSizeFacts
    <3> QED
      BY <1>3, <1>8, <3>1, <3>2, <3>3
  <2> QED
    BY <2>1, <2>2, <2>3
<1> QED
  BY <1>5, <1>6, <1>7, <1>8

LEMMA BaselineInitially ==
    Init => BaselineInv
<1> SUFFICES ASSUME Init
             PROVE  BaselineInv
  OBVIOUS
<1>1. PICK input \in Inputs : code = input.code /\ BaselineInit(input.gas)
  BY DEF Init
<1>2. code \in Seq(Opcodes)
  BY <1>1, InterpretersAssumption
<1>3. scan = 0 /\ jumpdest_bitset = {} /\ baseline = NewFrame(input.gas)
  BY <1>1 DEF BaselineInit
<1>4. IsFrame(baseline) /\ baseline.pc = 0
  BY <1>3 DEF NewFrame, IsFrame
<1>5. 0 \in 0..(Len(code) + MaxPushSize)
  BY <1>2, LenProperties, PushSizeFacts
<1> QED
  BY <1>2, <1>3, <1>4, <1>5 DEF BaselineInv

LEMMA ScanByteKeeps ==
    ASSUME BaselineInv, ScanByte, code' = code
    PROVE  BaselineInv'
<1>1. Len(code) \in Nat /\ scan \in Nat /\ code \in Seq(Opcodes)
  BY LenProperties DEF BaselineInv
<1>2. scan + 1 \in 1..Len(code) /\ baseline' = baseline
  BY <1>1 DEF ScanByte, AnalysisDone
<1>3. code[scan + 1] \in Opcodes
  BY <1>1, <1>2, ElementOfSeq
<1>4. SignedByte(code[scan + 1]) >= OP_PUSH1 => AfterPush(code[scan + 1]) \in Nat
  BY <1>3 DEF SignedByte, ByteValues, AfterPush, Opcodes
<1>5. scan' \in Nat
  BY <1>1, <1>4 DEF ScanByte
<1>6. jumpdest_bitset' \subseteq Nat
  BY <1>1 DEF ScanByte, BaselineInv
<1> QED
  BY <1>2, <1>5, <1>6 DEF BaselineInv

LEMMA BaselineStepKeeps ==
    ASSUME BaselineInv, BaselineStep, code' = code
    PROVE  BaselineInv'
<1> DEFINE op == PaddedCode[baseline.pc + 1]
           x == baseline.gas - GasCosts[op]
           f == [baseline EXCEPT !.gas = x]
<1>1. /\ code \in Seq(Opcodes) /\ Len(code) \in Nat /\ jumpdest_bitset \subseteq Nat
      /\ IsFrame(baseline) /\ baseline.pc \in 0..(Len(code) + 2)
      /\ scan' = scan /\ jumpdest_bitset' = jumpdest_bitset
  BY LenProperties, PushSizeFacts DEF BaselineInv, BaselineStep
<1>2. op \in Opcodes /\ (baseline.pc >= Len(code) => op = OP_STOP)
  BY <1>1, PaddedCodeFacts
<1>3. baseline' = Invoke(op, f) \/ \E r : r # "RUNNING" /\ baseline' = Exit(baseline, r)
  <2> DEFINE r == CheckRequirements(op, baseline)
  <2>1. baseline' = Invoke(op, f) \/ (r # "SUCCESS" /\ baseline' = Exit(baseline, r))
    BY DEF BaselineStep
  <2>2. r # "RUNNING"
    BY DEF CheckRequirements
  <2> QED
    BY <2>1, <2>2
<1>4. CASE \E r : r # "RUNNING" /\ baseline' = Exit(baseline, r)
  <2>1. IsFrame(baseline') /\ baseline'.status # "RUNNING"
    BY <1>1, <1>4, ExitFacts
  <2> QED
    BY <1>1, <2>1 DEF BaselineInv
<1>5. CASE baseline' = Invoke(op, f)
  <2> HIDE DEF op, x
  <2>0. f = [baseline EXCEPT !.gas = x]
    OBVIOUS
  <2> HIDE DEF f
  <2>1. IsFrame(f) /\ f.pc = baseline.pc /\ f.pc \in Nat
    <3>1. IsFrame(f) /\ f.pc = baseline.pc
      BY <1>1, <2>0 DEF IsFrame
    <3> QED
      BY <1>1, <3>1
  <2>2. /\ IsFrame(baseline')
        /\ \/ baseline'.pc = f.pc + 1 + PushSize(op) + ImmediateSize(op)
           \/ baseline'.pc \in Nat /\ baseline'.pc < Len(code)
           \/ baseline'.status # "RUNNING"
        /\ op = OP_STOP => baseline'.status # "RUNNING"
    BY <1>1, <1>2, <1>5, <2>1, InvokeFacts
  <2>3. ASSUME baseline'.status = "RUNNING"
        PROVE  baseline'.pc \in 0..(Len(code) + MaxPushSize)
    <3>1. f.pc < Len(code)
      BY <1>1, <1>2, <2>1, <2>2, <2>3
    <3>2. /\ PushSize(op) + ImmediateSize(op) \in 0..2 /\ MaxPushSize = 2
          /\ PushSize(op) \in Nat /\ ImmediateSize(op) \in Nat
      BY <1>2, PushSizeFacts
    <3> QED
      BY <1>1, <2>1, <2>2, <2>3, <3>1, <3>2
  <2> QED
    BY <1>1, <2>2, <2>3 DEF BaselineInv
<1> QED
  BY <1>3, <1>4, <1>5

-----------------------------------------------------------------------------
(* The analysis of the Advanced interpreter. The proof labels the instructions *)
(* with what the analysis knew of them when it found them: the beginning of    *)
(* the block that they are in, and how the block has changed the height of the *)
(* stack before them; and the blocks with what they require in truth, which    *)
(* BlockInfo may have no room for.                                             *)

Labels == [off : [Nat -> Int], blk : [Nat -> Nat], req : [Nat -> Nat], growth : [Nat -> Nat]]

\* The instructions that begin a block, and those that check nothing.
Starts == {OP_JUMPDEST, OP_JUMPI}
Harmless == {OP_JUMPDEST, OP_STOP}

Blocks == [gas : Int, required : Nat, growth : Nat, change : Int, begin : Nat]

\* The opcodes that the Advanced interpreter has an implementation of.
Implemented == Opcodes \ Eip8024

IsInstruction(x) == x = [fn |-> x.fn, arg |-> x.arg] /\ x.fn \in Implemented \union {Undefined}

IsAnalysis(a) ==
    /\ a = [next |-> a.next, dead |-> a.dead, complete |-> a.complete, block |-> a.block,
            instrs |-> a.instrs, jumpdest_offsets |-> a.jumpdest_offsets,
            jumpdest_targets |-> a.jumpdest_targets]
    /\ a.next \in Nat /\ a.complete \in BOOLEAN /\ a.block \in Blocks
    /\ IsSequence(a.instrs) /\ \A k \in 1..Len(a.instrs) : IsInstruction(a.instrs[k])

\* What instruction k requires is required of its block, and the next one
\* finds the stack as k leaves it.
Labelled(a, l, k) ==
    LET fn == a.instrs[k].fn
    IN  /\ l.blk[k] \in 1..Len(a.instrs)
        /\ fn \in Opcodes \ Harmless =>
             /\ Traits[fn].required - l.off[k] <= l.req[l.blk[k]]
             /\ l.off[k] + Traits[fn].change <= l.growth[l.blk[k]]
        /\ fn \in Starts => l.off[k + 1] = 0 /\ l.blk[k + 1] = k
        /\ fn \in Opcodes \ (Starts \union {OP_STOP, OP_JUMP}) =>
             l.off[k + 1] = l.off[k] + Traits[fn].change /\ l.blk[k + 1] = l.blk[k]

Saved(a, l, k) ==
    a.instrs[k].fn \in Starts =>
        /\ a.instrs[k].arg.required = Clamp(l.req[k], BlockStackMax)
        /\ a.instrs[k].arg.growth = Clamp(l.growth[k], BlockStackMax)

\* The block that is not saved yet.
Current(a, l) ==
    LET n == Len(a.instrs)
        b == a.block.begin
    IN  /\ b \in 1..n /\ a.instrs[b].fn \in Starts \union {Undefined}
        /\ l.req[b] = a.block.required /\ l.growth[b] = a.block.growth
        /\ l.off[n + 1] = a.block.change /\ l.blk[n + 1] = b

Targets(a) ==
    /\ IsSequence(a.jumpdest_offsets) /\ IsSequence(a.jumpdest_targets)
    /\ Len(a.jumpdest_offsets) = Len(a.jumpdest_targets)
    /\ \A i \in 1..Len(a.jumpdest_offsets) :
         /\ a.jumpdest_offsets[i] \in Nat
         /\ a.jumpdest_targets[i] \in 1..Len(a.instrs)
         /\ a.instrs[a.jumpdest_targets[i]].fn = OP_JUMPDEST

Sound(a, l) ==
    /\ IsAnalysis(a) /\ l \in Labels
    /\ Len(a.instrs) >= 1 /\ a.instrs[1].fn = OP_JUMPDEST
    /\ \A k \in 1..Len(a.instrs) :
         Labelled(a, l, k) /\ (a.complete \/ k # a.block.begin => Saved(a, l, k))
    /\ ~a.complete => Current(a, l)

Analysis(a, l) ==
    /\ Sound(a, l)
    /\ a.complete => a.next >= Len(code) /\ a.instrs[Len(a.instrs)].fn = OP_STOP
    /\ Targets(a)

\* The stack fulfils the requirements that the block had when it began.
Fits(f, l) ==
    LET entry == Len(f.stack) - l.off[f.pc]
        b == l.blk[f.pc]
    IN  l.req[b] <= entry /\ entry + l.growth[b] <= StackLimit

Execution(a, f, l) ==
    /\ IsFrame(f) /\ IsSequence(f.stack)
    /\ ~a.complete => f.pc = 1 /\ Len(f.stack) = 0
    /\ f.status = "RUNNING" =>
         /\ f.pc \in 1..Len(a.instrs) /\ Len(f.stack) <= StackLimit
         /\ a.instrs[f.pc].fn \in Opcodes \ Harmless => Fits(f, l)

AdvancedInv == \E l : Analysis(analysis, l) /\ Execution(analysis, advanced, l)

IndInv == BaselineInv /\ AdvancedInv

LEMMA WithArg ==
    ASSUME NEW x, IsInstruction(x), NEW c, NEW y, y = [x EXCEPT !.arg = c]
    PROVE  IsInstruction(y) /\ y.fn = x.fn /\ y.arg = c
BY DEF IsInstruction

LEMMA WithInstructionArg ==
    ASSUME NEW a, IsAnalysis(a), NEW i, NEW c, NEW b, b = [a EXCEPT !.instrs[i].arg = c]
    PROVE  b = [next |-> a.next, dead |-> a.dead, complete |-> a.complete, block |-> a.block,
                instrs |-> [a.instrs EXCEPT ![i] = [a.instrs[i] EXCEPT !.arg = c]],
                jumpdest_offsets |-> a.jumpdest_offsets, jumpdest_targets |-> a.jumpdest_targets]
BY DEF IsAnalysis

\* The analysis b is a with its block saved.
IsSaved(a, b) ==
    /\ IsAnalysis(b) /\ Len(b.instrs) = Len(a.instrs)
    /\ b.next = a.next /\ b.dead = a.dead /\ b.complete = a.complete /\ b.block = a.block
    /\ b.jumpdest_offsets = a.jumpdest_offsets /\ b.jumpdest_targets = a.jumpdest_targets
    /\ \A k \in 1..Len(a.instrs) :
         /\ b.instrs[k].fn = a.instrs[k].fn
         /\ b.instrs[k].arg = IF k = a.block.begin THEN Close(a.block) ELSE a.instrs[k].arg

LEMMA SaveBlockFacts ==
    ASSUME NEW a, IsAnalysis(a), a.block.begin \in 1..Len(a.instrs), NEW b, b = SaveBlock(a)
    PROVE  IsSaved(a, b)
<1> DEFINE n == Len(a.instrs)
           begin == a.block.begin
           c == Close(a.block)
           x == [a.instrs[begin] EXCEPT !.arg = c]
           instrs == [a.instrs EXCEPT ![begin] = x]
<1>1. /\ IsSequence(a.instrs) /\ n \in Nat /\ begin \in 1..n
      /\ \A k \in 1..n : IsInstruction(a.instrs[k])
  BY IsSequenceFacts DEF IsAnalysis
<1>2. IsInstruction(x) /\ x.fn = a.instrs[begin].fn /\ x.arg = c
  <2> DEFINE y == a.instrs[begin]
  <2>1. IsInstruction(y)
    BY <1>1
  <2>2. x = [y EXCEPT !.arg = c]
    OBVIOUS
  <2> HIDE DEF c, x, y
  <2>3. IsInstruction(x) /\ x.fn = y.fn /\ x.arg = c
    BY <2>1, <2>2, WithArg
  <2> QED
    BY <2>3 DEF y
<1>3. b = [next |-> a.next, dead |-> a.dead, complete |-> a.complete, block |-> a.block,
           instrs |-> instrs, jumpdest_offsets |-> a.jumpdest_offsets,
           jumpdest_targets |-> a.jumpdest_targets]
  <2>1. b = [a EXCEPT !.instrs[begin].arg = c]
    BY DEF SaveBlock
  <2> HIDE DEF c, begin
  <2> QED
    BY <2>1, WithInstructionArg
<1> HIDE DEF x, c
<1>4. /\ IsSequence(instrs) /\ Len(instrs) = n
      /\ \A j \in 1..n : instrs[j] = IF j = begin THEN x ELSE a.instrs[j]
  <2> HIDE DEF begin
  <2> DEFINE s == a.instrs
  <2>1. instrs = [s EXCEPT ![begin] = x] /\ IsSequence(s) /\ begin \in 1..Len(s)
    BY <1>1
  <2> HIDE DEF instrs, s
  <2>2. IsChanged(s, begin, x, instrs)
    BY <2>1, SetOne
  <2> QED
    BY <2>2 DEF s, IsChanged
<1> HIDE DEF instrs
<1>5. \A k \in 1..n : IsInstruction(instrs[k])
  BY <1>1, <1>2, <1>4
<1>6. IsAnalysis(b)
  <2>1. a.next \in Nat /\ a.complete \in BOOLEAN /\ a.block \in Blocks
    BY DEF IsAnalysis
  <2> QED
    BY <1>3, <1>4, <1>5, <2>1 DEF IsAnalysis
<1>7. \A k \in 1..n : /\ instrs[k].fn = a.instrs[k].fn
                      /\ instrs[k].arg = IF k = begin THEN c ELSE a.instrs[k].arg
  BY <1>2, <1>4
<1> QED
  BY <1>3, <1>4, <1>6, <1>7 DEF c, IsSaved

\* The labels when instruction n + 1 is added: the block now requires r and g,
\* the next instruction is labelled with o and m.
NextLabels(l, n, begin, r, g, o, m) ==
    [off |-> [l.off EXCEPT ![n + 2] = o], blk |-> [l.blk EXCEPT ![n + 2] = m],
     req |-> [[l.req EXCEPT ![n + 1] = 0] EXCEPT ![begin] = r],
     growth |-> [[l.growth EXCEPT ![n + 1] = 0] EXCEPT ![begin] = g]]

Relabelled(l, n, begin, r, g, o, m, l2) ==
    /\ l2 \in Labels
    /\ l2.off[n + 2] = o /\ l2.blk[n + 2] = m
    /\ l2.req[begin] = r /\ l2.growth[begin] = g
    /\ l2.req[n + 1] = 0 /\ l2.growth[n + 1] = 0
    /\ \A k \in 1..(n + 1) : l2.off[k] = l.off[k] /\ l2.blk[k] = l.blk[k]
    /\ \A k \in 1..n : k # begin => l2.req[k] = l.req[k] /\ l2.growth[k] = l.growth[k]

LEMMA NextLabelsFacts ==
    ASSUME NEW l \in Labels, NEW n \in Nat, NEW begin \in 1..n, NEW r \in Nat, NEW g \in Nat,
           NEW o \in Int, NEW m \in Nat, NEW l2, l2 = NextLabels(l, n, begin, r, g, o, m)
    PROVE  Relabelled(l, n, begin, r, g, o, m, l2)
<1>1. n + 1 \in Nat /\ n + 2 \in Nat /\ begin # n + 1 /\ begin \in Nat /\ 0 \in Nat
  OBVIOUS
<1>2. l2.off \in [Nat -> Int] /\ l2.blk \in [Nat -> Nat]
  BY <1>1 DEF Labels, NextLabels
<1>3. l2.req \in [Nat -> Nat] /\ l2.growth \in [Nat -> Nat]
  BY <1>1 DEF Labels, NextLabels
<1>4. l2 \in Labels
  BY <1>2, <1>3 DEF Labels, NextLabels
<1>5. /\ l2.off[n + 2] = o /\ l2.blk[n + 2] = m
      /\ \A k \in 1..(n + 1) : l2.off[k] = l.off[k] /\ l2.blk[k] = l.blk[k]
  BY <1>1 DEF Labels, NextLabels
<1>6. /\ l2.req[begin] = r /\ l2.growth[begin] = g
      /\ l2.req[n + 1] = 0 /\ l2.growth[n + 1] = 0
      /\ \A k \in 1..n : k # begin => l2.req[k] = l.req[k] /\ l2.growth[k] = l.growth[k]
  BY <1>1 DEF Labels, NextLabels
<1> QED
  BY <1>4, <1>5, <1>6 DEF Relabelled

\* The labels of the instructions found before are right as they were.
LEMMA LabelsKept ==
    ASSUME NEW a, IsAnalysis(a), NEW l \in Labels, NEW n, n = Len(a.instrs),
           \A k \in 1..n : Labelled(a, l, k),
           NEW begin \in 1..n, NEW r \in Nat, NEW g \in Nat, r >= l.req[begin], g >= l.growth[begin],
           NEW o \in Int, NEW m \in Nat, NEW l2, Relabelled(l, n, begin, r, g, o, m, l2),
           NEW b, Len(b.instrs) = n + 1, \A k \in 1..n : b.instrs[k].fn = a.instrs[k].fn
    PROVE  \A k \in 1..n : Labelled(b, l2, k)
<1>1. n \in Nat
  BY IsSequenceFacts DEF IsAnalysis
<1>2. /\ \A k \in 1..(n + 1) : l2.off[k] = l.off[k] /\ l2.blk[k] = l.blk[k]
      /\ \A k \in 1..n : k # begin => l2.req[k] = l.req[k] /\ l2.growth[k] = l.growth[k]
      /\ l2.req[begin] = r /\ l2.growth[begin] = g /\ l2 \in Labels
  BY DEF Relabelled
<1>3. ASSUME NEW k \in 1..n
      PROVE  /\ l.req[k] \in Nat /\ l.growth[k] \in Nat /\ l.off[k] \in Int
             /\ l2.req[k] \in Nat /\ l2.growth[k] \in Nat
             /\ l2.req[k] >= l.req[k] /\ l2.growth[k] >= l.growth[k]
  <2>0. k \in Nat /\ l \in Labels /\ l2 \in Labels
    BY <1>1, <1>2
  <2>1. /\ l.req[k] \in Nat /\ l.growth[k] \in Nat /\ l.off[k] \in Int
        /\ l2.req[k] \in Nat /\ l2.growth[k] \in Nat
    BY <2>0 DEF Labels
  <2>2. CASE k = begin
    BY <1>2, <2>1, <2>2
  <2>3. CASE k # begin
    BY <1>2, <2>1, <2>3
  <2> QED
    BY <2>1, <2>2, <2>3
<1> SUFFICES ASSUME NEW k \in 1..n
             PROVE  Labelled(b, l2, k)
  OBVIOUS
<1> DEFINE fn == a.instrs[k].fn
           j == l.blk[k]
<1>4. b.instrs[k].fn = fn /\ Labelled(a, l, k) /\ k \in 1..(n + 1) /\ k + 1 \in 1..(n + 1)
  BY <1>1
<1>5. l2.off[k] = l.off[k] /\ l2.blk[k] = j /\ l2.off[k + 1] = l.off[k + 1] /\ l2.blk[k + 1] = l.blk[k + 1]
  BY <1>2, <1>4
<1>6. j \in 1..n /\ j \in 1..(n + 1)
  BY <1>1, <1>4 DEF Labelled
<1>7. ASSUME fn \in Opcodes \ Harmless
      PROVE  /\ Traits[fn].required - l2.off[k] <= l2.req[j]
             /\ l2.off[k] + Traits[fn].change <= l2.growth[j]
  <2>1. Traits[fn].required - l.off[k] <= l.req[j] /\ l.off[k] + Traits[fn].change <= l.growth[j]
    BY <1>4, <1>7 DEF Labelled
  <2> HIDE DEF fn, j
  <2>2. Traits[fn].required \in 0..2 /\ Traits[fn].change \in -2..1
    BY <1>7, TraitsFacts
  <2>3. /\ l.req[j] \in Nat /\ l.growth[j] \in Nat /\ l2.req[j] \in Nat /\ l2.growth[j] \in Nat
        /\ l2.req[j] >= l.req[j] /\ l2.growth[j] >= l.growth[j] /\ l.off[k] \in Int
    BY <1>3, <1>6
  <2> DEFINE required == Traits[fn].required
             change == Traits[fn].change
  <2>4. required \in Int /\ change \in Int
    BY <2>2
  <2> HIDE DEF required, change
  <2>5. required - l2.off[k] <= l2.req[j] /\ l2.off[k] + change <= l2.growth[j]
    <3>1. required - l.off[k] <= l.req[j] /\ l.off[k] + change <= l.growth[j]
      BY <2>1 DEF required, change
    <3>2. required - l.off[k] <= l2.req[j] /\ l.off[k] + change <= l2.growth[j]
      <4> DEFINE o1 == l.off[k]
                 r1 == l.req[j]
                 g1 == l.growth[j]
                 r2 == l2.req[j]
                 g2 == l2.growth[j]
      <4>1. /\ o1 \in Int /\ r1 \in Int /\ g1 \in Int /\ r2 \in Int /\ g2 \in Int
            /\ required - o1 <= r1 /\ o1 + change <= g1 /\ r1 <= r2 /\ g1 <= g2
        BY <2>3, <3>1
      <4> HIDE DEF o1, r1, g1, r2, g2
      <4>2. required - o1 <= r2 /\ o1 + change <= g2
        BY <2>4, <4>1
      <4> QED
        BY <4>2 DEF o1, r2, g2
    <3> QED
      BY <1>5, <3>2
  <2> QED
    BY <2>5 DEF required, change
<1>8. /\ fn \in Starts => l2.off[k + 1] = 0 /\ l2.blk[k + 1] = k
      /\ fn \in Opcodes \ (Starts \union {OP_STOP, OP_JUMP}) =>
           l2.off[k + 1] = l2.off[k] + Traits[fn].change /\ l2.blk[k + 1] = l2.blk[k]
  BY <1>4, <1>5 DEF Labelled
<1> HIDE DEF fn, j
<1>9. l2.blk[k] \in 1..Len(b.instrs)
  BY <1>5, <1>6
<1> QED
  BY <1>4, <1>5, <1>7, <1>8, <1>9 DEF Labelled

\* The entry of an opcode, and a block with such an entry added to it.
IsEntry(op, info) ==
    /\ info.gas \in Int /\ info.required \in 0..2 /\ info.change \in -2..1
    /\ info.fn \in Implemented \union {Undefined}
    /\ info.fn # Undefined =>
          info.fn = op /\ info.required = Traits[op].required /\ info.change = Traits[op].change
    /\ op = OP_JUMPDEST => info.fn = OP_JUMPDEST

LEMMA OpTableFacts ==
    ASSUME NEW op \in Opcodes, NEW info, info = OpTable(op)
    PROVE  IsEntry(op, info)
<1>1. Undefined \notin Opcodes /\ Undefined \in Int /\ OP_JUMPDEST \in Opcodes
  BY DEF Undefined, Opcodes
<1>2. GasCosts[op] \in Int /\ GasCosts[OP_JUMPDEST] # Undefined
  BY InstructionsAssumption DEF Undefined
<1>3. CASE GasCosts[op] = Undefined
  BY <1>1, <1>2, <1>3 DEF OpTable, IsEntry
<1>4. CASE GasCosts[op] # Undefined
  <2>1. info = [fn |-> Implementation(op), gas |-> GasCosts[op],
              required |-> Traits[op].required, change |-> Traits[op].change]
    BY <1>4 DEF OpTable
  <2>2. Traits[op].required \in 0..2 /\ Traits[op].change \in -2..1
    BY TraitsFacts
  <2>3. /\ Implementation(op) \in Implemented \union {Undefined}
        /\ Implementation(op) \in {op, Undefined} /\ Implementation(OP_JUMPDEST) = OP_JUMPDEST
    BY DEF Implementation, Implemented, Eip8024
  <2> QED
    BY <1>1, <1>2, <2>1, <2>2, <2>3 DEF IsEntry
<1> QED
  BY <1>3, <1>4

IsExtended(block, info, b) ==
    /\ b \in Blocks /\ b.begin = block.begin /\ b.change = block.change + info.change
    /\ b.required >= block.required /\ b.required >= info.required - block.change
    /\ b.growth >= block.growth /\ b.growth >= b.change

LEMMA ExtendBlockFacts ==
    ASSUME NEW block \in Blocks, NEW info, info.gas \in Int, info.required \in Int, info.change \in Int,
           NEW b, b = ExtendBlock(block, info)
    PROVE  IsExtended(block, info, b)
<1>1. /\ block.gas \in Int /\ block.required \in Nat /\ block.growth \in Nat
      /\ block.change \in Int /\ block.begin \in Nat
  BY DEF Blocks
<1>2. b = [gas |-> block.gas + info.gas, required |-> Larger(block.required, info.required - block.change),
           growth |-> Larger(block.growth, block.change + info.change),
           change |-> block.change + info.change, begin |-> block.begin]
  BY DEF ExtendBlock, Blocks
<1>3. \A x \in Nat, y \in Int : Larger(x, y) \in Nat /\ Larger(x, y) >= x /\ Larger(x, y) >= y
  BY DEF Larger
<1>4. info.required - block.change \in Int /\ block.change + info.change \in Int /\ block.gas + info.gas \in Int
  BY <1>1
<1>5. /\ b.required \in Nat /\ b.growth \in Nat
      /\ b.required >= block.required /\ b.required >= info.required - block.change
      /\ b.growth >= block.growth /\ b.growth >= b.change
  <2> DEFINE x == info.required - block.change
             y == block.change + info.change
  <2>1. x \in Int /\ y \in Int
    BY <1>4
  <2>2. b.required = Larger(block.required, x) /\ b.growth = Larger(block.growth, y) /\ b.change = y
    BY <1>2
  <2> HIDE DEF x, y
  <2>3. b.required \in Nat /\ b.required >= block.required /\ b.required >= x
    BY <1>1, <1>3, <2>1, <2>2
  <2>4. b.growth \in Nat /\ b.growth >= block.growth /\ b.growth >= y
    BY <1>1, <1>3, <2>1, <2>2
  <2> QED
    BY <2>2, <2>3, <2>4 DEF x
<1>6. b \in Blocks
  BY <1>1, <1>2, <1>4, <1>5 DEF Blocks
<1> QED
  BY <1>2, <1>5, <1>6 DEF IsExtended

\* The analysis c has one more instruction than a; it adds to the block of a.
SameBlock(a, c) ==
    /\ c.block.begin = a.block.begin
    /\ c.instrs[Len(a.instrs) + 1].fn \notin Starts

\* Or the block of a is saved as it became, and a new one begins.
NewBlock(a, c, r, g, o, m) ==
    /\ m = Len(a.instrs) + 1 /\ o = 0
    /\ c.block.begin = m /\ c.block.required = 0 /\ c.block.growth = 0 /\ c.block.change = 0
    /\ c.instrs[m].fn \in Starts \union {Undefined}
    /\ c.instrs[a.block.begin].arg.required = Clamp(r, BlockStackMax)
    /\ c.instrs[a.block.begin].arg.growth = Clamp(g, BlockStackMax)

IsLonger(a, c) ==
    LET n == Len(a.instrs)
    IN  /\ IsAnalysis(c) /\ ~c.complete /\ Len(c.instrs) = n + 1
        /\ \A k \in 1..n : c.instrs[k].fn = a.instrs[k].fn
        /\ \A k \in 1..n : k # a.block.begin => c.instrs[k].arg = a.instrs[k].arg

LEMMA AddInstruction ==
    ASSUME NEW a, NEW l, Sound(a, l), ~a.complete, NEW c, IsLonger(a, c),
           NEW n, n = Len(a.instrs), NEW begin, begin = a.block.begin,
           NEW r \in Nat, NEW g \in Nat, r >= l.req[begin], g >= l.growth[begin],
           NEW o \in Int, NEW m \in Nat,
           NEW l2, Relabelled(l, n, begin, r, g, o, m, l2),
           Labelled(c, l2, n + 1),
           \/ /\ SameBlock(a, c)
              /\ m = begin /\ c.block.required = r /\ c.block.growth = g /\ c.block.change = o
           \/ NewBlock(a, c, r, g, o, m)
    PROVE  Sound(c, l2)
<1>1. /\ IsAnalysis(a) /\ l \in Labels /\ n \in Nat /\ n >= 1 /\ begin \in 1..n /\ Current(a, l)
      /\ a.instrs[1].fn = OP_JUMPDEST
      /\ \A k \in 1..n : Labelled(a, l, k) /\ (k # begin => Saved(a, l, k))
  BY IsSequenceFacts DEF Sound, IsAnalysis, Current
<1>2. /\ IsAnalysis(c) /\ ~c.complete /\ Len(c.instrs) = n + 1
      /\ \A k \in 1..n : c.instrs[k].fn = a.instrs[k].fn
      /\ \A k \in 1..n : k # begin => c.instrs[k].arg = a.instrs[k].arg
  BY DEF IsLonger
<1>3. \A k \in 1..n : Labelled(c, l2, k)
  BY <1>1, <1>2, LabelsKept
<1>4. \A k \in 1..(n + 1) : Labelled(c, l2, k)
  BY <1>1, <1>3
<1>5. /\ l2 \in Labels /\ l2.off[n + 2] = o /\ l2.blk[n + 2] = m
      /\ l2.req[begin] = r /\ l2.growth[begin] = g
      /\ l2.req[n + 1] = 0 /\ l2.growth[n + 1] = 0
      /\ \A k \in 1..n : k # begin => l2.req[k] = l.req[k] /\ l2.growth[k] = l.growth[k]
  BY DEF Relabelled
<1>6. \A k \in 1..n : k # begin => Saved(c, l2, k)
  BY <1>1, <1>2, <1>5 DEF Saved
<1>7. Len(c.instrs) >= 1 /\ c.instrs[1].fn = OP_JUMPDEST
  BY <1>1, <1>2
<1>8. Len(c.instrs) + 1 = n + 2
  BY <1>1, <1>2
<1>9. CASE /\ SameBlock(a, c)
           /\ m = begin /\ c.block.required = r /\ c.block.growth = g /\ c.block.change = o
  <2>1. c.block.begin = begin /\ Saved(c, l2, n + 1)
    BY <1>9 DEF SameBlock, Saved
  <2>2. \A k \in 1..(n + 1) : k # c.block.begin => Saved(c, l2, k)
    BY <1>1, <1>6, <2>1
  <2>3. Current(c, l2)
    <3>1. begin \in 1..(n + 1) /\ c.instrs[begin].fn \in Starts \union {Undefined}
      <4>1. a.instrs[begin].fn \in Starts \union {Undefined}
        BY <1>1 DEF Current
      <4>2. begin \in 1..(n + 1) /\ c.instrs[begin].fn = a.instrs[begin].fn
        BY <1>1, <1>2
      <4> QED
        BY <4>1, <4>2
    <3> QED
      BY <1>2, <1>5, <1>8, <1>9, <2>1, <3>1 DEF Current
  <2> QED
    BY <1>2, <1>4, <1>5, <1>7, <2>2, <2>3 DEF Sound
<1>10. CASE NewBlock(a, c, r, g, o, m)
  <2>1. c.block.begin = n + 1
    BY <1>10 DEF NewBlock
  <2>2. Saved(c, l2, begin)
    BY <1>5, <1>10 DEF NewBlock, Saved
  <2>3. \A k \in 1..(n + 1) : k # c.block.begin => Saved(c, l2, k)
    BY <1>1, <1>6, <2>1, <2>2
  <2>4. Current(c, l2)
    <3>1. n + 1 \in 1..(n + 1)
      BY <1>1
    <3> QED
      BY <1>2, <1>5, <1>8, <1>10, <3>1 DEF Current, NewBlock
  <2> QED
    BY <1>2, <1>4, <1>5, <1>7, <2>3, <2>4 DEF Sound
<1> QED
  BY <1>9, <1>10

IsRight(fn, change, n, begin, r, g, o, m) ==
    /\ fn \in Opcodes \ Harmless =>
         Traits[fn].required - change <= r /\ change + Traits[fn].change <= g
    /\ fn \in Starts => o = 0 /\ m = n + 1
    /\ fn \in Opcodes \ (Starts \union {OP_STOP, OP_JUMP}) =>
         o = change + Traits[fn].change /\ m = begin

LEMMA LastLabelled ==
    ASSUME NEW n \in Nat, NEW begin \in 1..n, NEW r, NEW g, NEW o, NEW m, NEW l, NEW l2,
           Relabelled(l, n, begin, r, g, o, m, l2), NEW c, Len(c.instrs) = n + 1,
           l.blk[n + 1] = begin, IsRight(c.instrs[n + 1].fn, l.off[n + 1], n, begin, r, g, o, m)
    PROVE  Labelled(c, l2, n + 1)
<1>1. n + 1 \in 1..(n + 1) /\ (n + 1) + 1 = n + 2 /\ begin \in 1..(n + 1)
  OBVIOUS
<1>2. /\ l2.off[n + 2] = o /\ l2.blk[n + 2] = m /\ l2.req[begin] = r /\ l2.growth[begin] = g
      /\ l2.off[n + 1] = l.off[n + 1] /\ l2.blk[n + 1] = begin
  BY <1>1 DEF Relabelled
<1> QED
  BY <1>1, <1>2 DEF Labelled, IsRight

\* The analysis with an instruction added to the block that is not saved yet.
IsAdded(a, x, block, next, b) ==
    /\ IsAnalysis(b) /\ IsAppended(a.instrs, x, b.instrs)
    /\ b.block = block /\ b.next = next /\ b.complete = a.complete
    /\ b.jumpdest_offsets = a.jumpdest_offsets /\ b.jumpdest_targets = a.jumpdest_targets

LEMMA AddedFacts ==
    ASSUME NEW a, IsAnalysis(a), NEW x, IsInstruction(x), NEW block \in Blocks, NEW next \in Nat,
           NEW dead, NEW b,
           b = [a EXCEPT !.instrs = Append(@, x), !.block = block, !.next = next, !.dead = dead]
    PROVE  IsAdded(a, x, block, next, b)
<1> DEFINE instrs == Append(a.instrs, x)
           s == a.instrs
<1>1. b = [next |-> next, dead |-> dead, complete |-> a.complete, block |-> block,
           instrs |-> instrs, jumpdest_offsets |-> a.jumpdest_offsets,
           jumpdest_targets |-> a.jumpdest_targets]
  BY DEF IsAnalysis
<1>2. IsSequence(s) /\ Len(s) \in Nat /\ (\A k \in 1..Len(s) : IsInstruction(s[k])) /\ instrs = Append(s, x)
  BY IsSequenceFacts DEF IsAnalysis
<1> HIDE DEF instrs
<1>0. /\ b.next = next /\ b.dead = dead /\ b.complete = a.complete /\ b.block = block /\ b.instrs = instrs
      /\ b.jumpdest_offsets = a.jumpdest_offsets /\ b.jumpdest_targets = a.jumpdest_targets
  BY ONLY <1>1
<1>00. b = [next |-> b.next, dead |-> b.dead, complete |-> b.complete, block |-> b.block,
              instrs |-> b.instrs, jumpdest_offsets |-> b.jumpdest_offsets,
              jumpdest_targets |-> b.jumpdest_targets]
  BY <1>1, <1>0
<1> HIDE DEF s
<1>3. IsAppended(s, x, instrs)
  BY <1>2, AppendOne
<1>4. \A k \in 1..Len(instrs) : IsInstruction(instrs[k])
  BY <1>2, <1>3 DEF IsAppended
<1>5. IsAnalysis(b)
  <2>1. a.complete \in BOOLEAN /\ IsSequence(instrs)
    BY <1>3 DEF IsAnalysis, IsAppended
  <2> QED
    BY <1>0, <1>00, <1>4, <2>1 DEF IsAnalysis
<1>6. IsAppended(a.instrs, x, b.instrs)
  BY <1>0, <1>3 DEF s
<1> QED
  BY <1>0, <1>5, <1>6 DEF IsAdded

\* The jump destinations found before are those of the analysis c too.
SameFunctions(a, c) == \A k \in 1..Len(a.instrs) : c.instrs[k].fn = a.instrs[k].fn

LEMMA TargetsKept ==
    ASSUME NEW a, Targets(a), NEW c, Len(a.instrs) \in Nat, Len(c.instrs) \in Nat,
           Len(c.instrs) >= Len(a.instrs), SameFunctions(a, c),
           c.jumpdest_offsets = a.jumpdest_offsets, c.jumpdest_targets = a.jumpdest_targets
    PROVE  Targets(c)
<1> SUFFICES ASSUME NEW i \in 1..Len(a.jumpdest_offsets)
             PROVE  /\ c.jumpdest_targets[i] \in 1..Len(c.instrs)
                    /\ c.instrs[c.jumpdest_targets[i]].fn = OP_JUMPDEST
  BY DEF Targets
<1>1. a.jumpdest_targets[i] \in 1..Len(a.instrs) /\ a.instrs[a.jumpdest_targets[i]].fn = OP_JUMPDEST
  BY DEF Targets
<1> QED
  BY <1>1 DEF SameFunctions

LEMMA TargetAdded ==
    ASSUME NEW a, Targets(a), NEW c, NEW n \in Nat, n = Len(a.instrs), Len(c.instrs) = n + 1,
           SameFunctions(a, c), c.instrs[n + 1].fn = OP_JUMPDEST,
           NEW i \in Nat, IsAppended(a.jumpdest_offsets, i, c.jumpdest_offsets),
           IsAppended(a.jumpdest_targets, n + 1, c.jumpdest_targets)
    PROVE  Targets(c)
<1> DEFINE count == Len(a.jumpdest_offsets)
<1>1. /\ count \in Nat /\ Len(a.jumpdest_targets) = count
      /\ IsSequence(c.jumpdest_offsets) /\ IsSequence(c.jumpdest_targets)
      /\ Len(c.jumpdest_offsets) = count + 1 /\ Len(c.jumpdest_targets) = count + 1
      /\ c.jumpdest_offsets[count + 1] = i /\ c.jumpdest_targets[count + 1] = n + 1
      /\ \A k \in 1..count : /\ c.jumpdest_offsets[k] = a.jumpdest_offsets[k]
                             /\ c.jumpdest_targets[k] = a.jumpdest_targets[k]
  BY IsSequenceFacts DEF Targets, IsAppended
<1>2. \A k \in 1..count :
        /\ a.jumpdest_offsets[k] \in Nat /\ a.jumpdest_targets[k] \in 1..n
        /\ c.instrs[a.jumpdest_targets[k]].fn = OP_JUMPDEST
  BY DEF Targets, SameFunctions
<1> HIDE DEF count
<1>3. ASSUME NEW k \in 1..(count + 1)
      PROVE  /\ c.jumpdest_offsets[k] \in Nat /\ c.jumpdest_targets[k] \in 1..(n + 1)
             /\ c.instrs[c.jumpdest_targets[k]].fn = OP_JUMPDEST
  <2>1. CASE k = count + 1
    BY <1>1, <2>1
  <2>2. CASE k # count + 1
    <3>1. k \in 1..count
      BY <1>1, <2>2
    <3>2. a.jumpdest_targets[k] \in 1..n /\ a.jumpdest_targets[k] \in 1..(n + 1)
      BY <1>2, <3>1
    <3> QED
      BY <1>1, <1>2, <3>1, <3>2
  <2> QED
    BY <2>1, <2>2
<1> QED
  BY <1>1, <1>3 DEF Targets

\* Before the analysis is complete the execution waits to begin.
Waiting(f) == IsFrame(f) /\ IsSequence(f.stack) /\ f.pc = 1 /\ Len(f.stack) = 0

LEMMA WaitingExecution ==
    ASSUME NEW f, Waiting(f), NEW a, NEW l, Sound(a, l)
    PROVE  Execution(a, f, l)
<1>1. Len(a.instrs) \in Nat /\ Len(a.instrs) >= 1 /\ a.instrs[1].fn = OP_JUMPDEST
  BY IsSequenceFacts DEF Sound, IsAnalysis
<1>2. StackLimit \in Nat
  BY InstructionsAssumption
<1> QED
  BY <1>1, <1>2 DEF Waiting, Execution, Harmless

\* What is known of an analysis that is not complete, in one place.
IsOpen(a, l, n, begin) ==
    /\ IsAnalysis(a) /\ l \in Labels /\ n \in Nat /\ begin \in 1..n /\ begin \in Nat /\ a.block \in Blocks
    /\ a.block.required \in Nat /\ a.block.growth \in Nat /\ a.block.change \in Int
    /\ l.req[begin] = a.block.required /\ l.growth[begin] = a.block.growth
    /\ l.off[n + 1] = a.block.change /\ l.blk[n + 1] = begin

LEMMA SoundFacts ==
    ASSUME NEW a, NEW l, Sound(a, l), ~a.complete
    PROVE  IsOpen(a, l, Len(a.instrs), a.block.begin)
<1>1. /\ IsAnalysis(a) /\ l \in Labels /\ a.block \in Blocks /\ Current(a, l) /\ IsSequence(a.instrs)
  BY DEF Sound, IsAnalysis
<1>2. Len(a.instrs) \in Nat
  BY <1>1, IsSequenceFacts
<1>3. a.block.required \in Nat /\ a.block.growth \in Nat /\ a.block.change \in Int
  BY <1>1 DEF Blocks
<1> QED
  BY <1>1, <1>2, <1>3 DEF IsOpen, Current

LEMMA BlockAnalysisFacts ==
    ASSUME NEW begin \in Nat
    PROVE  BlockAnalysis(begin) \in Blocks
BY DEF BlockAnalysis, Blocks

\* The labels of an added instruction that is not a JUMPDEST.
IsNext(op, n, begin, change, o, m) ==
    IF op = OP_JUMPI THEN o = 0 /\ m = n + 1 ELSE o = change /\ m = begin

LEMMA AddedLabels ==
    ASSUME NEW a, NEW l, Sound(a, l), ~a.complete, NEW n, n = Len(a.instrs), NEW begin, begin = a.block.begin,
           NEW op \in Opcodes \ {OP_JUMPDEST}, NEW info, info = OpTable(op),
           NEW block, IsExtended(a.block, info, block),
           NEW o \in Int, NEW m \in Nat, NEW l2, Relabelled(l, n, begin, block.required, block.growth, o, m, l2),
           IsNext(op, n, begin, block.change, o, m),
           NEW c, Len(c.instrs) = n + 1, c.instrs[n + 1].fn = info.fn
    PROVE  Labelled(c, l2, n + 1)
<1> DEFINE fn == info.fn
           change == a.block.change
           r == block.required
           g == block.growth
<1>1. /\ n \in Nat /\ begin \in 1..n /\ change \in Int /\ l.off[n + 1] = change /\ l.blk[n + 1] = begin
  BY SoundFacts DEF IsOpen
<1>2. /\ fn = Undefined \/ fn = op
      /\ fn # Undefined => info.required = Traits[op].required /\ info.change = Traits[op].change
      /\ Undefined \notin Opcodes
  <2>1. Undefined \notin Opcodes
    BY DEF Undefined, Opcodes
  <2>2. IsEntry(op, info)
    BY OpTableFacts
  <2> QED
    BY <2>1, <2>2 DEF IsEntry
<1>3. /\ info.required - change <= r /\ change + info.change <= g /\ block.change = change + info.change
  <2>1. IsEntry(op, info)
    BY OpTableFacts
  <2> QED
    BY <2>1 DEF IsEntry, IsExtended, Blocks
<1> HIDE DEF change, r, g, fn
<1>4. fn \in Opcodes => fn = op /\ fn # OP_JUMPDEST
  BY <1>2
<1>5. fn \in Opcodes \ Harmless => Traits[fn].required - change <= r /\ change + Traits[fn].change <= g
  BY <1>2, <1>3, <1>4
<1>6. fn \in Starts => o = 0 /\ m = n + 1
  <2>1. Starts \subseteq Opcodes
    BY DEF Starts, Opcodes
  <2> QED
    BY <1>4, <2>1 DEF Starts, IsNext
<1>7. fn \in Opcodes \ (Starts \union {OP_STOP, OP_JUMP}) => o = change + Traits[fn].change /\ m = begin
  BY <1>2, <1>3, <1>4 DEF Starts, IsNext
<1>8. IsRight(fn, change, n, begin, r, g, o, m)
  BY <1>5, <1>6, <1>7 DEF IsRight
<1>9. IsRight(c.instrs[n + 1].fn, l.off[n + 1], n, begin, r, g, o, m) /\ Relabelled(l, n, begin, r, g, o, m, l2)
  BY <1>1, <1>8 DEF fn, r, g
<1> QED
  BY <1>1, <1>9, LastLabelled

LEMMA PlainAdded ==
    ASSUME NEW a, NEW l, Sound(a, l), Targets(a), ~a.complete,
           NEW op \in Opcodes \ {OP_JUMPDEST, OP_JUMPI}, NEW info, info = OpTable(op),
           NEW block, IsExtended(a.block, info, block),
           NEW x, x.fn = info.fn, NEW next, NEW c, IsAdded(a, x, block, next, c)
    PROVE  \E l2 : Sound(c, l2) /\ Targets(c) /\ ~c.complete
<1> DEFINE n == Len(a.instrs)
           begin == a.block.begin
           r == block.required
           g == block.growth
           o == block.change
           l2 == NextLabels(l, n, begin, r, g, o, begin)
<1>1. /\ l \in Labels /\ n \in Nat /\ begin \in 1..n /\ begin \in Nat
      /\ a.block.required \in Nat /\ a.block.growth \in Nat
      /\ l.req[begin] = a.block.required /\ l.growth[begin] = a.block.growth
  BY SoundFacts DEF IsOpen
<1>2. /\ r \in Nat /\ g \in Nat /\ o \in Int /\ block.begin = begin
      /\ r >= a.block.required /\ g >= a.block.growth
  BY DEF IsExtended, Blocks
<1>3. /\ IsAnalysis(c) /\ c.block = block /\ c.complete = a.complete
      /\ Len(c.instrs) = n + 1 /\ c.instrs[n + 1] = x
      /\ \A k \in 1..n : c.instrs[k] = a.instrs[k]
      /\ c.jumpdest_offsets = a.jumpdest_offsets /\ c.jumpdest_targets = a.jumpdest_targets
  BY DEF IsAdded, IsAppended
<1>4. x.fn \notin Starts
  <2>1. IsEntry(op, info)
    BY OpTableFacts
  <2> QED
    BY <2>1 DEF IsEntry, Starts, Undefined, Opcodes
<1> HIDE DEF l2, n, begin, r, g, o
<1>5. Relabelled(l, n, begin, r, g, o, begin, l2)
  BY <1>1, <1>2, NextLabelsFacts DEF l2
<1>6. IsLonger(a, c)
  BY <1>3 DEF IsLonger, n
<1>7. Labelled(c, l2, n + 1)
  <2>1. Relabelled(l, n, begin, block.required, block.growth, block.change, begin, l2)
    BY <1>5 DEF r, g, o
  <2>2. c.instrs[n + 1].fn = info.fn /\ block.change \in Int
    BY <1>2, <1>3 DEF o
  <2>3. IsNext(op, n, begin, block.change, block.change, begin) /\ n = Len(a.instrs) /\ begin = a.block.begin
    BY DEF IsNext, n, begin
  <2>4. op \in Opcodes \ {OP_JUMPDEST} /\ info = OpTable(op) /\ Len(c.instrs) = n + 1
    BY <1>3
  <2> QED
    BY ONLY Sound(a, l), ~a.complete, IsExtended(a.block, info, block), <1>1, <2>1, <2>2, <2>3, <2>4, AddedLabels
<1>8. SameBlock(a, c) /\ c.block.required = r /\ c.block.growth = g /\ c.block.change = o
  BY <1>2, <1>3, <1>4 DEF SameBlock, n, begin, r, g, o
<1>9. Sound(c, l2)
  BY <1>1, <1>2, <1>5, <1>6, <1>7, <1>8, AddInstruction DEF n, begin
<1>10. Targets(c)
  <2>1. SameFunctions(a, c)
    BY <1>3 DEF SameFunctions, n
  <2>2. n \in Nat /\ n = Len(a.instrs) /\ Len(c.instrs) \in Nat /\ Len(c.instrs) >= n
    BY <1>1, <1>3 DEF n
  <2> QED
    BY <1>3, <2>1, <2>2, TargetsKept
<1> QED
  BY <1>3, <1>9, <1>10

LEMMA CloseFacts ==
    ASSUME NEW block
    PROVE  /\ Close(block).required = Clamp(block.required, BlockStackMax)
           /\ Close(block).growth = Clamp(block.growth, BlockStackMax)
BY DEF Close

IsReopened(a, block, c) ==
    /\ IsAnalysis(c) /\ c.block = block /\ c.instrs = a.instrs /\ c.complete = a.complete
    /\ c.jumpdest_offsets = a.jumpdest_offsets /\ c.jumpdest_targets = a.jumpdest_targets

LEMMA WithBlock ==
    ASSUME NEW a, IsAnalysis(a), NEW block \in Blocks, NEW c, c = [a EXCEPT !.block = block]
    PROVE  IsReopened(a, block, c)
BY DEF IsAnalysis, IsReopened

LEMMA JumpiAdded ==
    ASSUME NEW a, NEW l, Sound(a, l), Targets(a), ~a.complete,
           NEW info, info = OpTable(OP_JUMPI), NEW block, IsExtended(a.block, info, block),
           NEW x, x.fn = info.fn, NEW next, NEW b, IsAdded(a, x, block, next, b),
           NEW c, c = [SaveBlock(b) EXCEPT !.block = BlockAnalysis(Len(b.instrs))]
    PROVE  \E l2 : Sound(c, l2) /\ Targets(c) /\ ~c.complete
<1> DEFINE n == Len(a.instrs)
           begin == a.block.begin
           r == block.required
           g == block.growth
           l2 == NextLabels(l, n, begin, r, g, 0, n + 1)
<1>1. /\ l \in Labels /\ n \in Nat /\ begin \in 1..n /\ begin \in Nat
      /\ a.block.required \in Nat /\ a.block.growth \in Nat
      /\ l.req[begin] = a.block.required /\ l.growth[begin] = a.block.growth
  BY SoundFacts DEF IsOpen
<1>2. /\ r \in Nat /\ g \in Nat /\ block.begin = begin /\ block.change \in Int
      /\ r >= a.block.required /\ g >= a.block.growth
  BY DEF IsExtended, Blocks
<1>3. /\ IsAnalysis(b) /\ b.block = block /\ b.complete = a.complete
      /\ Len(b.instrs) = n + 1 /\ b.instrs[n + 1] = x
      /\ \A k \in 1..n : b.instrs[k] = a.instrs[k]
      /\ b.jumpdest_offsets = a.jumpdest_offsets /\ b.jumpdest_targets = a.jumpdest_targets
  BY DEF IsAdded, IsAppended
<1> DEFINE s == SaveBlock(b)
<1>4. IsSaved(b, s)
  <2>1. b.block.begin \in 1..Len(b.instrs)
    BY <1>1, <1>2, <1>3
  <2> HIDE DEF s
  <2> QED
    BY <1>3, <2>1, SaveBlockFacts DEF s
<1> HIDE DEF s, n, begin, r, g, l2
<1>5. /\ IsAnalysis(c) /\ c.block = BlockAnalysis(n + 1) /\ c.instrs = s.instrs /\ c.complete = a.complete
      /\ c.jumpdest_offsets = a.jumpdest_offsets /\ c.jumpdest_targets = a.jumpdest_targets
  <2> DEFINE y == BlockAnalysis(Len(b.instrs))
  <2>1. y = BlockAnalysis(n + 1) /\ y \in Blocks
    BY <1>1, <1>3, BlockAnalysisFacts
  <2>2. c = [s EXCEPT !.block = y] /\ IsAnalysis(s)
    BY <1>4 DEF s, IsSaved
  <2> HIDE DEF y
  <2>3. IsReopened(s, y, c)
    BY <2>1, <2>2, WithBlock
  <2> QED
    BY <1>3, <1>4, <2>1, <2>3 DEF IsSaved, IsReopened
<1>6. /\ Len(c.instrs) = n + 1 /\ c.instrs[n + 1].fn = info.fn
      /\ \A k \in 1..n : /\ c.instrs[k].fn = a.instrs[k].fn
                        /\ c.instrs[k].arg = IF k = begin THEN Close(block) ELSE a.instrs[k].arg
  <2>1. /\ Len(s.instrs) = n + 1
        /\ \A k \in 1..(n + 1) :
             /\ s.instrs[k].fn = b.instrs[k].fn
             /\ s.instrs[k].arg = IF k = begin THEN Close(block) ELSE b.instrs[k].arg
    BY <1>2, <1>3, <1>4 DEF IsSaved
  <2>2. n + 1 \in 1..(n + 1) /\ \A k \in 1..n : k \in 1..(n + 1)
    BY <1>1
  <2> QED
    BY <1>3, <1>5, <2>1, <2>2
<1>7. Relabelled(l, n, begin, r, g, 0, n + 1, l2)
  <2>1. 0 \in Int /\ n + 1 \in Nat
    BY <1>1
  <2> QED
    BY <1>1, <1>2, <2>1, NextLabelsFacts DEF l2
<1>8. IsLonger(a, c)
  BY <1>5, <1>6 DEF IsLonger, n, begin
<1>9. Labelled(c, l2, n + 1)
  <2> DEFINE op == OP_JUMPI
             o == 0
             m == n + 1
  <2>1. Relabelled(l, n, begin, block.required, block.growth, o, m, l2)
    BY <1>7 DEF r, g
  <2>2. /\ IsNext(op, n, begin, block.change, o, m) /\ n = Len(a.instrs) /\ begin = a.block.begin
        /\ o \in Int /\ m \in Nat
    BY <1>1 DEF IsNext, n, begin
  <2>3. op \in Opcodes \ {OP_JUMPDEST} /\ info = OpTable(op)
    BY DEF Opcodes
  <2>4. Len(c.instrs) = n + 1 /\ c.instrs[n + 1].fn = info.fn
    BY <1>6
  <2> HIDE DEF op, o, m
  <2>5. Labelled(c, l2, n + 1)
    BY ONLY Sound(a, l), ~a.complete, IsExtended(a.block, info, block),
            <2>1, <2>2, <2>3, <2>4, AddedLabels
  <2> QED
    BY <2>5
<1>10. NewBlock(a, c, r, g, 0, n + 1)
  <2>1. info.fn \in Starts \union {Undefined}
    <3>1. OP_JUMPI \in Opcodes
      BY DEF Opcodes
    <3>2. IsEntry(OP_JUMPI, info)
      BY <3>1, OpTableFacts
    <3> QED
      BY <3>2 DEF IsEntry, Starts
  <2>2. c.instrs[begin].arg = Close(block)
    BY <1>1, <1>6
  <2>3. /\ c.block.begin = n + 1 /\ c.block.required = 0 /\ c.block.growth = 0 /\ c.block.change = 0
    BY <1>5 DEF BlockAnalysis
  <2> QED
    BY <1>6, <2>1, <2>2, <2>3, CloseFacts DEF NewBlock, n, begin, r, g
<1>11. Sound(c, l2)
  <2>1. 0 \in Int /\ n + 1 \in Nat /\ n = Len(a.instrs) /\ begin = a.block.begin
    BY <1>1 DEF n, begin
  <2> QED
    BY <1>1, <1>2, <1>7, <1>8, <1>9, <1>10, <2>1, AddInstruction
<1>12. Targets(c)
  <2>1. SameFunctions(a, c)
    BY <1>6 DEF SameFunctions, n
  <2>2. n \in Nat /\ n = Len(a.instrs) /\ Len(c.instrs) \in Nat /\ Len(c.instrs) >= n
    BY <1>1, <1>6 DEF n
  <2> QED
    BY <1>5, <2>1, <2>2, TargetsKept
<1> QED
  BY <1>5, <1>11, <1>12

\* The analysis b is a with its block saved and a new one for a jump destination at i.
IsJumpdestOpen(a, i, b) ==
    LET n == Len(a.instrs)
    IN  /\ IsAnalysis(b) /\ Len(b.instrs) = n /\ b.block = BlockAnalysis(n + 1) /\ b.complete = a.complete
        /\ \A k \in 1..n : /\ b.instrs[k].fn = a.instrs[k].fn
                         /\ b.instrs[k].arg = IF k = a.block.begin THEN Close(a.block) ELSE a.instrs[k].arg
        /\ IsAppended(a.jumpdest_offsets, i, b.jumpdest_offsets)
        /\ IsAppended(a.jumpdest_targets, n + 1, b.jumpdest_targets)

LEMMA OpenJumpdestFacts ==
    ASSUME NEW a, NEW l, Sound(a, l), Targets(a), ~a.complete, NEW i, NEW b, b = OpenJumpdest(a, i)
    PROVE  IsJumpdestOpen(a, i, b)
<1> DEFINE n == Len(a.instrs)
           s == SaveBlock(a)
           block == BlockAnalysis(n + 1)
<1>1. IsAnalysis(a) /\ n \in Nat /\ a.block.begin \in 1..n
  BY SoundFacts DEF IsOpen
<1>2. b = [s EXCEPT !.block = block, !.jumpdest_offsets = Append(@, i), !.jumpdest_targets = Append(@, n + 1)]
  BY DEF OpenJumpdest
<1>3. IsSaved(a, s)
  <2> HIDE DEF s
  <2> QED
    BY <1>1, SaveBlockFacts DEF s
<1>4. block \in Blocks
  BY <1>1, BlockAnalysisFacts
<1> HIDE DEF s, block
<1>5. /\ IsAnalysis(s) /\ s.jumpdest_offsets = a.jumpdest_offsets /\ s.jumpdest_targets = a.jumpdest_targets
      /\ s.complete = a.complete /\ Len(s.instrs) = n
      /\ \A k \in 1..n : /\ s.instrs[k].fn = a.instrs[k].fn
                       /\ s.instrs[k].arg = IF k = a.block.begin THEN Close(a.block) ELSE a.instrs[k].arg
  BY <1>3 DEF IsSaved
<1> DEFINE target == n + 1
<1>6. /\ IsAnalysis(b) /\ b.block = block /\ b.instrs = s.instrs /\ b.complete = s.complete
      /\ b.jumpdest_offsets = Append(s.jumpdest_offsets, i)
      /\ b.jumpdest_targets = Append(s.jumpdest_targets, target)
  BY <1>2, <1>4, <1>5 DEF IsAnalysis
<1>7. IsSequence(a.jumpdest_offsets) /\ IsSequence(a.jumpdest_targets)
  BY DEF Targets
<1>8. IsAppended(a.jumpdest_offsets, i, b.jumpdest_offsets)
  <2> DEFINE t == a.jumpdest_offsets
             u == b.jumpdest_offsets
  <2>1. IsSequence(t) /\ u = Append(t, i)
    BY <1>5, <1>6, <1>7
  <2> HIDE DEF t, u
  <2>2. IsAppended(t, i, u)
    BY <2>1, AppendOne
  <2> QED
    BY <2>2 DEF t, u
<1>9. IsAppended(a.jumpdest_targets, target, b.jumpdest_targets)
  <2> DEFINE t == a.jumpdest_targets
             u == b.jumpdest_targets
  <2>1. IsSequence(t) /\ u = Append(t, target)
    BY <1>5, <1>6, <1>7
  <2> HIDE DEF t, u, target
  <2>2. IsAppended(t, target, u)
    BY <2>1, AppendOne
  <2> QED
    BY <2>2 DEF t, u
<1> QED
  BY <1>5, <1>6, <1>8, <1>9 DEF IsJumpdestOpen, block

LEMMA JumpdestAdded ==
    ASSUME NEW a, NEW l, Sound(a, l), Targets(a), ~a.complete, NEW i \in Nat, NEW b, IsJumpdestOpen(a, i, b),
           NEW info, info = OpTable(OP_JUMPDEST), NEW block, block = ExtendBlock(b.block, info),
           NEW x, x.fn = info.fn, NEW next, NEW c, IsAdded(b, x, block, next, c)
    PROVE  \E l2 : Sound(c, l2) /\ Targets(c) /\ ~c.complete
<1> DEFINE n == Len(a.instrs)
           begin == a.block.begin
           r == a.block.required
           g == a.block.growth
           l2 == NextLabels(l, n, begin, r, g, 0, n + 1)
<1>1. /\ l \in Labels /\ n \in Nat /\ begin \in 1..n /\ begin \in Nat
      /\ r \in Nat /\ g \in Nat /\ l.req[begin] = r /\ l.growth[begin] = g
      /\ l.blk[n + 1] = begin
  BY SoundFacts DEF IsOpen
<1>2. /\ Len(b.instrs) = n /\ b.complete = a.complete /\ b.block = BlockAnalysis(n + 1)
      /\ \A k \in 1..n : /\ b.instrs[k].fn = a.instrs[k].fn
                       /\ b.instrs[k].arg = IF k = begin THEN Close(a.block) ELSE a.instrs[k].arg
      /\ IsAppended(a.jumpdest_offsets, i, b.jumpdest_offsets)
      /\ IsAppended(a.jumpdest_targets, n + 1, b.jumpdest_targets)
  BY DEF IsJumpdestOpen
<1>3. /\ IsAnalysis(c) /\ c.block = block /\ c.complete = a.complete
      /\ Len(c.instrs) = n + 1 /\ c.instrs[n + 1] = x
      /\ \A k \in 1..n : c.instrs[k] = b.instrs[k]
      /\ c.jumpdest_offsets = b.jumpdest_offsets /\ c.jumpdest_targets = b.jumpdest_targets
  BY <1>2 DEF IsAdded, IsAppended
<1>4. info.fn = OP_JUMPDEST /\ info.required = 0 /\ info.change = 0 /\ info.gas \in Int
  <2>1. OP_JUMPDEST \in Opcodes
    BY DEF Opcodes
  <2>2. IsEntry(OP_JUMPDEST, info)
    BY <2>1, OpTableFacts
  <2>3. Traits[OP_JUMPDEST].required = 0 /\ Traits[OP_JUMPDEST].change = 0
    BY <2>1, TraitsFacts
  <2>4. Undefined # OP_JUMPDEST
    BY DEF Undefined
  <2> QED
    BY <2>2, <2>3, <2>4 DEF IsEntry
<1>5. block.begin = n + 1 /\ block.required = 0 /\ block.growth = 0 /\ block.change = 0
  BY <1>2, <1>4 DEF ExtendBlock, BlockAnalysis, Larger
<1> HIDE DEF n, begin, r, g, l2
<1>6. Relabelled(l, n, begin, r, g, 0, n + 1, l2)
  <2>1. 0 \in Int /\ n + 1 \in Nat
    BY <1>1
  <2> QED
    BY <1>1, <2>1, NextLabelsFacts DEF l2
<1>7. /\ c.instrs[n + 1].fn = OP_JUMPDEST
      /\ \A k \in 1..n : /\ c.instrs[k].fn = a.instrs[k].fn
                       /\ c.instrs[k].arg = IF k = begin THEN Close(a.block) ELSE a.instrs[k].arg
  BY <1>2, <1>3, <1>4
<1>8. IsLonger(a, c)
  BY <1>3, <1>7 DEF IsLonger, n, begin
<1>9. Labelled(c, l2, n + 1)
  <2> DEFINE fn == c.instrs[n + 1].fn
             change == l.off[n + 1]
             o == 0
             m == n + 1
  <2>1. IsRight(fn, change, n, begin, r, g, o, m)
    BY <1>7 DEF IsRight, Harmless, Starts
  <2>2. Relabelled(l, n, begin, r, g, o, m, l2)
    BY <1>6
  <2>3. Len(c.instrs) = n + 1
    BY <1>3
  <2> HIDE DEF o, m
  <2>4. Labelled(c, l2, n + 1)
    BY ONLY <1>1, <2>1, <2>2, <2>3, LastLabelled
  <2> QED
    BY <2>4
<1>10. NewBlock(a, c, r, g, 0, n + 1)
  <2>1. c.instrs[begin].arg = Close(a.block)
    BY <1>1, <1>7
  <2> QED
    BY <1>3, <1>5, <1>7, <2>1, CloseFacts DEF NewBlock, Starts, n, begin, r, g
<1>11. Sound(c, l2)
  <2>1. 0 \in Int /\ n + 1 \in Nat /\ n = Len(a.instrs) /\ begin = a.block.begin
        /\ r >= l.req[begin] /\ g >= l.growth[begin]
    BY <1>1 DEF n, begin
  <2> QED
    BY <1>1, <1>6, <1>8, <1>9, <1>10, <2>1, AddInstruction
<1>12. Targets(c)
  <2>1. SameFunctions(a, c)
    BY <1>7 DEF SameFunctions, n
  <2>2. /\ IsAppended(a.jumpdest_offsets, i, c.jumpdest_offsets)
        /\ IsAppended(a.jumpdest_targets, n + 1, c.jumpdest_targets)
    BY <1>2, <1>3
  <2> QED
    BY <1>1, <1>3, <1>7, <2>1, <2>2, TargetAdded DEF n
<1> QED
  BY <1>3, <1>11, <1>12

LEMMA TranslateKeeps ==
    ASSUME code \in Seq(Opcodes), NEW l, Analysis(analysis, l), Waiting(advanced), TranslateInstruction
    PROVE  \E l2 : Analysis(analysis', l2) /\ Execution(analysis', advanced', l2)
<1> DEFINE i == analysis.next
           op == code[i + 1]
           info == OpTable(op)
           a == IF op = OP_JUMPDEST THEN OpenJumpdest(analysis, i) ELSE analysis
           block == ExtendBlock(a.block, info)
           x == [fn |-> info.fn, arg |-> Argument(op, i, block)]
           next == i + 1 + PushSize(op)
           b == [a EXCEPT !.instrs = Append(@, x), !.block = block,
                          !.next = next, !.dead = EndsLiveCode(op)]
           c == IF op = OP_JUMPI THEN [SaveBlock(b) EXCEPT !.block = BlockAnalysis(Len(b.instrs))] ELSE b
<1>1. i < Len(code) /\ analysis' = c /\ advanced' = advanced
  BY DEF TranslateInstruction
<1>2. /\ Sound(analysis, l) /\ Targets(analysis) /\ IsAnalysis(analysis) /\ i \in Nat
      /\ Len(code) \in Nat /\ ~analysis.complete
  <2>1. IsAnalysis(analysis) /\ Len(code) \in Nat
    BY LenProperties DEF Analysis, Sound
  <2>2. i \in Nat /\ analysis.complete \in BOOLEAN
    BY <2>1 DEF IsAnalysis
  <2> QED
    BY <1>1, <2>1, <2>2 DEF Analysis
<1>3. op \in Opcodes
  <2>1. i + 1 \in 1..Len(code)
    BY <1>1, <1>2
  <2> QED
    BY <2>1, ElementOfSeq
<1> HIDE DEF i, op
<1>4. next \in Nat
  <2>1. PushSize(op) \in 0..2
    BY <1>3, PushSizeFacts
  <2> QED
    BY <1>2, <2>1
<1> HIDE DEF info
<1>5. IsEntry(op, info)
  BY <1>3, OpTableFacts DEF info
<1>6. IsInstruction(x) /\ x.fn = info.fn
  BY <1>5 DEF IsInstruction, IsEntry
<1>7. info.gas \in Int /\ info.required \in Int /\ info.change \in Int
  BY <1>5 DEF IsEntry
<1>8. op = OP_JUMPDEST => IsJumpdestOpen(analysis, i, a)
  <2> SUFFICES ASSUME op = OP_JUMPDEST
               PROVE  IsJumpdestOpen(analysis, i, a)
    OBVIOUS
  <2>1. a = OpenJumpdest(analysis, i)
    OBVIOUS
  <2> HIDE DEF a
  <2> QED
    BY <1>2, <2>1, OpenJumpdestFacts
<1>9. op # OP_JUMPDEST => a = analysis
  OBVIOUS
<1>10. IsAnalysis(a) /\ a.block \in Blocks
  <2>1. IsAnalysis(a)
    BY <1>2, <1>8, <1>9 DEF IsJumpdestOpen
  <2> QED
    BY <2>1 DEF IsAnalysis
<1> HIDE DEF a, x, next
<1>11. IsExtended(a.block, info, block)
  <2> DEFINE y == a.block
             z == ExtendBlock(y, info)
  <2>1. y \in Blocks
    BY <1>10
  <2> HIDE DEF y
  <2>2. z = ExtendBlock(y, info)
    OBVIOUS
  <2> HIDE DEF z
  <2>3. IsExtended(y, info, z)
    BY <1>7, <2>1, <2>2, ExtendBlockFacts
  <2> QED
    BY <2>3 DEF y, z
<1> HIDE DEF block
<1>12. IsAdded(a, x, block, next, b)
  <2> DEFINE dead == EndsLiveCode(op)
  <2>1. b = [a EXCEPT !.instrs = Append(@, x), !.block = block, !.next = next, !.dead = dead]
    OBVIOUS
  <2>2. block \in Blocks
    BY <1>11 DEF IsExtended
  <2> HIDE DEF b, dead
  <2> QED
    BY <1>4, <1>6, <1>10, <2>1, <2>2, AddedFacts
<1> HIDE DEF b
<1>13. \E l2 : Sound(c, l2) /\ Targets(c) /\ ~c.complete
  <2>1. CASE op = OP_JUMPDEST
    <3>1. c = b /\ info = OpTable(OP_JUMPDEST)
      BY <2>1 DEF info
    <3>2. block = ExtendBlock(a.block, info)
      BY DEF block
    <3>3. \E l2 : Sound(b, l2) /\ Targets(b) /\ ~b.complete
      BY <1>2, <1>6, <1>8, <1>12, <2>1, <3>1, <3>2, JumpdestAdded
    <3> QED
      BY <3>1, <3>3
  <2>2. CASE op = OP_JUMPI
    <3>1. a = analysis /\ info = OpTable(OP_JUMPI) /\ c = [SaveBlock(b) EXCEPT !.block = BlockAnalysis(Len(b.instrs))]
      BY <1>9, <2>2 DEF info
    <3> HIDE DEF c
    <3>2. IsExtended(analysis.block, info, block) /\ IsAdded(analysis, x, block, next, b)
      BY <1>11, <1>12, <3>1
    <3> QED
      BY <1>2, <1>6, <3>1, <3>2, JumpiAdded
  <2>3. CASE op \notin {OP_JUMPDEST, OP_JUMPI}
    <3>1. a = analysis /\ info = OpTable(op) /\ c = b /\ op \in Opcodes \ {OP_JUMPDEST, OP_JUMPI}
      BY <1>3, <1>9, <2>3 DEF info
    <3>2. IsExtended(analysis.block, info, block) /\ IsAdded(analysis, x, block, next, b)
      BY <1>11, <1>12, <3>1
    <3>3. \E l2 : Sound(b, l2) /\ Targets(b) /\ ~b.complete
      BY <1>2, <1>6, <3>1, <3>2, PlainAdded
    <3> QED
      BY <3>1, <3>3
  <2> QED
    BY <2>1, <2>2, <2>3
<1> HIDE DEF c
<1>14. PICK l2 : Sound(c, l2) /\ Targets(c) /\ ~c.complete
  BY <1>13
<1>15. Analysis(c, l2)
  BY <1>14 DEF Analysis
<1>16. Execution(c, advanced, l2)
  BY <1>14, WaitingExecution
<1> QED
  BY <1>1, <1>15, <1>16

LEMMA WithNext ==
    ASSUME NEW a, IsAnalysis(a), NEW next \in Nat, NEW c, c = [a EXCEPT !.next = next]
    PROVE  /\ IsAnalysis(c) /\ c.block = a.block /\ c.instrs = a.instrs /\ c.complete = a.complete
           /\ c.jumpdest_offsets = a.jumpdest_offsets /\ c.jumpdest_targets = a.jumpdest_targets
BY DEF IsAnalysis

LEMMA SkipKeeps ==
    ASSUME code \in Seq(Opcodes), NEW l, Analysis(analysis, l), Waiting(advanced), SkipDeadCode
    PROVE  Analysis(analysis', l) /\ Execution(analysis', advanced', l)
<1> DEFINE i == analysis.next
           op == code[i + 1]
           next == i + 1 + PushSize(op)
<1>1. i < Len(code) /\ advanced' = advanced /\ analysis' = [analysis EXCEPT !.next = @ + 1 + PushSize(op)]
  BY DEF SkipDeadCode
<1>2. /\ Sound(analysis, l) /\ Targets(analysis) /\ IsAnalysis(analysis) /\ i \in Nat
      /\ Len(code) \in Nat /\ ~analysis.complete
  <2>1. IsAnalysis(analysis) /\ Len(code) \in Nat
    BY LenProperties DEF Analysis, Sound
  <2>2. i \in Nat /\ analysis.complete \in BOOLEAN
    BY <2>1 DEF IsAnalysis
  <2> QED
    BY <1>1, <2>1, <2>2 DEF Analysis
<1>3. next \in Nat
  <2>1. i + 1 \in 1..Len(code)
    BY <1>1, <1>2
  <2>2. op \in Opcodes
    BY <2>1, ElementOfSeq
  <2>3. PushSize(op) \in 0..2
    BY <2>2, PushSizeFacts
  <2> HIDE DEF op
  <2> QED
    BY <1>2, <2>3
<1> DEFINE c == analysis'
<1>4. c = [analysis EXCEPT !.next = next]
  BY <1>1, <1>2 DEF IsAnalysis
<1> HIDE DEF c, next
<1>5. /\ IsAnalysis(c) /\ c.block = analysis.block /\ c.instrs = analysis.instrs
      /\ c.complete = analysis.complete
      /\ c.jumpdest_offsets = analysis.jumpdest_offsets /\ c.jumpdest_targets = analysis.jumpdest_targets
  BY <1>2, <1>3, <1>4, WithNext
<1>6. \A k : Labelled(c, l, k) = Labelled(analysis, l, k) /\ Saved(c, l, k) = Saved(analysis, l, k)
  BY <1>5 DEF Labelled, Saved
<1>7. Sound(c, l)
  BY <1>2, <1>5, <1>6 DEF Sound, Current
<1>8. Targets(c)
  BY <1>2, <1>5 DEF Targets
<1>9. Analysis(c, l)
  BY <1>2, <1>5, <1>7, <1>8 DEF Analysis
<1>10. Execution(c, advanced, l)
  BY <1>7, WaitingExecution
<1> QED
  BY <1>1, <1>9, <1>10 DEF c

IsCompleted(a, x, c) ==
    /\ IsAnalysis(c) /\ IsAppended(a.instrs, x, c.instrs)
    /\ c.block = a.block /\ c.next = a.next /\ c.complete
    /\ c.jumpdest_offsets = a.jumpdest_offsets /\ c.jumpdest_targets = a.jumpdest_targets

LEMMA CompletedFacts ==
    ASSUME NEW a, IsAnalysis(a), NEW x, IsInstruction(x), NEW c,
           c = [a EXCEPT !.instrs = Append(@, x), !.complete = TRUE]
    PROVE  IsCompleted(a, x, c)
<1> DEFINE instrs == Append(a.instrs, x)
           s == a.instrs
<1>1. c = [next |-> a.next, dead |-> a.dead, complete |-> TRUE, block |-> a.block,
           instrs |-> instrs, jumpdest_offsets |-> a.jumpdest_offsets,
           jumpdest_targets |-> a.jumpdest_targets]
  BY DEF IsAnalysis
<1>2. IsSequence(s) /\ Len(s) \in Nat /\ (\A k \in 1..Len(s) : IsInstruction(s[k])) /\ instrs = Append(s, x)
  BY IsSequenceFacts DEF IsAnalysis
<1> HIDE DEF instrs
<1>3. /\ c.next = a.next /\ c.dead = a.dead /\ c.complete = TRUE /\ c.block = a.block /\ c.instrs = instrs
      /\ c.jumpdest_offsets = a.jumpdest_offsets /\ c.jumpdest_targets = a.jumpdest_targets
  BY ONLY <1>1
<1>4. c = [next |-> c.next, dead |-> c.dead, complete |-> c.complete, block |-> c.block,
           instrs |-> c.instrs, jumpdest_offsets |-> c.jumpdest_offsets,
           jumpdest_targets |-> c.jumpdest_targets]
  BY <1>1, <1>3
<1> HIDE DEF s
<1>5. IsAppended(s, x, instrs)
  BY <1>2, AppendOne
<1>6. IsSequence(instrs) /\ \A k \in 1..Len(instrs) : IsInstruction(instrs[k])
  BY <1>2, <1>5 DEF IsAppended
<1>7. IsAnalysis(c)
  <2>1. a.next \in Nat /\ a.block \in Blocks
    BY DEF IsAnalysis
  <2> QED
    BY <1>3, <1>4, <1>6, <2>1 DEF IsAnalysis
<1> QED
  BY <1>3, <1>5, <1>7 DEF s, IsCompleted

LEMMA CompleteKeeps ==
    ASSUME NEW l, Analysis(analysis, l), Waiting(advanced), CompleteAnalysis
    PROVE  Analysis(analysis', l) /\ Execution(analysis', advanced', l)
<1> DEFINE n == Len(analysis.instrs)
           begin == analysis.block.begin
           s == SaveBlock(analysis)
           x == [fn |-> OP_STOP, arg |-> Close(BlockAnalysis(1))]
           c == analysis'
<1>1. /\ Sound(analysis, l) /\ Targets(analysis) /\ ~analysis.complete
      /\ c = [s EXCEPT !.instrs = Append(@, x), !.complete = TRUE]
      /\ analysis.next >= Len(code) /\ advanced' = advanced
  BY DEF Analysis, CompleteAnalysis
<1>2. /\ IsAnalysis(analysis) /\ n \in Nat /\ begin \in 1..n /\ l \in Labels
      /\ l.req[begin] = analysis.block.required /\ l.growth[begin] = analysis.block.growth
      /\ l.blk[n + 1] = begin
  BY <1>1, SoundFacts DEF IsOpen
<1>3. IsSaved(analysis, s)
  <2> HIDE DEF s
  <2> QED
    BY <1>2, SaveBlockFacts DEF s
<1>4. IsInstruction(x) /\ x.fn = OP_STOP
  BY DEF IsInstruction, Opcodes, Implemented, Eip8024
<1> HIDE DEF s, x, c
<1>5. /\ IsAnalysis(c) /\ IsAppended(s.instrs, x, c.instrs)
      /\ c.block = s.block /\ c.next = s.next /\ c.complete
      /\ c.jumpdest_offsets = s.jumpdest_offsets /\ c.jumpdest_targets = s.jumpdest_targets
  <2>1. IsAnalysis(s)
    BY <1>3 DEF IsSaved
  <2>2. IsCompleted(s, x, c)
    BY <1>1, <1>4, <2>1, CompletedFacts
  <2> QED
    BY <2>2 DEF IsCompleted
<1>6. /\ Len(c.instrs) = n + 1 /\ c.instrs[n + 1].fn = OP_STOP
      /\ \A k \in 1..n : /\ c.instrs[k].fn = analysis.instrs[k].fn
                       /\ c.instrs[k].arg = IF k = begin THEN Close(analysis.block) ELSE analysis.instrs[k].arg
  BY <1>3, <1>4, <1>5 DEF IsSaved, IsAppended
<1>7. /\ Len(analysis.instrs) >= 1 /\ analysis.instrs[1].fn = OP_JUMPDEST
      /\ \A k \in 1..n : Labelled(analysis, l, k) /\ (k # begin => Saved(analysis, l, k))
  BY <1>1 DEF Sound
<1>8. Len(c.instrs) >= 1 /\ c.instrs[1].fn = OP_JUMPDEST
  BY <1>2, <1>6, <1>7
<1> HIDE DEF n, begin
<1>9. ASSUME NEW k \in 1..(n + 1)
      PROVE  Labelled(c, l, k) /\ Saved(c, l, k)
  <2>1. CASE k = n + 1
    <3>1. begin \in 1..(n + 1)
      BY <1>2
    <3> QED
      BY <1>2, <1>6, <2>1, <3>1 DEF Labelled, Saved, Harmless, Starts, Opcodes
  <2>2. CASE k # n + 1
    <3>1. k \in 1..n
      BY <1>2, <2>2
    <3>2. c.instrs[k].fn = analysis.instrs[k].fn /\ Labelled(analysis, l, k)
      BY <1>6, <1>7, <3>1
    <3>3. l.blk[k] \in 1..n
      BY <3>2 DEF Labelled, n
    <3>4. l.blk[k] \in 1..Len(c.instrs)
      BY <1>2, <1>6, <3>3
    <3>5. Labelled(c, l, k)
      BY <3>2, <3>4 DEF Labelled
    <3>6. CASE k = begin
      <4>1. c.instrs[k].arg = Close(analysis.block)
        BY <1>6, <3>1, <3>6
      <4> QED
        BY <1>2, <3>5, <3>6, <4>1, CloseFacts DEF Saved
    <3>7. CASE k # begin
      <4>1. c.instrs[k].arg = analysis.instrs[k].arg /\ Saved(analysis, l, k)
        BY <1>6, <1>7, <3>1, <3>7
      <4> QED
        BY <3>2, <3>5, <4>1 DEF Saved
    <3> QED
      BY <3>6, <3>7
  <2> QED
    BY <2>1, <2>2
<1>10. Sound(c, l)
  BY <1>2, <1>5, <1>6, <1>8, <1>9 DEF Sound
<1>11. Targets(c)
  <2>1. SameFunctions(analysis, c)
    BY <1>6 DEF SameFunctions, n
  <2>2. /\ c.jumpdest_offsets = analysis.jumpdest_offsets /\ c.jumpdest_targets = analysis.jumpdest_targets
        /\ n = Len(analysis.instrs) /\ Len(c.instrs) \in Nat /\ Len(c.instrs) >= n
    BY <1>2, <1>3, <1>5, <1>6 DEF IsSaved, n
  <2> QED
    BY <1>1, <1>2, <2>1, <2>2, TargetsKept
<1>12. Analysis(c, l)
  <2>1. c.next >= Len(code)
    BY <1>1, <1>3, <1>5 DEF IsSaved
  <2> QED
    BY <1>6, <1>10, <1>11, <2>1 DEF Analysis
<1>13. Execution(c, advanced, l)
  BY <1>10, WaitingExecution
<1> QED
  BY <1>1, <1>12, <1>13 DEF c

-----------------------------------------------------------------------------
(* The execution of the Advanced interpreter. *)

\* An instruction that turns frame f into g changes the height of the stack by change.
Stepped(f, g, change) ==
    /\ IsFrame(g) /\ g.pc = f.pc /\ IsSequence(g.stack)
    /\ g.status = "RUNNING" => f.status = "RUNNING" /\ Len(g.stack) = Len(f.stack) + change

LEMMA PushStepped ==
    ASSUME NEW f, IsFrame(f), IsSequence(f.stack), NEW x
    PROVE  Stepped(f, Push(f, x), 1)
<1>1. /\ IsFrame(Push(f, x)) /\ Push(f, x).pc = f.pc /\ Push(f, x).status = f.status
      /\ Push(f, x).stack = <<x>> \o f.stack
  BY PushFacts
<1> DEFINE s == <<x>> \o f.stack
<1>2. IsSequence(s) /\ Len(s) = Len(f.stack) + 1
  BY PushStack
<1> HIDE DEF s
<1>3. Push(f, x).stack = s
  BY <1>1 DEF s
<1> QED
  BY <1>1, <1>2, <1>3 DEF Stepped

LEMMA PopStepped ==
    ASSUME NEW f, IsFrame(f), IsSequence(f.stack), NEW n \in Nat, n <= Len(f.stack)
    PROVE  Stepped(f, Pop(f, n), -n)
<1> DEFINE s == SubSeq(f.stack, n + 1, Len(f.stack))
<1>1. /\ IsFrame(Pop(f, n)) /\ Pop(f, n).pc = f.pc /\ Pop(f, n).status = f.status
      /\ Pop(f, n).stack = s
  BY PopFacts
<1>2. IsSequence(s) /\ Len(s) = Len(f.stack) - n
  BY PopStack
<1> HIDE DEF s
<1>3. Len(f.stack) \in Nat
  BY IsSequenceFacts
<1>4. Len(s) = Len(f.stack) + (-n)
  BY <1>2, <1>3
<1> QED
  BY <1>1, <1>2, <1>4 DEF Stepped

LEMMA ExitStepped ==
    ASSUME NEW f, IsFrame(f), IsSequence(f.stack), NEW r, r # "RUNNING", NEW change
    PROVE  Stepped(f, Exit(f, r), change)
BY ExitFacts DEF Stepped

LEMMA GasStepped ==
    ASSUME NEW f, IsFrame(f), IsSequence(f.stack), NEW x, NEW g, g = [f EXCEPT !.gas = x]
    PROVE  Stepped(f, g, 0)
<1>1. Len(f.stack) \in Nat
  BY IsSequenceFacts
<1>2. IsFrame(g) /\ g.pc = f.pc /\ g.status = f.status /\ g.stack = f.stack
  BY WithGas
<1> QED
  BY <1>1, <1>2 DEF Stepped

LEMMA SteppedTwice ==
    ASSUME NEW f, IsSequence(f.stack), NEW g, NEW h, NEW c \in Int, NEW d \in Int,
           Stepped(f, g, c), Stepped(g, h, d)
    PROVE  Stepped(f, h, c + d)
<1>1. Len(f.stack) \in Nat
  BY IsSequenceFacts
<1>2. IsFrame(h) /\ h.pc = f.pc /\ IsSequence(h.stack)
  BY DEF Stepped
<1>3. ASSUME h.status = "RUNNING"
      PROVE  f.status = "RUNNING" /\ Len(h.stack) = Len(f.stack) + (c + d)
  <2>1. /\ f.status = "RUNNING"
        /\ Len(h.stack) = Len(g.stack) + d /\ Len(g.stack) = Len(f.stack) + c
    BY <1>3 DEF Stepped
  <2> DEFINE x == Len(f.stack)
             y == Len(g.stack)
             z == Len(h.stack)
  <2>2. x \in Int /\ z = y + d /\ y = x + c
    BY <1>1, <2>1
  <2> HIDE DEF x, y, z
  <2>3. z = x + (c + d)
    BY <2>2
  <2> QED
    BY <2>1, <2>3 DEF x, z
<1> QED
  BY <1>2, <1>3 DEF Stepped

LEMMA Minimum ==
    ASSUME NEW T \in SUBSET Nat, T # {}
    PROVE  \E x \in T : \A y \in T : x <= y
<1> DEFINE R == OpToRel(<, Nat)
<1>1. IsWellFoundedOn(R, Nat)
  BY NatLessThanWellFounded
<1> HIDE DEF R
<1>2. PICK x \in T : \A y \in T : ~(<<y, x>> \in R)
  BY <1>1, WFMin
<1>3. \A y \in T : ~(y < x)
  BY <1>2 DEF R, OpToRel
<1> QED
  BY <1>3

LEMMA FindJumpdestFacts ==
    ASSUME Targets(analysis), NEW dst, FindJumpdest(dst) # 0
    PROVE  /\ FindJumpdest(dst) \in 1..Len(analysis.instrs)
           /\ analysis.instrs[FindJumpdest(dst)].fn = OP_JUMPDEST
<1> DEFINE offsets == analysis.jumpdest_offsets
           notLess == {n \in DOMAIN offsets : offsets[n] >= dst}
           first == CHOOSE n \in notLess : \A k \in notLess : n <= k
<1>1. notLess # {} /\ FindJumpdest(dst) = analysis.jumpdest_targets[first]
  BY DEF FindJumpdest
<1>2. DOMAIN offsets = 1..Len(offsets) /\ Len(offsets) \in Nat
  BY IsSequenceFacts DEF Targets
<1>3. notLess \in SUBSET Nat
  BY <1>2
<1>4. \E n \in notLess : \A k \in notLess : n <= k
  <2> HIDE DEF notLess
  <2> QED
    BY <1>1, <1>3, Minimum
<1>5. first \in notLess
  <2> HIDE DEF notLess
  <2> QED
    BY <1>4
<1> HIDE DEF first
<1>6. first \in 1..Len(offsets)
  BY <1>2, <1>5
<1> QED
  BY <1>1, <1>6 DEF Targets

LEMMA CallStepped ==
    ASSUME NEW f, IsFrame(f), IsSequence(f.stack), 1 <= Len(f.stack)
    PROVE  Stepped(f, Call(f), 0)
<1> DEFINE p == Pop(f, 1)
           h(used) == [p EXCEPT !.gas = @ - used]
<1>1. PICK used, x : Call(f) = Push(h(used), x)
  BY DEF Call
<1>2. Stepped(f, p, -1)
  BY PopStepped
<1> HIDE DEF p
<1>3. IsFrame(p) /\ IsSequence(p.stack)
  BY <1>2 DEF Stepped
<1> DEFINE y == p.gas - used
           q == h(used)
<1>4. q = [p EXCEPT !.gas = y]
  BY <1>3 DEF IsFrame
<1> HIDE DEF h, y, q
<1>5. Stepped(p, q, 0)
  BY <1>3, <1>4, GasStepped
<1>6. IsFrame(q) /\ IsSequence(q.stack)
  BY <1>5 DEF Stepped
<1>7. Stepped(q, Push(q, x), 1)
  BY <1>6, PushStepped
<1>8. Stepped(f, q, -1 + 0)
  BY <1>2, <1>5, SteppedTwice
<1>9. Stepped(f, Push(q, x), (-1 + 0) + 1)
  <2> DEFINE c == -1 + 0
             d == 1
             r == Push(q, x)
  <2>1. c \in Int /\ d \in Int /\ Stepped(f, q, c) /\ Stepped(q, r, d)
    BY <1>7, <1>8
  <2> HIDE DEF c, d, r
  <2>2. Stepped(f, r, c + d)
    BY <2>1, SteppedTwice
  <2> QED
    BY <2>2 DEF c, d, r
<1>10. (-1 + 0) + 1 = 0
  OBVIOUS
<1> QED
  BY <1>1, <1>9, <1>10 DEF q

LEMMA MStoreStepped ==
    ASSUME NEW f, IsFrame(f), IsSequence(f.stack), 2 <= Len(f.stack)
    PROVE  Stepped(f, MStore(f), -2)
<1> DEFINE p == Pop(f, 2)
           h(growth) == [p EXCEPT !.gas = @ - growth, !.memory = @ + growth]
<1>1. MStore(f) = Exit(f, "OUT_OF_GAS") \/ \E growth : MStore(f) = h(growth)
  BY DEF MStore
<1>2. Stepped(f, p, -2)
  BY PopStepped
<1> HIDE DEF p
<1>3. CASE MStore(f) = Exit(f, "OUT_OF_GAS")
  BY <1>3, ExitStepped
<1>4. CASE \E growth : MStore(f) = h(growth)
  <2>1. PICK growth : MStore(f) = h(growth)
    BY <1>4
  <2>2. IsFrame(p)
    BY <1>2 DEF Stepped
  <2>3. /\ IsFrame(h(growth)) /\ h(growth).pc = p.pc /\ h(growth).status = p.status
        /\ h(growth).stack = p.stack
    <3> DEFINE x == p.gas - growth
               y == p.memory + growth
               g == h(growth)
    <3>1. g = [p EXCEPT !.gas = x, !.memory = y]
      BY <2>2 DEF IsFrame
    <3> HIDE DEF x, y, g
    <3>2. IsFrame(g) /\ g.pc = p.pc /\ g.status = p.status /\ g.stack = p.stack
      BY ONLY <2>2, <3>1 DEF IsFrame
    <3> QED
      BY <3>2 DEF g
  <2> HIDE DEF h
  <2> QED
    BY <1>2, <2>1, <2>3 DEF Stepped
<1> QED
  BY <1>1, <1>3, <1>4

\* An instruction changes the stack as its traits say.
LEMMA CoreStepped ==
    ASSUME NEW op \in CoreOpcodes, NEW f, IsFrame(f), IsSequence(f.stack),
           Traits[op].required <= Len(f.stack)
    PROVE  Stepped(f, Core(op, f), Traits[op].change)
<1>1. op \in Opcodes
  BY DEF CoreOpcodes, Opcodes
<1>2. Len(f.stack) \in Nat
  BY IsSequenceFacts
<1>3. CASE op = OP_STOP
  BY <1>3, ExitStepped DEF Core
<1>4. CASE op = OP_POP
  <2>1. Traits[op].change = -1 /\ 1 <= Len(f.stack)
    BY <1>1, <1>4, TraitsFacts
  <2> QED
    BY <1>4, <2>1, PopStepped DEF Core
<1>5. CASE op = OP_MSTORE
  <2>1. Traits[op].change = -2 /\ 2 <= Len(f.stack)
    BY <1>1, <1>5, TraitsFacts
  <2> QED
    BY <1>5, <2>1, MStoreStepped DEF Core
<1>6. CASE op \in {OP_GAS, OP_PUSH0}
  <2>1. Traits[op].change = 1
    BY <1>1, <1>6, TraitsFacts
  <2>2. \E x : Core(op, f) = Push(f, x)
    BY <1>6 DEF Core
  <2> QED
    BY <2>1, <2>2, PushStepped
<1>7. CASE op = OP_DUP1
  <2>1. Traits[op].change = 1
    BY <1>1, <1>7, TraitsFacts
  <2>2. Core(op, f) = Push(f, f.stack[1])
    BY <1>7 DEF Core
  <2> QED
    BY <2>1, <2>2, PushStepped
<1>8. CASE op = OP_CALL
  <2>1. Traits[op].change = 0 /\ 1 <= Len(f.stack)
    BY <1>1, <1>8, TraitsFacts
  <2>2. Core(op, f) = Call(f)
    BY <1>8 DEF Core
  <2> QED
    BY <2>1, <2>2, CallStepped
<1>9. CASE op \in {OP_JUMPDEST, OP_INVALID}
  <2>1. Traits[op].change = 0
    BY <1>1, <1>9, TraitsFacts
  <2>2. Core(op, f) = f
    BY <1>9 DEF Core
  <2> QED
    BY <1>2, <2>1, <2>2 DEF Stepped
<1> QED
  BY <1>3, <1>4, <1>5, <1>6, <1>7, <1>8, <1>9 DEF CoreOpcodes

\* The instruction that follows, after one that is not the end of its block.
Continues(l, k, change) == l.off[k + 1] = l.off[k] + change /\ l.blk[k + 1] = l.blk[k]

LEMMA WithinBlock ==
    ASSUME NEW l, NEW f, NEW g, NEW fn \in Opcodes, NEW k \in Nat, f.pc = k, l \in Labels,
           IsSequence(f.stack), Fits(f, l), Stepped(f, g, Traits[fn].change), g.status = "RUNNING",
           Continues(l, k, Traits[fn].change),
           NEW h, h.stack = g.stack, h.pc = k + 1
    PROVE  Fits(h, l)
<1> DEFINE x == Len(f.stack)
           o == l.off[k]
           c == Traits[fn].change
<1>1. x \in Int /\ o \in Int /\ c \in Int
  <2>1. c \in -2..1
    BY TraitsFacts
  <2>2. o \in Int
    BY DEF Labels
  <2>3. x \in Nat
    BY IsSequenceFacts
  <2> QED
    BY <2>1, <2>2, <2>3
<1>2. Len(h.stack) = x + c /\ l.off[h.pc] = o + c /\ l.blk[h.pc] = l.blk[k]
  BY DEF Stepped, Continues
<1>3. l.req[l.blk[k]] <= x - o /\ (x - o) + l.growth[l.blk[k]] <= StackLimit
  BY DEF Fits
<1> HIDE DEF x, o, c
<1>4. (x + c) - (o + c) = x - o
  BY <1>1
<1> QED
  BY <1>2, <1>3, <1>4 DEF Fits

\* What the instruction needs, and what it leaves.
LEMMA OperandsThere ==
    ASSUME NEW a, NEW l \in Labels, NEW f, IsSequence(f.stack), NEW k \in Nat, f.pc = k, Labelled(a, l, k),
           NEW fn, fn = a.instrs[k].fn, fn \in Opcodes \ Harmless, Fits(f, l)
    PROVE  Traits[fn].required <= Len(f.stack) /\ Len(f.stack) + Traits[fn].change <= StackLimit
<1> DEFINE x == Len(f.stack)
           o == l.off[k]
           c == Traits[fn].change
           r == Traits[fn].required
           q == l.req[l.blk[k]]
           g == l.growth[l.blk[k]]
<1>1. x \in Int /\ o \in Int /\ c \in Int /\ r \in Int /\ q \in Int /\ g \in Int
  <2>1. c \in -2..1 /\ r \in 0..2
    BY TraitsFacts
  <2>2. o \in Int /\ l.blk[k] \in Nat
    BY DEF Labels
  <2>3. q \in Nat /\ g \in Nat
    BY <2>2 DEF Labels
  <2>4. x \in Nat
    BY IsSequenceFacts
  <2> QED
    BY <2>1, <2>2, <2>3, <2>4
<1>2. r - o <= q /\ o + c <= g
  BY DEF Labelled
<1>3. q <= x - o /\ (x - o) + g <= StackLimit
  BY DEF Fits
<1>4. StackLimit \in Int
  BY InstructionsAssumption
<1> HIDE DEF x, o, c, r, q, g
<1>5. r <= x /\ x + c <= StackLimit
  BY <1>1, <1>2, <1>3, <1>4
<1> QED
  BY <1>5 DEF x, c, r

LEMMA NextPc ==
    ASSUME NEW g, IsFrame(g), NEW h, h = [g EXCEPT !.pc = @ + 1]
    PROVE  IsFrame(h) /\ h.pc = g.pc + 1 /\ h.status = g.status /\ h.stack = g.stack
<1> DEFINE i == g.pc + 1
<1>1. h = [g EXCEPT !.pc = i]
  BY DEF IsFrame
<1> HIDE DEF i
<1>2. IsFrame(h) /\ h.pc = i /\ h.status = g.status /\ h.stack = g.stack
  BY <1>1, WithPc
<1> QED
  BY <1>2 DEF i

\* The requirements in BlockInfo are lower than the true ones only where the
\* stack cannot fulfil those in BlockInfo either.
LEMMA ClampedRequirements ==
    ASSUME NEW x \in Nat, NEW required \in Nat, NEW growth \in Nat, x <= StackLimit,
           x >= Clamp(required, BlockStackMax), x + Clamp(growth, BlockStackMax) <= StackLimit
    PROVE  required <= x /\ x + growth <= StackLimit
<1>1. StackLimit \in Nat
  BY InstructionsAssumption
<1> QED
  BY <1>1, InterpretersAssumption DEF Clamp

LEMMA EndedExecution ==
    ASSUME NEW a, a.complete, NEW l, NEW g, IsFrame(g), IsSequence(g.stack), g.status # "RUNNING"
    PROVE  Execution(a, g, l)
BY DEF Execution

\* The last instruction is a STOP: there is one after any other.
LEMMA NotLast ==
    ASSUME NEW a, NEW l, Analysis(a, l), a.complete, NEW k \in 1..Len(a.instrs), a.instrs[k].fn # OP_STOP
    PROVE  k + 1 \in 1..Len(a.instrs)
<1>1. Len(a.instrs) \in Nat
  BY IsSequenceFacts DEF Analysis, Sound, IsAnalysis
<1>2. k # Len(a.instrs)
  BY DEF Analysis
<1> QED
  BY <1>1, <1>2

LEMMA BeginBlockKeeps ==
    ASSUME NEW a, NEW l, Analysis(a, l), a.complete, NEW k \in 1..Len(a.instrs), a.instrs[k].fn \in Starts,
           NEW f, IsFrame(f), IsSequence(f.stack), f.pc = k, Len(f.stack) <= StackLimit,
           NEW block, block = a.instrs[k].arg, NEW g, g = BeginBlock(f, block)
    PROVE  Execution(a, g, l)
<1> DEFINE paid == [f EXCEPT !.gas = @ - block.gas, !.block_cost = block.gas, !.pc = @ + 1]
           height == Len(f.stack)
<1>1. \/ \E r : r # "RUNNING" /\ g = Exit(f, r)
      \/ g = paid /\ height >= block.required /\ height + block.growth <= StackLimit
  BY DEF BeginBlock
<1>2. CASE \E r : r # "RUNNING" /\ g = Exit(f, r)
  <2>1. IsFrame(g) /\ g.status # "RUNNING" /\ IsSequence(g.stack)
    BY <1>2, ExitFacts
  <2> QED
    BY <2>1, EndedExecution
<1>3. CASE g = paid /\ height >= block.required /\ height + block.growth <= StackLimit
  <2>1. IsFrame(g) /\ g.pc = k + 1 /\ g.stack = f.stack
    <3> DEFINE x == f.gas - block.gas
               y == block.gas
               z == f.pc + 1
    <3>1. g = [f EXCEPT !.gas = x, !.block_cost = y, !.pc = z]
      BY <1>3
    <3> HIDE DEF x, y, z
    <3>2. IsFrame(g) /\ g.pc = z /\ g.stack = f.stack
      BY ONLY <3>1, IsFrame(f) DEF IsFrame
    <3> QED
      BY <3>2 DEF z
  <2>2. /\ l \in Labels /\ Labelled(a, l, k) /\ Saved(a, l, k) /\ k \in Nat
    BY IsSequenceFacts DEF Analysis, Sound
  <2>3. /\ block.required = Clamp(l.req[k], BlockStackMax) /\ block.growth = Clamp(l.growth[k], BlockStackMax)
        /\ l.req[k] \in Nat /\ l.growth[k] \in Nat
        /\ l.off[k + 1] = 0 /\ l.blk[k + 1] = k
    BY <2>2 DEF Saved, Labelled, Labels
  <2>4. height \in Nat
    BY IsSequenceFacts
  <2>5. l.req[k] <= height /\ height + l.growth[k] <= StackLimit
    <3> DEFINE required == l.req[k]
               growth == l.growth[k]
    <3>1. /\ required \in Nat /\ growth \in Nat /\ height <= StackLimit
          /\ height >= Clamp(required, BlockStackMax) /\ height + Clamp(growth, BlockStackMax) <= StackLimit
      BY <1>3, <2>3
    <3> HIDE DEF required, growth, height
    <3>2. required <= height /\ height + growth <= StackLimit
      BY <2>4, <3>1, ClampedRequirements
    <3> QED
      BY <3>2 DEF required, growth
  <2>6. Fits(g, l)
    <3>1. height - 0 = height
      BY <2>4
    <3> QED
      BY <2>1, <2>3, <2>5, <3>1 DEF Fits
  <2>7. k + 1 \in 1..Len(a.instrs)
    <3>1. a.instrs[k].fn # OP_STOP
      BY DEF Starts
    <3> QED
      BY <3>1, NotLast
  <2> QED
    BY <2>1, <2>6, <2>7 DEF Execution
<1> QED
  BY <1>1, <1>2, <1>3

LEMMA JumpKeeps ==
    ASSUME NEW l, Analysis(analysis, l), analysis.complete,
           NEW f, IsFrame(f), IsSequence(f.stack), Len(f.stack) <= StackLimit, NEW dst, NEW g, g = OpJump(f, dst)
    PROVE  Execution(analysis, g, l)
<1>1. CASE FindJumpdest(dst) = 0
  <2>1. g = Exit(f, "BAD_JUMP_DESTINATION")
    BY <1>1 DEF OpJump
  <2>2. IsFrame(g) /\ g.status # "RUNNING" /\ IsSequence(g.stack)
    BY <2>1, ExitFacts
  <2> QED
    BY <2>2, EndedExecution
<1>2. CASE FindJumpdest(dst) # 0
  <2> DEFINE i == FindJumpdest(dst)
  <2>1. g = [f EXCEPT !.pc = i]
    BY <1>2 DEF OpJump
  <2>2. i \in 1..Len(analysis.instrs) /\ analysis.instrs[i].fn = OP_JUMPDEST
    BY <1>2, FindJumpdestFacts DEF Analysis
  <2> HIDE DEF i
  <2>3. IsFrame(g) /\ g.pc = i /\ g.stack = f.stack
    BY ONLY <2>1, IsFrame(f) DEF IsFrame
  <2> QED
    BY <2>2, <2>3 DEF Execution, Harmless
<1> QED
  BY <1>1, <1>2

LEMMA NextKeeps ==
    ASSUME NEW a, NEW l, Analysis(a, l), a.complete, NEW f, Execution(a, f, l), f.status = "RUNNING",
           NEW fn, fn = a.instrs[f.pc].fn, fn \in Opcodes \ (Starts \union {OP_STOP, OP_JUMP}),
           NEW g, Stepped(f, g, Traits[fn].change), NEW h, h = [g EXCEPT !.pc = @ + 1]
    PROVE  Execution(a, h, l)
<1> DEFINE k == f.pc
<1>1. k \in 1..Len(a.instrs) /\ IsFrame(f) /\ IsSequence(f.stack) /\ l \in Labels /\ Labelled(a, l, k)
  BY DEF Execution, Analysis, Sound
<1>2. Len(a.instrs) \in Nat /\ k \in Nat
  BY <1>1, IsSequenceFacts DEF Analysis, Sound, IsAnalysis
<1>3. IsFrame(h) /\ h.pc = k + 1 /\ h.status = g.status /\ h.stack = g.stack /\ IsSequence(h.stack)
  <2>1. IsFrame(g) /\ g.pc = k /\ IsSequence(g.stack)
    BY DEF Stepped
  <2>2. IsFrame(h) /\ h.pc = g.pc + 1 /\ h.status = g.status /\ h.stack = g.stack
    BY <2>1, NextPc
  <2> QED
    BY <2>1, <2>2
<1>4. CASE h.status # "RUNNING"
  BY <1>3, <1>4, EndedExecution
<1>5. CASE h.status = "RUNNING"
  <2>1. fn \in Opcodes \ Harmless /\ fn # OP_STOP
    BY DEF Harmless, Starts
  <2>2. Fits(f, l)
    BY <2>1 DEF Execution
  <2>3. Continues(l, k, Traits[fn].change)
    BY <1>1 DEF Labelled, Continues
  <2> HIDE DEF k
  <2>4. f.pc = k
    BY DEF k
  <2>5. Fits(h, l)
    <3>1. fn \in Opcodes /\ g.status = "RUNNING" /\ h.stack = g.stack /\ h.pc = k + 1
      BY <1>3, <1>5, <2>1
    <3> QED
      BY ONLY Stepped(f, g, Traits[fn].change), <1>1, <1>2, <2>2, <2>3, <2>4, <3>1, WithinBlock
  <2>6. Len(f.stack) + Traits[fn].change <= StackLimit
    BY <1>1, <1>2, <2>1, <2>2, <2>4, OperandsThere
  <2>7. Len(h.stack) <= StackLimit
    BY <1>3, <1>5, <2>6 DEF Stepped
  <2>8. k + 1 \in 1..Len(a.instrs)
    BY <1>1, <2>1, <2>4, NotLast
  <2> QED
    BY <1>3, <2>5, <2>7, <2>8 DEF Execution
<1> QED
  BY <1>4, <1>5

LEMMA OpCallStepped ==
    ASSUME NEW f, IsFrame(f), IsSequence(f.stack), 1 <= Len(f.stack), NEW x
    PROVE  Stepped(f, OpCall(f, x), 0)
<1> DEFINE y == f.gas + GasLeftCorrection(f, x)
           e == [f EXCEPT !.gas = y]
           called == Call(e)
           after == called.gas - GasLeftCorrection(f, x)
           paid == [called EXCEPT !.gas = after]
<1>1. OpCall(f, x) = Exit(called, "OUT_OF_GAS") \/ OpCall(f, x) = paid
  <2>1. [f EXCEPT !.gas = @ + GasLeftCorrection(f, x)] = e
    BY DEF IsFrame
  <2> QED
    BY <2>1 DEF OpCall
<1>2. e = [f EXCEPT !.gas = y]
  OBVIOUS
<1> HIDE DEF y, e
<1>3. Stepped(f, e, 0) /\ IsFrame(e) /\ e.stack = f.stack
  BY <1>2, GasStepped, WithGas
<1>4. Stepped(e, called, 0)
  BY <1>3, CallStepped
<1> HIDE DEF called
<1>5. IsFrame(called) /\ IsSequence(called.stack)
  BY <1>4 DEF Stepped
<1>6. paid = [called EXCEPT !.gas = after]
  OBVIOUS
<1> HIDE DEF after, paid
<1>7. Stepped(called, paid, 0)
  BY <1>5, <1>6, GasStepped
<1>8. Stepped(called, Exit(called, "OUT_OF_GAS"), 0)
  BY <1>5, ExitStepped
<1> DEFINE c == 0
<1>9. c \in Int /\ Stepped(f, e, c) /\ Stepped(e, called, c) /\ Stepped(called, OpCall(f, x), c)
  BY <1>1, <1>3, <1>4, <1>7, <1>8
<1>10. c + c = c
  OBVIOUS
<1> HIDE DEF c
<1>11. Stepped(f, called, c + c)
  BY <1>3, <1>9, SteppedTwice
<1>12. Stepped(f, called, c)
  BY <1>10, <1>11
<1>13. Stepped(f, OpCall(f, x), c + c)
  BY <1>9, <1>12, SteppedTwice
<1> QED
  BY <1>10, <1>13 DEF c

LEMMA ExecuteKeeps ==
    ASSUME NEW l, Analysis(analysis, l), analysis.complete, NEW f, Execution(analysis, f, l), f.status = "RUNNING",
           NEW g, g = Execute(f, analysis.instrs[f.pc])
    PROVE  Execution(analysis, g, l)
<1> DEFINE k == f.pc
           x == analysis.instrs[k]
           fn == x.fn
           next(h) == [h EXCEPT !.pc = @ + 1]
<1>1. /\ k \in 1..Len(analysis.instrs) /\ IsFrame(f) /\ IsSequence(f.stack) /\ Len(f.stack) <= StackLimit
      /\ l \in Labels /\ Labelled(analysis, l, k) /\ IsInstruction(x) /\ Len(f.stack) \in Nat
  BY IsSequenceFacts DEF Execution, Analysis, Sound, IsAnalysis
<1>2. k \in Nat
  BY <1>1, IsSequenceFacts DEF Analysis, Sound, IsAnalysis
<1>3. fn \in Implemented \union {Undefined} /\ fn \in Opcodes \union {Undefined} /\ Undefined \notin Opcodes
  BY <1>1 DEF IsInstruction, Undefined, Opcodes, Implemented
<1>4. fn \in Opcodes \ Harmless =>
        Traits[fn].required <= Len(f.stack) /\ Len(f.stack) + Traits[fn].change <= StackLimit
  <2> SUFFICES ASSUME fn \in Opcodes \ Harmless
               PROVE  Traits[fn].required <= Len(f.stack) /\ Len(f.stack) + Traits[fn].change <= StackLimit
    OBVIOUS
  <2>1. Fits(f, l)
    BY DEF Execution
  <2> HIDE DEF k, fn
  <2>2. f.pc = k /\ fn = analysis.instrs[k].fn
    BY DEF k, fn
  <2> QED
    BY <1>1, <1>2, <2>1, <2>2, OperandsThere
<1>5. ASSUME fn \in Opcodes \ (Starts \union {OP_STOP, OP_JUMP}),
             NEW h, Stepped(f, h, Traits[fn].change), g = next(h)
      PROVE  Execution(analysis, g, l)
  <2>1. fn = analysis.instrs[f.pc].fn /\ g = [h EXCEPT !.pc = @ + 1]
    BY <1>5
  <2> HIDE DEF fn, next
  <2> QED
    BY <1>5, <2>1, NextKeeps
<1>6. CASE fn = Undefined
  <2>1. g = Exit(f, "UNDEFINED_INSTRUCTION")
    BY <1>6 DEF Execute, Undefined
  <2>2. IsFrame(g) /\ g.status # "RUNNING" /\ IsSequence(g.stack)
    BY <1>1, <2>1, ExitFacts
  <2> QED
    BY <2>2, EndedExecution
<1>7. CASE fn = OP_JUMPDEST
  <2> DEFINE block == x.arg
  <2>1. g = BeginBlock(f, block)
    BY <1>7 DEF Execute, Undefined
  <2>2. fn \in Starts
    BY <1>7 DEF Starts
  <2> QED
    BY <1>1, <2>1, <2>2, BeginBlockKeeps
<1>8. CASE fn = OP_JUMP
  <2> DEFINE h == Pop(f, 1)
             dst == f.stack[1]
  <2>1. g = OpJump(h, dst)
    BY <1>8 DEF Execute, Undefined
  <2>2. 1 <= Len(f.stack)
    <3>1. fn \in Opcodes \ Harmless
      BY <1>8 DEF Opcodes, Harmless
    <3> QED
      BY <1>4, <1>8, <3>1, TraitsFacts
  <2>3. Stepped(f, h, -1) /\ h.status = "RUNNING"
    BY <1>1, <2>2, PopStepped, PopFacts
  <2> HIDE DEF h, dst
  <2>4. IsFrame(h) /\ IsSequence(h.stack) /\ Len(h.stack) <= StackLimit
    <3>1. Len(h.stack) = Len(f.stack) + (-1) /\ StackLimit \in Nat
      BY <2>3, InstructionsAssumption DEF Stepped
    <3> QED
      BY <1>1, <2>3, <3>1 DEF Stepped
  <2> QED
    BY <2>1, <2>4, JumpKeeps
<1>9. CASE fn = OP_JUMPI
  <2> DEFINE h == Pop(f, 2)
             dst == f.stack[1]
             block == x.arg
  <2>1. g = OpJump(h, dst) \/ g = BeginBlock(h, block)
    BY <1>9 DEF Execute, Undefined
  <2>2. 2 <= Len(f.stack)
    <3>1. fn \in Opcodes \ Harmless
      BY <1>9 DEF Opcodes, Harmless
    <3> QED
      BY <1>4, <1>9, <3>1, TraitsFacts
  <2>3. Stepped(f, h, -2) /\ h.status = "RUNNING"
    BY <1>1, <2>2, PopStepped, PopFacts
  <2> HIDE DEF h, dst
  <2>4. IsFrame(h) /\ IsSequence(h.stack) /\ Len(h.stack) <= StackLimit /\ h.pc = k
    <3>1. Len(h.stack) = Len(f.stack) + (-2) /\ StackLimit \in Nat
      BY <2>3, InstructionsAssumption DEF Stepped
    <3> QED
      BY <1>1, <2>3, <3>1 DEF Stepped
  <2>5. CASE g = OpJump(h, dst)
    BY <2>4, <2>5, JumpKeeps
  <2>6. CASE g = BeginBlock(h, block)
    <3>1. fn \in Starts
      BY <1>9 DEF Starts
    <3> QED
      BY <1>1, <2>4, <2>6, <3>1, BeginBlockKeeps
  <2> QED
    BY <2>1, <2>5, <2>6
<1>10. CASE fn = OP_GAS \/ fn = OP_PC \/ fn \in OP_PUSH1..OP_PUSH2
  <2>1. \E y : g = next(Push(f, y))
    <3>1. g = next(OpGas(f, x)) \/ g = next(Push(f, x.arg))
      <4>1. CASE fn = OP_GAS
        BY <4>1 DEF Execute, Undefined
      <4>2. CASE fn = OP_PC
        BY <4>2 DEF Execute, Undefined
      <4>3. CASE fn \in OP_PUSH1..OP_PUSH2
        <5>1. fn = OP_PUSH1 \/ fn = OP_PUSH2
          BY <4>3
        <5>2. CASE fn = OP_PUSH1
          BY <5>2 DEF Execute, Undefined
        <5>3. CASE fn = OP_PUSH2
          BY <5>3 DEF Execute, Undefined
        <5> QED
          BY <5>1, <5>2, <5>3
      <4> QED
        BY <1>10, <4>1, <4>2, <4>3
    <3> QED
      BY <3>1 DEF OpGas
  <2>2. PICK y : g = next(Push(f, y))
    BY <2>1
  <2>3. Stepped(f, Push(f, y), 1)
    BY <1>1, PushStepped
  <2>4. fn \in Opcodes \ (Starts \union {OP_STOP, OP_JUMP}) /\ fn \in {OP_PC, OP_GAS, OP_PUSH1, OP_PUSH2}
    BY <1>10 DEF Opcodes, Starts
  <2>5. Traits[fn].change = 1
    BY <2>4, TraitsFacts
  <2> HIDE DEF fn, next
  <2> QED
    BY <1>5, <2>2, <2>3, <2>4, <2>5
<1>11. CASE fn = OP_CALL
  <2>1. g = next(OpCall(f, x))
    BY <1>11 DEF Execute, Undefined
  <2>2. /\ fn \in Opcodes \ (Starts \union {OP_STOP, OP_JUMP}) /\ fn \in Opcodes \ Harmless
    BY <1>11 DEF Opcodes, Starts, Harmless
  <2>3. Traits[fn].change = 0 /\ 1 <= Len(f.stack)
    BY <1>4, <1>11, <2>2, TraitsFacts
  <2>4. Stepped(f, OpCall(f, x), 0)
    BY <1>1, <2>3, OpCallStepped
  <2> HIDE DEF fn, next
  <2> QED
    BY <1>5, <2>1, <2>2, <2>3, <2>4
<1>12. CASE fn = OP_STOP
  <2>1. g = next(Exit(f, "SUCCESS"))
    BY <1>12 DEF Execute, Undefined, Core
  <2> DEFINE h == Exit(f, "SUCCESS")
  <2>2. IsFrame(h) /\ h.status # "RUNNING" /\ IsSequence(h.stack)
    BY <1>1, ExitFacts
  <2>3. g = [h EXCEPT !.pc = @ + 1]
    BY <2>1
  <2> HIDE DEF h
  <2>4. IsFrame(g) /\ g.status # "RUNNING" /\ IsSequence(g.stack)
    BY <2>2, <2>3, NextPc
  <2> QED
    BY <2>4, EndedExecution
<1>13. CASE fn \in CoreOpcodes \ {OP_STOP, OP_GAS, OP_CALL, OP_JUMPDEST}
  <2>1. g = next(Core(fn, f))
    <3>1. fn = OP_POP \/ fn = OP_MSTORE \/ fn = OP_PUSH0 \/ fn = OP_DUP1 \/ fn = OP_INVALID
      BY <1>13 DEF CoreOpcodes
    <3>2. CASE fn = OP_POP
      BY <3>2 DEF Execute, Undefined
    <3>3. CASE fn = OP_MSTORE
      BY <3>3 DEF Execute, Undefined
    <3>4. CASE fn = OP_PUSH0
      BY <3>4 DEF Execute, Undefined
    <3>5. CASE fn = OP_DUP1
      BY <3>5 DEF Execute, Undefined
    <3>6. CASE fn = OP_INVALID
      BY <3>6 DEF Execute, Undefined
    <3> QED
      BY <3>1, <3>2, <3>3, <3>4, <3>5, <3>6
  <2>2. /\ fn \in Opcodes \ (Starts \union {OP_STOP, OP_JUMP}) /\ fn \in Opcodes \ Harmless /\ fn \in CoreOpcodes
    BY <1>13 DEF Opcodes, Starts, Harmless, CoreOpcodes
  <2>3. Traits[fn].required <= Len(f.stack)
    BY <1>4, <2>2
  <2> HIDE DEF fn, next
  <2>4. Stepped(f, Core(fn, f), Traits[fn].change)
    BY <1>1, <2>2, <2>3, CoreStepped
  <2> QED
    BY <1>5, <2>1, <2>2, <2>4
<1>14. \/ fn = Undefined \/ fn = OP_JUMPDEST \/ fn = OP_JUMP \/ fn = OP_JUMPI
       \/ fn = OP_GAS \/ fn = OP_PC \/ fn \in OP_PUSH1..OP_PUSH2 \/ fn = OP_CALL \/ fn = OP_STOP
       \/ fn \in CoreOpcodes \ {OP_STOP, OP_GAS, OP_CALL, OP_JUMPDEST}
  BY <1>3 DEF Opcodes, CoreOpcodes, Implemented, Eip8024
<1> HIDE DEF fn
<1> QED
  BY <1>6, <1>7, <1>8, <1>9, <1>10, <1>11, <1>12, <1>13, <1>14

-----------------------------------------------------------------------------
(* The two interpreters together. *)

LEMMA AdvancedInitially ==
    Init => AdvancedInv
<1> SUFFICES ASSUME Init
             PROVE  AdvancedInv
  OBVIOUS
<1>1. PICK gas : AdvancedInit(gas)
  BY DEF Init
<1> DEFINE x == [fn |-> OP_JUMPDEST, arg |-> Close(BlockAnalysis(1))]
           zero == [k \in Nat |-> 0]
           one == [k \in Nat |-> 1]
           l == [off |-> zero, blk |-> one, req |-> zero, growth |-> zero]
<1>2. /\ analysis = [next |-> 0, dead |-> FALSE, complete |-> FALSE, block |-> BlockAnalysis(1),
                     instrs |-> <<x>>, jumpdest_offsets |-> <<>>, jumpdest_targets |-> <<>>]
      /\ advanced = [NewFrame(gas) EXCEPT !.pc = 1]
  BY <1>1 DEF AdvancedInit
<1>3. IsInstruction(x) /\ x.fn = OP_JUMPDEST
  BY DEF IsInstruction, Opcodes, Implemented, Eip8024
<1> HIDE DEF x
<1>4. IsSequence(<<x>>) /\ Len(<<x>>) = 1 /\ <<x>>[1] = x
  <2>1. <<x>> \in Seq({x})
    OBVIOUS
  <2> QED
    BY <2>1, SeqIsSequence
<1>5. IsSequence(<<>>) /\ Len(<<>>) = 0
  <2>1. <<>> \in Seq({x})
    OBVIOUS
  <2> QED
    BY <2>1, SeqIsSequence
<1>6. /\ analysis.next = 0 /\ analysis.complete = FALSE /\ analysis.block = BlockAnalysis(1)
      /\ analysis.instrs = <<x>> /\ analysis.jumpdest_offsets = <<>> /\ analysis.jumpdest_targets = <<>>
  BY ONLY <1>2
<1>7. /\ Len(analysis.instrs) = 1 /\ analysis.instrs[1].fn = OP_JUMPDEST /\ IsInstruction(analysis.instrs[1])
      /\ IsSequence(analysis.instrs)
  BY <1>3, <1>4, <1>6
<1>8. /\ l \in Labels /\ l.off[2] = 0 /\ l.blk[2] = 1 /\ l.blk[1] = 1 /\ l.req[1] = 0 /\ l.growth[1] = 0
  BY DEF Labels
<1> HIDE DEF l
<1>9. BlockAnalysis(1) \in Blocks
  BY BlockAnalysisFacts
<1>10. IsAnalysis(analysis)
  <2>1. analysis = [next |-> analysis.next, dead |-> analysis.dead, complete |-> analysis.complete,
                    block |-> analysis.block, instrs |-> analysis.instrs,
                    jumpdest_offsets |-> analysis.jumpdest_offsets,
                    jumpdest_targets |-> analysis.jumpdest_targets]
    BY ONLY <1>2
  <2>2. \A k \in 1..Len(analysis.instrs) : IsInstruction(analysis.instrs[k])
    BY <1>7
  <2>3. analysis.next \in Nat /\ analysis.complete \in BOOLEAN /\ analysis.block \in Blocks
    <3>1. analysis.next \in Nat
      BY <1>6
    <3>2. analysis.complete \in BOOLEAN /\ analysis.block \in Blocks
      BY <1>6, <1>9, Zenon
    <3> QED
      BY <3>1, <3>2
  <2> QED
    BY <1>7, <2>1, <2>2, <2>3 DEF IsAnalysis
<1>11. Labelled(analysis, l, 1)
  BY <1>7, <1>8 DEF Labelled, Harmless, Starts
<1>12. Current(analysis, l)
  BY <1>6, <1>7, <1>8 DEF Current, BlockAnalysis, Starts
<1>13. Sound(analysis, l)
  <2>1. \A k \in 1..Len(analysis.instrs) : k = 1
    BY <1>7
  <2>2. analysis.block.begin = 1
    BY <1>6 DEF BlockAnalysis
  <2> QED
    BY <1>6, <1>7, <1>8, <1>10, <1>11, <1>12, <2>1, <2>2 DEF Sound
<1>14. Targets(analysis)
  BY <1>5, <1>6 DEF Targets
<1>15. Waiting(advanced)
  <2>1. IsFrame(advanced) /\ advanced.pc = 1 /\ advanced.stack = <<>>
    BY ONLY <1>2 DEF NewFrame, IsFrame
  <2> QED
    BY <1>5, <2>1 DEF Waiting
<1>16. Analysis(analysis, l)
  BY <1>6, <1>13, <1>14 DEF Analysis
<1>17. Execution(analysis, advanced, l)
  BY <1>13, <1>15, WaitingExecution
<1> QED
  BY <1>16, <1>17 DEF AdvancedInv

LEMMA StepKeeps ==
    ASSUME IndInv, [Next]_vars
    PROVE  IndInv'
<1>1. PICK l : Analysis(analysis, l) /\ Execution(analysis, advanced, l)
  BY DEF IndInv, AdvancedInv
<1>2. BaselineInv /\ code \in Seq(Opcodes)
  BY DEF IndInv, BaselineInv
<1>0. analysis.next < Len(code) => ~analysis.complete
  <2>1. analysis.next \in Nat /\ Len(code) \in Nat
    BY <1>1, <1>2, LenProperties DEF Analysis, Sound, IsAnalysis
  <2>2. analysis.complete => analysis.next >= Len(code)
    BY <1>1 DEF Analysis
  <2> QED
    BY <2>1, <2>2
<1>3. ~analysis.complete => Waiting(advanced)
  BY <1>1 DEF Execution, Waiting
<1>4. ASSUME code' = code, analysis' = analysis, advanced' = advanced
      PROVE  AdvancedInv'
  BY <1>1, <1>4 DEF AdvancedInv, Analysis
<1>5. ASSUME code' = code, scan' = scan, jumpdest_bitset' = jumpdest_bitset, baseline' = baseline
      PROVE  BaselineInv'
  BY <1>2, <1>5 DEF BaselineInv
<1>6. CASE ScanByte /\ UNCHANGED <<code, analysis, advanced>>
  BY <1>2, <1>4, <1>6, ScanByteKeeps DEF IndInv
<1>7. CASE BaselineStep /\ UNCHANGED <<code, analysis, advanced>>
  BY <1>2, <1>4, <1>7, BaselineStepKeeps DEF IndInv
<1>8. ASSUME NEW l2, Analysis(analysis', l2), Execution(analysis', advanced', l2),
             UNCHANGED <<code, scan, jumpdest_bitset, baseline>>
      PROVE  IndInv'
  <2>1. AdvancedInv'
    BY <1>8 DEF AdvancedInv, Analysis
  <2> QED
    BY <1>5, <1>8, <2>1 DEF IndInv
<1>9. CASE TranslateInstruction /\ UNCHANGED <<code, scan, jumpdest_bitset, baseline>>
  <2>1. ~analysis.complete
    BY <1>0, <1>9 DEF TranslateInstruction
  <2> QED
    BY <1>1, <1>2, <1>3, <1>8, <1>9, <2>1, TranslateKeeps
<1>10. CASE SkipDeadCode /\ UNCHANGED <<code, scan, jumpdest_bitset, baseline>>
  <2>1. ~analysis.complete
    BY <1>0, <1>10 DEF SkipDeadCode
  <2> QED
    BY <1>1, <1>2, <1>3, <1>8, <1>10, <2>1, SkipKeeps
<1>11. CASE CompleteAnalysis /\ UNCHANGED <<code, scan, jumpdest_bitset, baseline>>
  BY <1>1, <1>3, <1>8, <1>11, CompleteKeeps DEF CompleteAnalysis
<1>12. CASE AdvancedStep /\ UNCHANGED <<code, scan, jumpdest_bitset, baseline>>
  <2>1. /\ analysis.complete /\ advanced.status = "RUNNING" /\ analysis' = analysis
        /\ advanced' = Execute(advanced, analysis.instrs[advanced.pc])
    BY <1>12 DEF AdvancedStep, Analyzed
  <2>2. Execution(analysis, advanced', l)
    BY <1>1, <2>1, ExecuteKeeps
  <2> QED
    BY <1>1, <1>8, <1>12, <2>1, <2>2
<1>13. CASE UNCHANGED vars
  BY <1>4, <1>5, <1>13 DEF vars, IndInv
<1> QED
  BY <1>6, <1>7, <1>9, <1>10, <1>11, <1>12, <1>13 DEF Next

LEMMA Invariance ==
    Spec => []IndInv
<1>1. Init => IndInv
  BY BaselineInitially, AdvancedInitially DEF IndInv
<1>2. IndInv /\ [Next]_vars => IndInv'
  BY StepKeeps
<1> QED
  BY <1>1, <1>2, PTL DEF Spec

(* For every code, gas, cost table and stack limit: once opx_beginblock() has  *)
(* let a block begin, none of its instructions misses an operand or overflows  *)
(* the stack, though the 16 bits of BlockInfo may hold less than the block     *)
(* requires; and dispatch() and PUSH stay within the padded code.              *)
THEOREM UncheckedAccesses ==
    Spec => []UncheckedAccessesSafe
<1>1. IndInv => UncheckedAccessesSafe
  <2> SUFFICES ASSUME IndInv
               PROVE  UncheckedAccessesSafe
    OBVIOUS
  <2>1. PICK l : Analysis(analysis, l) /\ Execution(analysis, advanced, l)
    BY DEF IndInv, AdvancedInv
  <2>2. ASSUME Analyzed, advanced.status = "RUNNING", analysis.instrs[advanced.pc].fn # Undefined
        PROVE  /\ Len(advanced.stack) >= Traits[analysis.instrs[advanced.pc].fn].required
               /\ Len(advanced.stack) + Traits[analysis.instrs[advanced.pc].fn].change <= StackLimit
    <3> DEFINE f == advanced
               k == f.pc
               fn == analysis.instrs[k].fn
               x == Len(f.stack)
    <3>1. /\ k \in 1..Len(analysis.instrs) /\ x <= StackLimit /\ IsSequence(f.stack)
          /\ l \in Labels /\ Labelled(analysis, l, k) /\ IsInstruction(analysis.instrs[k])
          /\ fn \in Opcodes \ Harmless => Fits(f, l)
      BY <2>1, <2>2 DEF Execution, Analysis, Sound, IsAnalysis
    <3>2. k \in Nat /\ x \in Nat
      BY <2>1, <3>1, IsSequenceFacts DEF Analysis, Sound, IsAnalysis
    <3>3. fn \in Opcodes
      BY <2>2, <3>1 DEF IsInstruction, Implemented
    <3>4. Traits[fn].required \in Int /\ Traits[fn].change \in Int
      <4>1. Traits[fn].required \in 0..2 /\ Traits[fn].change \in -2..1
        BY <3>3, TraitsFacts
      <4> QED
        BY <4>1
    <3>5. CASE fn \in Harmless
      <4>1. Traits[fn].required = 0 /\ Traits[fn].change = 0
        BY <3>3, <3>5, TraitsFacts DEF Harmless
      <4> QED
        BY <3>1, <3>2, <4>1
    <3>6. CASE fn \notin Harmless
      <4> DEFINE g == f
                 j == k
                 op == fn
      <4>1. /\ g.pc = j /\ op = analysis.instrs[j].fn /\ op \in Opcodes \ Harmless /\ Fits(g, l)
            /\ j \in Nat /\ IsSequence(g.stack) /\ l \in Labels /\ Labelled(analysis, l, j)
        BY <3>1, <3>2, <3>3, <3>6
      <4> HIDE DEF g, j, op
      <4>2. Traits[op].required <= Len(g.stack) /\ Len(g.stack) + Traits[op].change <= StackLimit
        BY <4>1, OperandsThere
      <4>3. Traits[fn].required <= x /\ x + Traits[fn].change <= StackLimit
        BY <4>2 DEF g, j, op
      <4> QED
        BY <3>2, <3>4, <4>3
    <3> QED
      BY <3>5, <3>6
  <2>3. ASSUME AnalysisDone, baseline.status = "RUNNING"
        PROVE  /\ baseline.pc < Len(PaddedCode)
               /\ LET op == PaddedCode[baseline.pc + 1]
                  IN  baseline.pc + PushSize(op) + ImmediateSize(op) < Len(PaddedCode)
    <3> DEFINE i == baseline.pc
               op == PaddedCode[i + 1]
    <3>1. code \in Seq(Opcodes) /\ i \in 0..(Len(code) + 2)
      BY <2>3, PushSizeFacts DEF IndInv, BaselineInv
    <3>2. /\ Len(code) \in Nat /\ Len(PaddedCode) = Len(code) + 3
          /\ op \in Opcodes /\ (i >= Len(code) => op = OP_STOP)
      BY <3>1, PaddedCodeFacts
    <3>3. /\ PushSize(op) + ImmediateSize(op) \in 0..2
          /\ PushSize(op) \in Nat /\ ImmediateSize(op) \in Nat
          /\ op = OP_STOP => PushSize(op) + ImmediateSize(op) = 0
      BY <3>2, PushSizeFacts
    <3> HIDE DEF op
    <3>4. i < Len(PaddedCode) /\ i + PushSize(op) + ImmediateSize(op) < Len(PaddedCode)
      BY <3>1, <3>2, <3>3
    <3> QED
      BY <3>4 DEF op
  <2> QED
    BY <2>2, <2>3 DEF UncheckedAccessesSafe
<1> QED
  BY <1>1, Invariance, PTL
=============================================================================
