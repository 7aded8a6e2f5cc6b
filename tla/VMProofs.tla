------------------------------ MODULE VMProofs ------------------------------
(* The VM for all setups, any number of tracers and any options: executions    *)
(* never share a state, and from Osaka on gas alone keeps the calls shallow.   *)
EXTENDS VM, SequenceTheorems, TLAPS

-----------------------------------------------------------------------------
(* The deepest chain of calls. A call takes 112 gas at least, and the callee   *)
(* gets all but a 64th of what is left: with 63 * 111 added to the gas that an *)
(* execution is given, every call takes at least a 64th.                       *)

Weight(gas) == gas + 63 * 111

LEMMA CallWeight ==
    ASSUME NEW given \in Nat, NEW gas \in Nat, NEW callee \in Nat,
           gas <= given - 112, callee <= AllBut64th(gas)
    PROVE  64 * Weight(callee) <= 63 * Weight(given)
<1>1. 64 * (gas \div 64) + 63 >= gas
  OBVIOUS
<1> QED
  BY <1>1 DEF AllBut64th, Weight

(* w[i] is the weight of the execution at depth i - 1.                         *)
Fades(w, n) ==
    /\ w \in [1..n -> Nat]
    /\ \A i \in 1..(n - 1) : 64 * w[i + 1] <= 63 * w[i]

LEMMA SixteenSteps ==
    ASSUME NEW v \in [0..16 -> Nat], \A k \in 0..15 : 64 * v[k + 1] <= 63 * v[k]
    PROVE  9 * v[16] <= 7 * v[0]
<1>1. /\ 64 * v[1] <= 63 * v[0] /\ 64 * v[2] <= 63 * v[1]
      /\ 64 * v[3] <= 63 * v[2] /\ 64 * v[4] <= 63 * v[3]
      /\ 64 * v[5] <= 63 * v[4] /\ 64 * v[6] <= 63 * v[5]
      /\ 64 * v[7] <= 63 * v[6] /\ 64 * v[8] <= 63 * v[7]
  OBVIOUS
<1>2. /\ 64 * v[9] <= 63 * v[8] /\ 64 * v[10] <= 63 * v[9]
      /\ 64 * v[11] <= 63 * v[10] /\ 64 * v[12] <= 63 * v[11]
      /\ 64 * v[13] <= 63 * v[12] /\ 64 * v[14] <= 63 * v[13]
      /\ 64 * v[15] <= 63 * v[14] /\ 64 * v[16] <= 63 * v[15]
  OBVIOUS
<1>3. \A k \in 0..16 : v[k] \in Nat
  OBVIOUS
<1> QED
  BY <1>1, <1>2, <1>3

LEMMA Fades16 ==
    ASSUME NEW n \in Nat, NEW w, Fades(w, n), NEW i \in 1..n, i + 16 <= n
    PROVE  9 * w[i + 16] <= 7 * w[i]
<1> DEFINE v == [k \in 0..16 |-> w[i + k]]
<1>1. \A j \in 1..n : w[j] \in Nat
  BY DEF Fades
<1>2. \A k \in 0..16 : i + k \in 1..n
  OBVIOUS
<1>3. v \in [0..16 -> Nat]
  BY <1>1, <1>2
<1>4. ASSUME NEW k \in 0..15
      PROVE  64 * v[k + 1] <= 63 * v[k]
  <2>1. i + k \in 1..(n - 1) /\ (i + k) + 1 = i + (k + 1) /\ k \in 0..16 /\ k + 1 \in 0..16
    OBVIOUS
  <2>2. 64 * w[(i + k) + 1] <= 63 * w[i + k]
    BY <2>1 DEF Fades
  <2>3. v[k] = w[i + k] /\ v[k + 1] = w[(i + k) + 1]
    BY <2>1
  <2> QED
    BY <2>2, <2>3
<1>5. v[0] = w[i] /\ v[16] = w[i + 16]
  OBVIOUS
<1> HIDE DEF v
<1>6. 9 * v[16] <= 7 * v[0]
  BY <1>3, <1>4, SixteenSteps
<1> QED
  BY <1>5, <1>6

LEMMA Fades64 ==
    ASSUME NEW n \in Nat, NEW w, Fades(w, n), NEW i \in 1..n, i + 64 <= n
    PROVE  6561 * w[i + 64] <= 2401 * w[i]
<1>1. 9 * w[i + 16] <= 7 * w[i]
  BY Fades16
<1>2. 9 * w[i + 32] <= 7 * w[i + 16]
  <2>1. i + 16 \in 1..n /\ (i + 16) + 16 <= n /\ (i + 16) + 16 = i + 32
    OBVIOUS
  <2> QED
    BY <2>1, Fades16
<1>3. 9 * w[i + 48] <= 7 * w[i + 32]
  <2>1. i + 32 \in 1..n /\ (i + 32) + 16 <= n /\ (i + 32) + 16 = i + 48
    OBVIOUS
  <2> QED
    BY <2>1, Fades16
<1>4. 9 * w[i + 64] <= 7 * w[i + 48]
  <2>1. i + 48 \in 1..n /\ (i + 48) + 16 <= n /\ (i + 48) + 16 = i + 64
    OBVIOUS
  <2> QED
    BY <2>1, Fades16
<1>5. w[i] \in Nat /\ w[i + 16] \in Nat /\ w[i + 32] \in Nat /\ w[i + 48] \in Nat /\ w[i + 64] \in Nat
  <2>1. \A j \in 1..n : w[j] \in Nat
    BY DEF Fades
  <2>2. i + 16 \in 1..n /\ i + 32 \in 1..n /\ i + 48 \in 1..n /\ i + 64 \in 1..n
    OBVIOUS
  <2> QED
    BY <2>1, <2>2
<1> QED
  BY <1>1, <1>2, <1>3, <1>4, <1>5

(* The weight of a transaction's gas limit is less than that of a call after   *)
(* 496 calls.                                                                  *)
LEMMA FadesOut ==
    ASSUME NEW n \in Nat, NEW w, Fades(w, n), n >= 497, w[1] <= Weight(MAX_TX_GAS_LIMIT)
    PROVE  w[497] < Weight(112)
<1>1. /\ 6561 * w[65] <= 2401 * w[1]
      /\ 6561 * w[129] <= 2401 * w[65]
      /\ 6561 * w[193] <= 2401 * w[129]
      /\ 6561 * w[257] <= 2401 * w[193]
  <2>1. 6561 * w[1 + 64] <= 2401 * w[1]
    BY Fades64
  <2>2. 6561 * w[65 + 64] <= 2401 * w[65]
    BY Fades64
  <2>3. 6561 * w[129 + 64] <= 2401 * w[129]
    BY Fades64
  <2>4. 6561 * w[193 + 64] <= 2401 * w[193]
    BY Fades64
  <2> QED
    BY <2>1, <2>2, <2>3, <2>4
<1>2. /\ 6561 * w[321] <= 2401 * w[257]
      /\ 6561 * w[385] <= 2401 * w[321]
      /\ 6561 * w[449] <= 2401 * w[385]
  <2>1. 6561 * w[257 + 64] <= 2401 * w[257]
    BY Fades64
  <2>2. 6561 * w[321 + 64] <= 2401 * w[321]
    BY Fades64
  <2>3. 6561 * w[385 + 64] <= 2401 * w[385]
    BY Fades64
  <2> QED
    BY <2>1, <2>2, <2>3
<1>3. /\ 9 * w[465] <= 7 * w[449]
      /\ 9 * w[481] <= 7 * w[465]
      /\ 9 * w[497] <= 7 * w[481]
  <2>1. 9 * w[449 + 16] <= 7 * w[449]
    BY Fades16
  <2>2. 9 * w[465 + 16] <= 7 * w[465]
    BY Fades16
  <2>3. 9 * w[481 + 16] <= 7 * w[481]
    BY Fades16
  <2> QED
    BY <2>1, <2>2, <2>3
<1>4. \A i \in {1, 65, 129, 193, 257, 321, 385, 449, 465, 481, 497} : w[i] \in Nat
  <2>1. \A i \in 1..n : w[i] \in Nat
    BY DEF Fades
  <2>2. {1, 65, 129, 193, 257, 321, 385, 449, 465, 481, 497} \subseteq 1..n
    OBVIOUS
  <2> QED
    BY <2>1, <2>2
<1> QED
  BY <1>1, <1>2, <1>3, <1>4, SMT DEF Weight, MAX_TX_GAS_LIMIT

(* That of the gas of a system call after 532 calls: the 448 first calls and   *)
(* the 84 others take it to less than a 4223rd.                                *)
LEMMA FadesOutLater ==
    ASSUME NEW n \in Nat, NEW w, Fades(w, n), n >= 533, w[1] <= Weight(SYSTEM_CALL_GAS)
    PROVE  w[533] < Weight(112)
<1>1. /\ 6561 * w[65] <= 2401 * w[1]
      /\ 6561 * w[129] <= 2401 * w[65]
      /\ 6561 * w[193] <= 2401 * w[129]
      /\ 6561 * w[257] <= 2401 * w[193]
  <2>1. 6561 * w[1 + 64] <= 2401 * w[1]
    BY Fades64
  <2>2. 6561 * w[65 + 64] <= 2401 * w[65]
    BY Fades64
  <2>3. 6561 * w[129 + 64] <= 2401 * w[129]
    BY Fades64
  <2>4. 6561 * w[193 + 64] <= 2401 * w[193]
    BY Fades64
  <2> QED
    BY <2>1, <2>2, <2>3, <2>4
<1>2. /\ 6561 * w[321] <= 2401 * w[257]
      /\ 6561 * w[385] <= 2401 * w[321]
      /\ 6561 * w[449] <= 2401 * w[385]
      /\ 6561 * w[513] <= 2401 * w[449]
  <2>1. 6561 * w[257 + 64] <= 2401 * w[257]
    BY Fades64
  <2>2. 6561 * w[321 + 64] <= 2401 * w[321]
    BY Fades64
  <2>3. 6561 * w[385 + 64] <= 2401 * w[385]
    BY Fades64
  <2>4. 6561 * w[449 + 64] <= 2401 * w[449]
    BY Fades64
  <2> QED
    BY <2>1, <2>2, <2>3, <2>4
<1>3. /\ 9 * w[529] <= 7 * w[513]
      /\ 64 * w[530] <= 63 * w[529]
      /\ 64 * w[531] <= 63 * w[530]
      /\ 64 * w[532] <= 63 * w[531]
      /\ 64 * w[533] <= 63 * w[532]
  <2>1. 9 * w[513 + 16] <= 7 * w[513]
    BY Fades16
  <2>2. \A i \in {529, 530, 531, 532} : 64 * w[i + 1] <= 63 * w[i]
    <3>1. 529 \in 1..(n - 1) /\ 530 \in 1..(n - 1) /\ 531 \in 1..(n - 1) /\ 532 \in 1..(n - 1)
      OBVIOUS
    <3>2. \A i \in 1..(n - 1) : 64 * w[i + 1] <= 63 * w[i]
      BY DEF Fades
    <3> QED
      BY <3>1, <3>2
  <2> QED
    BY <2>1, <2>2
<1>4. \A i \in {1, 65, 129, 193, 257, 321, 385, 449, 513, 529, 530, 531, 532, 533} : w[i] \in Nat
  <2>1. \A i \in 1..n : w[i] \in Nat
    BY DEF Fades
  <2>2. {1, 65, 129, 193, 257, 321, 385, 449, 513, 529, 530, 531, 532, 533} \subseteq 1..n
    OBVIOUS
  <2> QED
    BY <2>1, <2>2
<1>5. w[257] <= 538160
  BY <1>1, <1>4, SMT DEF Weight, SYSTEM_CALL_GAS
<1>6. w[513] <= 9652
  BY <1>2, <1>4, <1>5
<1>7. w[529] <= 7507
  BY <1>3, <1>4, <1>6
<1>8. w[533] <= 7050
  BY <1>3, <1>4, <1>7
<1> QED
  BY <1>4, <1>8 DEF Weight

-----------------------------------------------------------------------------
(* The inductive invariant. *)

Fields == {"gas_refund", "return_data"}
FieldSets == SUBSET Fields
Contexts == {NoContext} \union UNION {s.contexts : s \in Setups}
States == [depth : Nat, changed : SUBSET Fields, m_tx : Contexts]
Executions ==
    [engine : {"baseline", "advanced"}, depth : Nat, gas : Nat, given : Nat,
     changed : SUBSET Fields, own : States]
Tracers == [kind : STRING, contexts : Seq(Nat)]

TypeOK ==
    /\ setup \in Setups /\ engine \in {"baseline", "advanced"} /\ tx \in Contexts
    /\ states \in Seq(States) /\ executions \in Seq(Executions) /\ tracers \in Seq(Tracers)

StateIn(pool, e) == IF e.engine = "baseline" THEN pool[e.depth + 1] ELSE e.own

(* Execution e, which runs with an engine at a depth, has a state of its own    *)
(* and no transaction context there but t.                                     *)
Isolated(eng, t, pool, e, depth) ==
    /\ e.engine = eng /\ e.depth = depth
    /\ eng = "baseline" => depth + 1 <= Len(pool)
    /\ StateIn(pool, e).depth = depth /\ StateIn(pool, e).changed = e.changed
    /\ StateIn(pool, e).m_tx.timestamp # 0 => StateIn(pool, e).m_tx = t

Framed(eng, t, pool, frames) ==
    \A i \in 1..Len(frames) : Isolated(eng, t, pool, frames[i], i - 1)

(* What the outermost execution may be given.                                  *)
FirstGas(s) == s.gas_limits \union s.system_gas

(* An execution has no more gas than it was given. One that has called another *)
(* has paid for the call and has kept a 64th.                                  *)
GasChain(s, frames) ==
    /\ \A i \in 1..Len(frames) : frames[i].gas <= frames[i].given
    /\ Len(frames) > 0 => frames[1].given \in FirstGas(s)
    /\ \A i \in 1..(Len(frames) - 1) :
         /\ frames[i].gas <= frames[i].given - s.call_overhead
         /\ frames[i + 1].given <= AllBut64th(frames[i].gas)

Room == Len(states) <= setup.capacity /\ Active <= setup.capacity

IndInv ==
    /\ TypeOK
    /\ Framed(engine, tx, states, executions)
    /\ GasChain(setup, executions)
    /\ Room /\ TracersFollow

LEMMA SetupFacts ==
    ASSUME NEW s \in Setups
    PROVE  /\ s.capacity \in Nat /\ s.depth_limit \in Nat /\ s.depth_limit < s.capacity
           /\ s.osaka \in BOOLEAN /\ s.call_overhead \in Nat \ {0}
           /\ FirstGas(s) \subseteq Nat /\ s.call_gas \subseteq Nat
           /\ s.fields \subseteq Fields /\ s.contexts \subseteq Contexts
           /\ s.options \subseteq STRING
  BY VMAssumption DEF Setup, Fields, Contexts, FirstGas

(* From Osaka on the weights of a chain fade, down to that of a call.          *)
LEMMA ChainFades ==
    ASSUME NEW s \in Setups, s.osaka, NEW frames \in Seq(Executions), GasChain(s, frames),
           NEW n \in Nat, n > 0, n + 1 = Len(frames),
           NEW w, w = [i \in 1..n |-> Weight(frames[i].given)]
    PROVE  /\ Fades(w, n)
           /\ w[1] = Weight(frames[1].given) /\ frames[1].given \in FirstGas(s)
           /\ \A i \in 1..n : w[i] >= Weight(112)
<1>2. \A i \in 1..(n + 1) : frames[i].given \in Nat /\ frames[i].gas \in Nat
  <2>1. \A i \in 1..Len(frames) : frames[i] \in Executions
    BY ElementOfSeq
  <2> QED
    BY <2>1 DEF Executions
<1>3. \A i \in 1..n : /\ frames[i].gas <= frames[i].given - 112
                     /\ frames[i + 1].given <= AllBut64th(frames[i].gas)
  <2> SUFFICES ASSUME NEW i \in 1..n
               PROVE  /\ frames[i].gas <= frames[i].given - 112
                      /\ frames[i + 1].given <= AllBut64th(frames[i].gas)
    OBVIOUS
  <2>1. /\ frames[i].gas <= frames[i].given - s.call_overhead
        /\ frames[i + 1].given <= AllBut64th(frames[i].gas)
    BY DEF GasChain
  <2>2. s.call_overhead \in Nat /\ s.call_overhead >= 112
    BY SetupFacts, OsakaAssumption
  <2> QED
    BY <1>2, <2>1, <2>2
<1>4. \A i \in 1..n : w[i] = Weight(frames[i].given) /\ w[i] \in Nat
  BY <1>2 DEF Weight
<1>5. Fades(w, n)
  <2>1. w \in [1..n -> Nat]
    BY <1>2 DEF Weight
  <2>2. ASSUME NEW i \in 1..(n - 1)
        PROVE  64 * w[i + 1] <= 63 * w[i]
    <3>1. i \in 1..n /\ i + 1 \in 1..n /\ i + 1 \in 1..(n + 1) /\ i \in 1..(n + 1)
      OBVIOUS
    <3>2. 64 * Weight(frames[i + 1].given) <= 63 * Weight(frames[i].given)
      BY <1>2, <1>3, <3>1, CallWeight
    <3> QED
      BY <1>4, <3>1, <3>2
  <2> QED
    BY <2>1, <2>2 DEF Fades
<1>6. frames[1].given \in FirstGas(s) /\ 1 \in 1..n
  BY DEF GasChain
<1>7. \A i \in 1..n : w[i] >= Weight(112)
  <2> SUFFICES ASSUME NEW i \in 1..n
               PROVE  w[i] >= Weight(112)
    OBVIOUS
  <2>1. frames[i].given \in Nat /\ frames[i].gas \in Nat /\ frames[i].gas <= frames[i].given - 112
    BY <1>2, <1>3
  <2>2. w[i] = Weight(frames[i].given)
    BY <1>4
  <2> QED
    BY <2>1, <2>2 DEF Weight
<1> QED
  BY <1>4, <1>5, <1>6, <1>7

(* The invariant of gas keeps the calls shallow from Osaka on: those of a      *)
(* transaction, and those of a system call, which has more gas.                *)
LEMMA Shallow ==
    ASSUME NEW s \in Setups, s.osaka, NEW frames \in Seq(Executions), GasChain(s, frames)
    PROVE  /\ Len(frames) <= 540
           /\ Len(frames) > 0 /\ frames[1].given \in s.gas_limits => Len(frames) <= 500
<1> DEFINE n == Len(frames) - 1
           w == [i \in 1..n |-> Weight(frames[i].given)]
<1>1. Len(frames) \in Nat /\ s.gas_limits \subseteq Nat /\ FirstGas(s) \subseteq Nat
  BY LenProperties, SetupFacts DEF FirstGas
<1>2. ASSUME n > 0
      PROVE  /\ n \in Nat /\ Fades(w, n)
             /\ w[1] = Weight(frames[1].given) /\ frames[1].given \in FirstGas(s)
             /\ \A i \in 1..n : w[i] >= Weight(112)
  <2>1. n \in Nat /\ n + 1 = Len(frames)
    BY <1>1, <1>2
  <2>2. w = [i \in 1..n |-> Weight(frames[i].given)]
    OBVIOUS
  <2> HIDE DEF n, w
  <2> QED
    BY <1>2, <2>1, <2>2, ChainFades
<1>3. MAX_TX_GAS_LIMIT \in Nat /\ SYSTEM_CALL_GAS \in Nat /\ MAX_TX_GAS_LIMIT <= SYSTEM_CALL_GAS
  BY SMT DEF MAX_TX_GAS_LIMIT, SYSTEM_CALL_GAS
<1>4. ASSUME Len(frames) > 540
      PROVE  FALSE
  <2>1. n >= 533 /\ n > 0
    BY <1>1, <1>4
  <2>2. /\ n \in Nat /\ Fades(w, n)
        /\ w[1] = Weight(frames[1].given) /\ frames[1].given \in FirstGas(s)
        /\ \A i \in 1..n : w[i] >= Weight(112)
    BY <1>2, <2>1
  <2>3. frames[1].given \in Nat /\ frames[1].given <= SYSTEM_CALL_GAS
    BY <1>1, <1>3, <2>2, OsakaAssumption DEF FirstGas
  <2>4. Weight(frames[1].given) <= Weight(SYSTEM_CALL_GAS)
    BY <1>3, <2>3 DEF Weight
  <2> HIDE DEF n, w
  <2>5. w[533] < Weight(112)
    BY <2>1, <2>2, <2>4, FadesOutLater
  <2>6. 533 \in 1..n /\ w[533] \in Nat
    <3>1. 533 \in 1..n
      BY <2>1, <2>2
    <3>2. w \in [1..n -> Nat]
      BY <2>2 DEF Fades
    <3> QED
      BY <3>1, <3>2
  <2>7. w[533] >= Weight(112)
    BY <2>2, <2>6
  <2> QED
    BY <2>5, <2>6, <2>7 DEF Weight
<1>5. ASSUME Len(frames) > 500, frames[1].given \in s.gas_limits
      PROVE  FALSE
  <2>1. n >= 497 /\ n > 0
    BY <1>1, <1>5
  <2>2. /\ n \in Nat /\ Fades(w, n)
        /\ w[1] = Weight(frames[1].given)
        /\ \A i \in 1..n : w[i] >= Weight(112)
    BY <1>2, <2>1
  <2>3. frames[1].given \in Nat /\ frames[1].given <= MAX_TX_GAS_LIMIT
    BY <1>1, <1>5, OsakaAssumption
  <2>4. Weight(frames[1].given) <= Weight(MAX_TX_GAS_LIMIT)
    BY <1>3, <2>3 DEF Weight
  <2> HIDE DEF n, w
  <2>5. w[497] < Weight(112)
    BY <2>1, <2>2, <2>4, FadesOut
  <2>6. 497 \in 1..n /\ w[497] \in Nat
    <3>1. 497 \in 1..n
      BY <2>1, <2>2
    <3>2. w \in [1..n -> Nat]
      BY <2>2 DEF Fades
    <3> QED
      BY <3>1, <3>2
  <2>7. w[497] >= Weight(112)
    BY <2>2, <2>6
  <2> QED
    BY <2>5, <2>6, <2>7 DEF Weight
<1> QED
  BY <1>1, <1>4, <1>5

-----------------------------------------------------------------------------
(* Tracers. *)

\* The contexts for n executions.
Upto(n) == [d \in 1..n |-> d - 1]

LEMMA UptoFacts ==
    ASSUME NEW n \in Nat
    PROVE  /\ Upto(n) \in Seq(Nat) /\ Len(Upto(n)) = n /\ Upto(0) = <<>>
           /\ Append(Upto(n), n) = Upto(n + 1)
           /\ n > 0 => Front(Upto(n)) = Upto(n - 1)
<1>1. ASSUME NEW m \in Nat
      PROVE  /\ Upto(m) \in Seq(Nat) /\ Len(Upto(m)) = m
             /\ \A d \in 1..m : Upto(m)[d] = d - 1
  BY DEF Upto
<1>2. Upto(0) = <<>>
  BY <1>1, EmptySeq, SeqEqual
<1>3. Append(Upto(n), n) = Upto(n + 1)
  <2> DEFINE t == Append(Upto(n), n)
  <2> DEFINE u == Upto(n)
  <2>a. u \in Seq(Nat) /\ Len(u) = n /\ \A d \in 1..n : u[d] = d - 1
    BY <1>1
  <2> HIDE DEF u
  <2>1. /\ t \in Seq(Nat) /\ Len(t) = n + 1 /\ t[n + 1] = n
        /\ \A d \in 1..n : t[d] = u[d]
    <3>1. t = Append(u, n)
      BY DEF u
    <3> HIDE DEF t
    <3>2. /\ t \in Seq(Nat) /\ Len(t) = Len(u) + 1 /\ t[Len(u) + 1] = n
          /\ \A d \in 1..Len(u) : t[d] = u[d]
      BY <2>a, <3>1, AppendProperties
    <3> QED
      BY <2>a, <3>2
  <2> HIDE DEF t
  <2>2. n + 1 \in Nat /\ Upto(n + 1) \in Seq(Nat) /\ Len(Upto(n + 1)) = n + 1
    BY <1>1
  <2>3. ASSUME NEW d \in 1..(n + 1)
        PROVE  t[d] = Upto(n + 1)[d]
    <3>1. n + 1 \in Nat
      OBVIOUS
    <3>2. Upto(n + 1)[d] = d - 1
      BY <1>1, <3>1
    <3>3. CASE d = n + 1
      BY <2>1, <3>2, <3>3
    <3>4. CASE d # n + 1
      <4>1. d \in 1..n
        BY <3>4
      <4> QED
        BY <2>a, <2>1, <3>2, <4>1
    <3> QED
      BY <3>3, <3>4
  <2>4. t = Upto(n + 1)
    BY <2>1, <2>2, <2>3, SeqEqual
  <2> QED
    BY <2>4 DEF t
<1>4. ASSUME n > 0
      PROVE  Front(Upto(n)) = Upto(n - 1)
  <2> DEFINE t == Front(Upto(n))
  <2>1. \A d \in 1..(n - 1) : Upto(n)[d] \in Nat
    <3> SUFFICES ASSUME NEW d \in 1..(n - 1)
                 PROVE  Upto(n)[d] \in Nat
      OBVIOUS
    <3>1. d \in 1..n /\ d - 1 \in Nat
      BY <1>4
    <3> QED
      BY <1>1, <3>1
  <2>2. t = SubSeq(Upto(n), 1, n - 1)
    BY <1>1 DEF Front
  <2>3. /\ t \in Seq(Nat)
        /\ Len(t) = IF 1 <= n - 1 THEN (n - 1) - 1 + 1 ELSE 0
        /\ \A d \in 1..((n - 1) - 1 + 1) : t[d] = Upto(n)[1 + d - 1]
    BY <2>1, <2>2, SubSeqProperties
  <2> HIDE DEF t
  <2>4. Len(t) = n - 1
    BY <1>4, <2>3
  <2>5. \A d \in 1..(n - 1) : t[d] = Upto(n - 1)[d]
    <3> SUFFICES ASSUME NEW d \in 1..(n - 1)
                 PROVE  t[d] = Upto(n - 1)[d]
      OBVIOUS
    <3>1. n - 1 \in Nat /\ d \in 1..((n - 1) - 1 + 1) /\ 1 + d - 1 = d /\ d \in 1..n
      BY <1>4
    <3>2. t[d] = Upto(n)[d]
      BY <2>3, <3>1
    <3> QED
      BY <1>1, <3>1, <3>2
  <2>6. n - 1 \in Nat
    BY <1>4
  <2>7. t = Upto(n - 1)
    BY <1>1, <2>3, <2>4, <2>5, <2>6, SeqEqual
  <2> QED
    BY <2>7 DEF t
<1> QED
  BY <1>1, <1>2, <1>3, <1>4

Traced(eng, chain, n) ==
    \A i \in DOMAIN chain : chain[i].contexts = IF eng = "baseline" THEN Upto(n) ELSE <<>>

LEMMA NotifyStartFacts ==
    ASSUME tracers \in Seq(Tracers), NEW n \in Nat, Traced("baseline", tracers, n), NotifyStart(n)
    PROVE  tracers' \in Seq(Tracers) /\ Traced("baseline", tracers', n + 1)
<1>1. Len(tracers) \in Nat /\ DOMAIN tracers = 1..Len(tracers)
  BY LenProperties
<1>2. tracers' = [i \in 1..Len(tracers) |-> [tracers[i] EXCEPT !.contexts = Append(@, n)]]
  BY <1>1 DEF NotifyStart
<1>3. ASSUME NEW i \in 1..Len(tracers)
      PROVE  [tracers[i] EXCEPT !.contexts = Append(@, n)] =
               [kind |-> tracers[i].kind, contexts |-> Upto(n + 1)]
  <2>1. tracers[i] \in Tracers
    BY ElementOfSeq
  <2>2. tracers[i].contexts = Upto(n)
    BY <1>1 DEF Traced
  <2>3. Append(Upto(n), n) = Upto(n + 1)
    BY UptoFacts
  <2> QED
    BY <2>1, <2>2, <2>3 DEF Tracers
<1>4. \A i \in 1..Len(tracers) : [kind |-> tracers[i].kind, contexts |-> Upto(n + 1)] \in Tracers
  <2>1. n + 1 \in Nat /\ Upto(n + 1) \in Seq(Nat)
    BY UptoFacts
  <2> QED
    BY <1>1, <2>1, ElementOfSeq DEF Tracers
<1>5. tracers' = [i \in 1..Len(tracers) |-> [kind |-> tracers[i].kind, contexts |-> Upto(n + 1)]]
  BY <1>2, <1>3
<1>6. tracers' \in Seq(Tracers) /\ DOMAIN tracers' = 1..Len(tracers)
  BY <1>1, <1>4, <1>5
<1> QED
  BY <1>5, <1>6 DEF Traced

LEMMA NotifyEndFacts ==
    ASSUME tracers \in Seq(Tracers), NEW n \in Nat, n > 0, NEW status,
           Traced("baseline", tracers, n), NotifyEnd(status)
    PROVE  tracers' \in Seq(Tracers) /\ Traced("baseline", tracers', n - 1)
<1>1. Len(tracers) \in Nat /\ DOMAIN tracers = 1..Len(tracers)
  BY LenProperties
<1>2. tracers' = [i \in 1..Len(tracers) |-> [tracers[i] EXCEPT !.contexts = Front(@)]]
  BY <1>1 DEF NotifyEnd
<1>3. ASSUME NEW i \in 1..Len(tracers)
      PROVE  [tracers[i] EXCEPT !.contexts = Front(@)] =
               [kind |-> tracers[i].kind, contexts |-> Upto(n - 1)]
  <2>1. tracers[i] \in Tracers
    BY ElementOfSeq
  <2>2. tracers[i].contexts = Upto(n)
    BY <1>1 DEF Traced
  <2>3. Front(Upto(n)) = Upto(n - 1)
    BY UptoFacts
  <2> QED
    BY <2>1, <2>2, <2>3 DEF Tracers
<1>4. \A i \in 1..Len(tracers) : [kind |-> tracers[i].kind, contexts |-> Upto(n - 1)] \in Tracers
  <2>1. n - 1 \in Nat
    OBVIOUS
  <2>2. Upto(n - 1) \in Seq(Nat)
    BY <2>1, UptoFacts
  <2> QED
    BY <1>1, <2>2, ElementOfSeq DEF Tracers
<1>5. tracers' = [i \in 1..Len(tracers) |-> [kind |-> tracers[i].kind, contexts |-> Upto(n - 1)]]
  BY <1>2, <1>3
<1>6. tracers' \in Seq(Tracers) /\ DOMAIN tracers' = 1..Len(tracers)
  BY <1>1, <1>4, <1>5
<1> QED
  BY <1>5, <1>6 DEF Traced

LEMMA TracersFollowIsTraced ==
    TracersFollow <=> Traced(engine, tracers, Active)
BY DEF TracersFollow, Traced, Upto

-----------------------------------------------------------------------------
(* Changes of the state of an execution. *)

LEMMA ChangeFacts ==
    ASSUME NEW e \in Executions, NEW add \in FieldSets, NEW drop \in FieldSets, NEW c, c = Change(e, add, drop)
    PROVE  /\ c \in Executions
           /\ c.engine = e.engine /\ c.depth = e.depth /\ c.gas = e.gas /\ c.given = e.given
           /\ c.changed = (e.changed \ drop) \union add
           /\ c.own.depth = e.own.depth /\ c.own.m_tx = e.own.m_tx
           /\ e.engine = "advanced" => c.own.changed = (e.own.changed \ drop) \union add
<1>1. (e.changed \ drop) \union add \in SUBSET Fields
  BY DEF Executions, FieldSets
<1>2. (e.own.changed \ drop) \union add \in SUBSET Fields
  BY DEF Executions, States, FieldSets
<1> QED
  BY <1>1, <1>2 DEF Change, Executions, States

LEMMA ChangePoolFacts ==
    ASSUME TypeOK, NEW e \in Executions, e.engine = "baseline" => e.depth + 1 <= Len(states),
           NEW add \in FieldSets, NEW drop \in FieldSets, NEW pool, pool = ChangePool(e, add, drop)
    PROVE  /\ pool \in Seq(States) /\ Len(pool) = Len(states)
           /\ \A j \in 1..Len(states) : e.engine = "baseline" => (j # e.depth + 1 => pool[j] = states[j])
           /\ e.engine = "baseline" =>
                /\ pool[e.depth + 1].depth = states[e.depth + 1].depth
                /\ pool[e.depth + 1].m_tx = states[e.depth + 1].m_tx
                /\ pool[e.depth + 1].changed = (states[e.depth + 1].changed \ drop) \union add
           /\ e.engine # "baseline" => pool = states
<1>1. CASE e.engine = "baseline"
  <2> DEFINE p == e.depth + 1
             new == [states[p] EXCEPT !.changed = (@ \ drop) \union add]
  <2>1. states \in Seq(States) /\ p \in 1..Len(states)
    BY <1>1, LenProperties DEF TypeOK, Executions
  <2>2. states[p] \in States
    BY <2>1, ElementOfSeq
  <2>3. /\ new \in States /\ new.depth = states[p].depth /\ new.m_tx = states[p].m_tx
        /\ new.changed = (states[p].changed \ drop) \union add
    BY <2>2 DEF States, FieldSets
  <2>4. pool = [states EXCEPT ![p] = new]
    BY <1>1, <2>1 DEF ChangePool
  <2> HIDE DEF p, new
  <2>5. /\ pool \in Seq(States) /\ Len(pool) = Len(states)
        /\ \A j \in 1..Len(states) : pool[j] = IF j = p THEN new ELSE states[j]
    BY <2>1, <2>3, <2>4, ExceptSeq
  <2> QED
    BY <1>1, <2>1, <2>3, <2>5 DEF p
<1>2. CASE e.engine # "baseline"
  BY <1>2 DEF ChangePool, TypeOK
<1> QED
  BY <1>1, <1>2

(* Execution e is the one at depth i - 1, perhaps with other gas.              *)
SameExecution(e, i) ==
    /\ e \in Executions /\ e.engine = executions[i].engine /\ e.depth = executions[i].depth
    /\ e.changed = executions[i].changed /\ e.own = executions[i].own
    /\ e.given = executions[i].given

(* A change of the state of one execution is not seen by the others.           *)
LEMMA ChangeKeeps ==
    ASSUME IndInv, NEW i \in 1..Active, NEW e, SameExecution(e, i),
           NEW add \in FieldSets, NEW drop \in FieldSets,
           NEW c, c = Change(e, add, drop), NEW pool, pool = ChangePool(executions[i], add, drop)
    PROVE  /\ pool \in Seq(States) /\ Len(pool) = Len(states)
           /\ c \in Executions /\ c.gas = e.gas /\ c.given = executions[i].given
           /\ Isolated(engine, tx, pool, c, i - 1)
           /\ \A j \in 1..Active : j # i => Isolated(engine, tx, pool, executions[j], j - 1)
<1>1. \A j \in 1..Active : executions[j] \in Executions /\ Isolated(engine, tx, states, executions[j], j - 1)
  BY ElementOfSeq DEF IndInv, TypeOK, Framed, Active
<1>2. Active \in Nat /\ Len(states) \in Nat
  BY LenProperties DEF IndInv, TypeOK, Active
<1>3. /\ executions[i].engine = engine /\ executions[i].depth = i - 1 /\ (i - 1) + 1 = i
      /\ engine = "baseline" => i <= Len(states)
  BY <1>1, <1>2 DEF Isolated
<1>4. /\ c \in Executions /\ c.engine = engine /\ c.depth = i - 1 /\ c.gas = e.gas
      /\ c.given = executions[i].given
      /\ c.changed = (executions[i].changed \ drop) \union add
      /\ c.own.depth = executions[i].own.depth /\ c.own.m_tx = executions[i].own.m_tx
      /\ engine = "advanced" => c.own.changed = (executions[i].own.changed \ drop) \union add
  <2>1. e \in Executions
    BY DEF SameExecution
  <2>2. /\ c \in Executions
        /\ c.engine = e.engine /\ c.depth = e.depth /\ c.gas = e.gas /\ c.given = e.given
        /\ c.changed = (e.changed \ drop) \union add
        /\ c.own.depth = e.own.depth /\ c.own.m_tx = e.own.m_tx
        /\ e.engine = "advanced" => c.own.changed = (e.own.changed \ drop) \union add
    BY <2>1, ChangeFacts
  <2> QED
    BY <1>3, <2>2 DEF SameExecution
<1>5. /\ pool \in Seq(States) /\ Len(pool) = Len(states)
      /\ engine = "baseline" => /\ pool[i].depth = states[i].depth /\ pool[i].m_tx = states[i].m_tx
                                /\ pool[i].changed = (states[i].changed \ drop) \union add
                                /\ \A j \in 1..Len(states) : j # i => pool[j] = states[j]
      /\ engine # "baseline" => pool = states
  <2> DEFINE f == executions[i]
  <2>1. f \in Executions /\ f.engine = engine /\ f.depth + 1 = i /\ TypeOK
    BY <1>1, <1>3 DEF IndInv
  <2>2. pool = ChangePool(f, add, drop) /\ (f.engine = "baseline" => f.depth + 1 <= Len(states))
    BY <1>3, <2>1
  <2> HIDE DEF f
  <2>3. /\ pool \in Seq(States) /\ Len(pool) = Len(states)
        /\ \A j \in 1..Len(states) : f.engine = "baseline" => (j # f.depth + 1 => pool[j] = states[j])
        /\ f.engine = "baseline" =>
             /\ pool[f.depth + 1].depth = states[f.depth + 1].depth
             /\ pool[f.depth + 1].m_tx = states[f.depth + 1].m_tx
             /\ pool[f.depth + 1].changed = (states[f.depth + 1].changed \ drop) \union add
        /\ f.engine # "baseline" => pool = states
    BY <2>1, <2>2, ChangePoolFacts
  <2> QED
    BY <2>1, <2>3, Zenon
<1>6. Isolated(engine, tx, pool, c, i - 1)
  <2>1. Isolated(engine, tx, states, executions[i], i - 1)
    BY <1>1
  <2>2. CASE engine = "baseline"
    BY <1>3, <1>4, <1>5, <2>1, <2>2 DEF Isolated, StateIn
  <2>3. CASE engine # "baseline"
    <3>1. engine = "advanced"
      BY <2>3 DEF IndInv, TypeOK
    <3> QED
      BY <1>3, <1>4, <1>5, <2>1, <3>1 DEF Isolated, StateIn
  <2> QED
    BY <2>2, <2>3
<1>7. ASSUME NEW j \in 1..Active, j # i
      PROVE  Isolated(engine, tx, pool, executions[j], j - 1)
  <2>1. Isolated(engine, tx, states, executions[j], j - 1) /\ (j - 1) + 1 = j
    BY <1>1, <1>2
  <2>2. CASE engine = "baseline"
    <3>1. j \in 1..Len(states)
      BY <1>2, <2>1, <2>2 DEF Isolated
    <3> QED
      BY <1>5, <1>7, <2>1, <2>2, <3>1 DEF Isolated, StateIn
  <2>3. CASE engine # "baseline"
    BY <1>5, <2>1, <2>3
  <2> QED
    BY <2>2, <2>3
<1> QED
  BY <1>4, <1>5, <1>6, <1>7

LEMMA TopFacts ==
    ASSUME IndInv, Active > 0
    PROVE  /\ Active \in Nat /\ Active \in 1..Active
           /\ Top \in Executions /\ Top.gas <= Top.given
           /\ Isolated(engine, tx, states, Top, Active - 1)
           /\ StateOf(Top).depth = Active - 1
<1>1. Active \in Nat /\ Active \in 1..Active /\ executions \in Seq(Executions)
  BY LenProperties DEF IndInv, TypeOK, Active
<1>2. Top \in Executions
  BY <1>1, ElementOfSeq DEF Top, Active
<1>3. Top.gas <= Top.given /\ Isolated(engine, tx, states, Top, Active - 1)
  BY <1>1 DEF IndInv, GasChain, Framed, Top, Active
<1>4. StateOf(Top).depth = Active - 1
  BY <1>3 DEF Isolated, StateOf, StateIn
<1> QED
  BY <1>1, <1>2, <1>3, <1>4

WithTop(e) == [executions EXCEPT ![Active] = e]

(* A change of the running execution, which may have spent gas.                *)
LEMMA TopChanged ==
    ASSUME IndInv, Active > 0, NEW e, SameExecution(e, Active), e.gas <= Top.gas,
           NEW add \in FieldSets, NEW drop \in FieldSets,
           NEW c, c = Change(e, add, drop), NEW pool, pool = ChangePool(Top, add, drop),
           NEW frames, frames = WithTop(c)
    PROVE  /\ pool \in Seq(States) /\ Len(pool) = Len(states)
           /\ frames \in Seq(Executions) /\ Len(frames) = Active
           /\ frames[Active] = c /\ c.gas = e.gas /\ c.given = Top.given
           /\ Framed(engine, tx, pool, frames) /\ GasChain(setup, frames)
<1>1. Active \in Nat /\ Active \in 1..Active /\ executions \in Seq(Executions)
  BY LenProperties DEF IndInv, TypeOK, Active
<1>2. /\ pool \in Seq(States) /\ Len(pool) = Len(states)
      /\ c \in Executions /\ c.gas = e.gas /\ c.given = Top.given
      /\ Isolated(engine, tx, pool, c, Active - 1)
      /\ \A j \in 1..Active : j # Active => Isolated(engine, tx, pool, executions[j], j - 1)
  BY <1>1, ChangeKeeps DEF Top
<1>3. /\ frames \in Seq(Executions) /\ Len(frames) = Active
      /\ \A j \in 1..Active : frames[j] = IF j = Active THEN c ELSE executions[j]
  BY <1>1, <1>2, ExceptSeq DEF Active, WithTop
<1>4. Framed(engine, tx, pool, frames)
  BY <1>2, <1>3 DEF Framed
<1>5. GasChain(setup, frames)
  <2>1. GasChain(setup, executions) /\ Len(executions) = Active
    BY DEF IndInv, Active
  <2>2. \A j \in 1..Active : frames[j].given = executions[j].given
    BY <1>2, <1>3 DEF Top
  <2>a. Top \in Executions /\ e \in Executions
    BY <1>1, ElementOfSeq DEF SameExecution, Top, Active
  <2>b. Top.gas <= Top.given
    BY <1>1, <2>1 DEF GasChain, Top
  <2>3. e.gas \in Nat /\ Top.gas \in Nat /\ Top.given \in Nat /\ Top.gas <= Top.given
    BY <2>a, <2>b DEF Executions
  <2>4. \A j \in 1..Active : frames[j].gas <= frames[j].given
    BY <1>1, <1>2, <1>3, <2>1, <2>3 DEF GasChain
  <2>5. \A j \in 1..(Active - 1) : j \in 1..Active /\ j + 1 \in 1..Active /\ j # Active
    BY <1>1
  <2>6. \A j \in 1..(Active - 1) :
          /\ frames[j].gas <= frames[j].given - setup.call_overhead
          /\ frames[j + 1].given <= AllBut64th(frames[j].gas)
    BY <1>3, <2>1, <2>2, <2>5 DEF GasChain
  <2>7. frames[1].given \in FirstGas(setup)
    BY <1>1, <2>1, <2>2 DEF GasChain
  <2> QED
    BY <1>3, <2>4, <2>6, <2>7 DEF GasChain
<1> QED
  BY <1>1, <1>2, <1>3, <1>4, <1>5

-----------------------------------------------------------------------------
(* The start of an execution. *)

LEMMA NewStateFacts ==
    ASSUME NEW depth \in Nat
    PROVE  /\ NewState(depth) \in States /\ NewState(depth).depth = depth
           /\ NewState(depth).changed = {} /\ NewState(depth).m_tx.timestamp = 0
<1>1. NoContext \in Contexts /\ NoContext.timestamp = 0
  BY DEF NoContext, Contexts
<1>2. NewState(depth) = [depth |-> depth, changed |-> {}, m_tx |-> NoContext]
  BY DEF NewState
<1>3. {} \in SUBSET Fields
  OBVIOUS
<1>4. NewState(depth) \in States
  BY <1>1, <1>2, <1>3 DEF States
<1> QED
  BY <1>1, <1>2, <1>4

(* The pool grows as far as it must, and what is in it stays in place.         *)
LEMMA ReadyFacts ==
    ASSUME NEW pool \in Seq(States), NEW depth \in Nat, NEW ready, ready = GetExecutionState(pool, depth)
    PROVE  /\ ready \in Seq(States)
           /\ Len(ready) = IF depth + 1 <= Len(pool) THEN Len(pool) ELSE depth + 1
           /\ \A i \in 1..Len(pool) : ready[i] = pool[i]
<1> DEFINE k == Max({depth + 1 - Len(pool), 0})
           extra == [i \in 1..k |-> NewState(0)]
<1>1. Len(pool) \in Nat
  BY LenProperties
<1>2. k = IF depth + 1 <= Len(pool) THEN 0 ELSE depth + 1 - Len(pool)
  BY <1>1 DEF Max
<1>3. k \in Nat
  BY <1>1, <1>2
<1> HIDE DEF k
<1>4. extra \in Seq(States) /\ Len(extra) = k
  BY <1>3, NewStateFacts
<1>5. ready = pool \o extra
  BY DEF GetExecutionState, k
<1> HIDE DEF extra
<1>6. /\ ready \in Seq(States) /\ Len(ready) = Len(pool) + Len(extra)
      /\ \A i \in 1..(Len(pool) + Len(extra)) :
           ready[i] = IF i <= Len(pool) THEN pool[i] ELSE extra[i - Len(pool)]
  BY <1>4, <1>5, ConcatProperties
<1> QED
  BY <1>1, <1>2, <1>3, <1>4, <1>6

(* An execution starts one deeper than the last of its callers, if these are   *)
(* in order and have given it the gas.                                         *)
LEMMA ExecuteKeeps ==
    ASSUME setup \in Setups, engine \in {"baseline", "advanced"}, tx' \in Contexts,
           NEW callers \in Seq(Executions), NEW pool \in Seq(States), Len(pool) <= setup.capacity,
           NEW depth, depth = Len(callers), NEW gas \in Nat,
           tracers \in Seq(Tracers), Traced(engine, tracers, depth),
           Framed(engine, tx', pool, callers), GasChain(setup, callers),
           depth = 0 => gas \in FirstGas(setup),
           depth > 0 => /\ callers[depth].gas <= callers[depth].given - setup.call_overhead
                        /\ gas <= AllBut64th(callers[depth].gas),
           ~setup.osaka => depth < setup.capacity,
           Execute(depth, gas, callers, pool)
    PROVE  IndInv'
<1> DEFINE new == [engine |-> engine, depth |-> depth, gas |-> gas, given |-> gas,
                   changed |-> {}, own |-> NewState(depth)]
           ready == GetExecutionState(pool, depth)
<1>1. depth \in Nat /\ Len(pool) \in Nat
  BY LenProperties
<1>2. /\ executions' = Append(callers, new)
      /\ setup' = setup /\ engine' = engine
  BY DEF Execute
<1>3. \/ /\ engine = "baseline"
         /\ states' = [ready EXCEPT ![depth + 1] = NewState(depth)]
         /\ NotifyStart(depth)
      \/ engine = "advanced" /\ states' = pool /\ tracers' = tracers
  BY DEF Execute, Reset
<1>4. new \in Executions
  BY <1>1, NewStateFacts DEF Executions
<1>5. /\ new.engine = engine /\ new.depth = depth /\ new.gas = gas /\ new.given = gas
      /\ new.changed = {} /\ new.own = NewState(depth)
  OBVIOUS
<1> HIDE DEF new
<1>6. /\ executions' \in Seq(Executions) /\ Len(executions') = depth + 1
      /\ \A i \in 1..depth : executions'[i] = callers[i]
      /\ executions'[depth + 1] = new
  BY <1>2, <1>4, AppendProperties
<1>7. \A i \in 1..(depth + 1) : i \in 1..depth \/ i = depth + 1
  BY <1>1
<1>8. GasChain(setup, executions')
  <2>1. \A i \in 1..(depth + 1) : executions'[i].gas <= executions'[i].given
    BY <1>5, <1>6, <1>7 DEF GasChain
  <2>2. executions'[1].given \in FirstGas(setup)
    <3>1. CASE depth = 0
      BY <1>5, <1>6, <3>1
    <3>2. CASE depth > 0
      BY <1>1, <1>6, <3>2 DEF GasChain
    <3> QED
      BY <1>1, <3>1, <3>2
  <2>3. ASSUME NEW i \in 1..depth
        PROVE  /\ executions'[i].gas <= executions'[i].given - setup.call_overhead
               /\ executions'[i + 1].given <= AllBut64th(executions'[i].gas)
    <3>1. CASE i = depth
      BY <1>1, <1>5, <1>6, <3>1
    <3>2. CASE i # depth
      <4>1. i \in 1..(depth - 1) /\ i + 1 \in 1..depth
        BY <1>1, <3>2
      <4> QED
        BY <1>6, <4>1 DEF GasChain
    <3> QED
      BY <3>1, <3>2
  <2>4. (depth + 1) - 1 = depth
    BY <1>1
  <2> QED
    BY <1>6, <2>1, <2>2, <2>3, <2>4 DEF GasChain
<1>9. depth + 1 <= setup.capacity
  <2>1. setup.capacity \in Nat /\ setup.osaka \in BOOLEAN
    BY SetupFacts
  <2>2. CASE setup.osaka
    <3>1. Len(executions') <= 540
      BY <1>6, <1>8, <2>2, Shallow
    <3>2. setup.capacity >= 540
      BY <2>2, OsakaAssumption
    <3> QED
      BY <1>1, <1>6, <2>1, <3>1, <3>2
  <2>3. CASE ~setup.osaka
    BY <1>1, <2>1, <2>3
  <2> QED
    BY <2>2, <2>3
<1>10. CASE engine = "baseline"
  <2>1. /\ ready \in Seq(States)
        /\ Len(ready) = IF depth + 1 <= Len(pool) THEN Len(pool) ELSE depth + 1
        /\ \A i \in 1..Len(pool) : ready[i] = pool[i]
    BY <1>1, ReadyFacts
  <2> HIDE DEF ready
  <2>2. depth + 1 \in 1..Len(ready) /\ NewState(depth) \in States
    BY <1>1, <2>1, NewStateFacts
  <2>3. /\ states' \in Seq(States) /\ Len(states') = Len(ready)
        /\ \A i \in 1..Len(ready) : states'[i] = IF i = depth + 1 THEN NewState(depth) ELSE ready[i]
    <3>1. states' = [ready EXCEPT ![depth + 1] = NewState(depth)]
      BY <1>3, <1>10 DEF ready
    <3> QED
      BY <2>1, <2>2, <3>1, ExceptSeq
  <2>4. tracers' \in Seq(Tracers) /\ Traced(engine, tracers', depth + 1)
    BY <1>1, <1>3, <1>10, NotifyStartFacts
  <2>5. ASSUME NEW i \in 1..depth
        PROVE  Isolated(engine, tx', states', executions'[i], i - 1)
    <3>1. Isolated(engine, tx', pool, callers[i], i - 1)
      BY DEF Framed
    <3>2. (i - 1) + 1 = i /\ i \in 1..Len(pool) /\ i \in 1..Len(ready) /\ i # depth + 1
      BY <1>1, <1>10, <2>1, <3>1 DEF Isolated
    <3>3. states'[i] = pool[i]
      BY <2>1, <2>3, <3>2
    <3>4. i <= Len(states')
      BY <2>3, <3>2
    <3> QED
      BY <1>6, <1>10, <3>1, <3>2, <3>3, <3>4 DEF Isolated, StateIn
  <2>6. Isolated(engine, tx', states', new, depth)
    <3>1. states'[depth + 1] = NewState(depth) /\ depth + 1 <= Len(states')
      BY <2>2, <2>3
    <3> QED
      BY <1>1, <1>5, <1>10, <3>1, NewStateFacts DEF Isolated, StateIn
  <2>7. Framed(engine', tx', states', executions')
    <3>1. (depth + 1) - 1 = depth
      BY <1>1
    <3> QED
      BY <1>2, <1>6, <1>7, <2>5, <2>6, <3>1 DEF Framed
  <2>8. TypeOK'
    BY <1>2, <1>6, <2>3, <2>4 DEF TypeOK
  <2>9. Room'
    BY <1>1, <1>2, <1>6, <1>9, <2>1, <2>3 DEF Room, Active
  <2>10. TracersFollow'
    BY <1>2, <1>6, <1>10, <2>4 DEF TracersFollow, Traced, Upto, Active
  <2> QED
    BY <1>2, <1>8, <2>7, <2>8, <2>9, <2>10 DEF IndInv
<1>11. CASE engine = "advanced"
  <2>1. states' = pool /\ tracers' = tracers
    BY <1>3, <1>11
  <2>2. Isolated(engine, tx', states', new, depth)
    BY <1>1, <1>5, <1>11, NewStateFacts DEF Isolated, StateIn
  <2>3. \A i \in 1..depth : Isolated(engine, tx', states', executions'[i], i - 1)
    BY <1>6, <2>1 DEF Framed
  <2>4. Framed(engine', tx', states', executions')
    <3>1. (depth + 1) - 1 = depth
      BY <1>1
    <3> QED
      BY <1>2, <1>6, <1>7, <2>2, <2>3, <3>1 DEF Framed
  <2>5. TypeOK'
    BY <1>2, <1>6, <2>1 DEF TypeOK
  <2>6. Room'
    BY <1>2, <1>6, <1>9, <2>1 DEF Room, Active
  <2>7. TracersFollow'
    BY <1>2, <1>11, <2>1 DEF TracersFollow, Traced
  <2> QED
    BY <1>2, <1>8, <2>4, <2>5, <2>6, <2>7 DEF IndInv
<1> QED
  BY <1>10, <1>11

-----------------------------------------------------------------------------
(* The actions. *)

LEMMA IdleFacts ==
    ASSUME IndInv
    PROVE  /\ Active \in Nat /\ (Idle <=> Active = 0)
           /\ Framed(engine, tx, states, <<>>) /\ GasChain(setup, <<>>)
<1>1. executions \in Seq(Executions)
  BY DEF IndInv, TypeOK
<1>2. Active \in Nat /\ (Idle <=> Active = 0)
  BY <1>1, LenProperties, EmptySeq DEF Active, Idle
<1> QED
  BY <1>2 DEF Framed, GasChain

LEMMA BeginKeeps ==
    ASSUME IndInv, NEW context \in setup.contexts, NEW gas,
           BeginTransaction(context, gas) \/ BeginSystemCall(context, gas)
    PROVE  IndInv'
<1>1. Active = 0 /\ tx' = context /\ Execute(0, gas, <<>>, states) /\ gas \in FirstGas(setup)
  BY IdleFacts DEF BeginTransaction, BeginSystemCall, Begin, FirstGas
<1>2. /\ setup \in Setups /\ engine \in {"baseline", "advanced"} /\ states \in Seq(States)
      /\ tracers \in Seq(Tracers)
  BY DEF IndInv, TypeOK
<1>3. tx' \in Contexts /\ gas \in Nat /\ 0 < setup.capacity
  BY <1>1, <1>2, SetupFacts
<1>4. Traced(engine, tracers, 0)
  BY <1>1, TracersFollowIsTraced DEF IndInv
<1>5. <<>> \in Seq(Executions) /\ Len(<<>>) = 0 /\ 0 \in Nat
  BY EmptySeq
<1>6. Framed(engine, tx', states, <<>>) /\ GasChain(setup, <<>>)
  BY DEF Framed, GasChain
<1>7. Len(states) <= setup.capacity
  BY DEF IndInv, Room
<1> DEFINE none == <<>>
<1>8. none \in Seq(Executions) /\ 0 = Len(none) /\ ~(0 > 0) /\ Execute(0, gas, none, states)
  BY <1>1, <1>5
<1>9. Framed(engine, tx', states, none) /\ GasChain(setup, none)
  BY <1>6
<1> HIDE DEF none
<1> QED
  BY <1>1, <1>2, <1>3, <1>4, <1>7, <1>8, <1>9, ExecuteKeeps

(* The caller of a call that is made, or is too deep.                          *)
LEMMA CallerFacts ==
    ASSUME IndInv, Active > 0, Top.gas >= setup.call_overhead,
           NEW callers, callers = WithTop(Caller)
    PROVE  /\ CallerPool \in Seq(States) /\ Len(CallerPool) = Len(states)
           /\ callers \in Seq(Executions) /\ Len(callers) = Active
           /\ callers[Active] = Caller /\ Caller.gas = Top.gas - setup.call_overhead
           /\ Caller.given = Top.given
           /\ Framed(engine, tx, CallerPool, callers) /\ GasChain(setup, callers)
<1> DEFINE e == [Top EXCEPT !.gas = @ - setup.call_overhead]
           drop == {"return_data"}
           add == {}
           caller == Caller
           pool == CallerPool
<1>1. Top \in Executions /\ setup.call_overhead \in Nat
  BY TopFacts, SetupFacts DEF IndInv, TypeOK
<1>2. SameExecution(e, Active) /\ e.gas = Top.gas - setup.call_overhead /\ e.gas <= Top.gas
  <2>1. Top.gas \in Nat
    BY <1>1 DEF Executions
  <2>2. e.gas = Top.gas - setup.call_overhead /\ e.gas \in Nat
    BY <1>1, <2>1 DEF Executions
  <2>3. SameExecution(e, Active)
    BY <1>1, <2>2 DEF SameExecution, Top, Executions
  <2> QED
    BY <1>1, <2>1, <2>2, <2>3
<1>3. add \in FieldSets /\ drop \in FieldSets
  BY DEF FieldSets, Fields
<1>4. caller = Change(e, add, drop) /\ pool = ChangePool(Top, add, drop)
  BY DEF Caller, CallerPool
<1>5. callers = WithTop(caller)
  OBVIOUS
<1> HIDE DEF e, add, drop, caller, pool
<1>6. /\ pool \in Seq(States) /\ Len(pool) = Len(states)
      /\ callers \in Seq(Executions) /\ Len(callers) = Active
      /\ callers[Active] = caller /\ caller.gas = e.gas /\ caller.given = Top.given
      /\ Framed(engine, tx, pool, callers) /\ GasChain(setup, callers)
  BY <1>2, <1>3, <1>4, <1>5, TopChanged
<1> QED
  BY <1>2, <1>6 DEF caller, pool

LEMMA CallKeeps ==
    ASSUME IndInv, NEW asked \in setup.call_gas, Call(asked)
    PROVE  IndInv'
<1> DEFINE callers == WithTop(Caller)
           gas == Min({asked, AllBut64th(Caller.gas)})
<1>1. /\ Active \in Nat /\ Active > 0 /\ Active \in 1..Active /\ Top.gas >= setup.call_overhead
      /\ ~AtDepthLimit(StateOf(Top).depth)
      /\ Execute(StateOf(Top).depth + 1, gas, callers, CallerPool) /\ tx' = tx
  BY IdleFacts DEF Call, WithTop
<1>2. /\ setup \in Setups /\ engine \in {"baseline", "advanced"} /\ tx \in Contexts
      /\ tracers \in Seq(Tracers) /\ executions \in Seq(Executions)
  BY DEF IndInv, TypeOK
<1>3. Top \in Executions /\ StateOf(Top).depth = Active - 1
  BY <1>1, TopFacts
<1>4. setup.call_overhead \in Nat /\ Top.gas \in Nat /\ Top.given \in Nat /\ Top.gas <= Top.given
  BY <1>1, <1>2, <1>3, SetupFacts, TopFacts DEF Executions
<1>5. /\ CallerPool \in Seq(States) /\ Len(CallerPool) = Len(states)
      /\ callers \in Seq(Executions) /\ Len(callers) = Active
      /\ callers[Active] = Caller /\ Caller.gas = Top.gas - setup.call_overhead /\ Caller.given = Top.given
      /\ Framed(engine, tx, CallerPool, callers) /\ GasChain(setup, callers)
  BY <1>1, CallerFacts
<1>6. gas \in Nat /\ gas <= AllBut64th(Caller.gas)
  <2>1. Caller.gas \in Nat
    BY <1>1, <1>4, <1>5
  <2>2. AllBut64th(Caller.gas) \in Nat
    BY <2>1 DEF AllBut64th
  <2>3. asked \in Nat
    BY <1>2, SetupFacts
  <2> QED
    BY <2>2, <2>3 DEF Min
<1> HIDE DEF callers, gas
<1>7. Caller.gas <= Caller.given - setup.call_overhead
  BY <1>4, <1>5
<1>8. ~setup.osaka => Active < setup.capacity
  BY <1>1, <1>2, <1>3, SetupFacts DEF AtDepthLimit
<1>9. Len(CallerPool) <= setup.capacity
  BY <1>5 DEF IndInv, Room
<1>10. Traced(engine, tracers, Active)
  BY TracersFollowIsTraced DEF IndInv
<1>11. Execute(Active, gas, callers, CallerPool)
  <2>1. StateOf(Top).depth + 1 = Active
    BY <1>1, <1>3
  <2> QED
    BY <1>1, <2>1
<1>12. Active # 0
  BY <1>1
<1> QED
  BY <1>1, <1>2, <1>5, <1>6, <1>7, <1>8, <1>9, <1>10, <1>11, <1>12, ExecuteKeeps

(* The steps that neither start nor end an execution.                          *)
LEMMA SameDepth ==
    ASSUME IndInv, UNCHANGED <<setup, engine, tracers, tx>>,
           states' \in Seq(States), Len(states') = Len(states),
           executions' \in Seq(Executions), Len(executions') = Active,
           Framed(engine, tx, states', executions'), GasChain(setup, executions')
    PROVE  IndInv'
<1>1. TypeOK'
  BY DEF IndInv, TypeOK
<1>2. Room' /\ TracersFollow'
  BY DEF IndInv, Room, TracersFollow, Active
<1> QED
  BY <1>1, <1>2 DEF IndInv

LEMMA CallTooDeepKeeps ==
    ASSUME IndInv, CallTooDeep
    PROVE  IndInv'
<1>1. Active > 0 /\ Top.gas >= setup.call_overhead
  BY IdleFacts DEF CallTooDeep
<1>2. /\ executions' = WithTop(Caller) /\ states' = CallerPool
      /\ UNCHANGED <<setup, engine, tracers, tx>>
  BY DEF CallTooDeep, WithTop
<1>3. /\ states' \in Seq(States) /\ Len(states') = Len(states)
      /\ executions' \in Seq(Executions) /\ Len(executions') = Active
      /\ Framed(engine, tx, states', executions') /\ GasChain(setup, executions')
  <2> DEFINE callers == WithTop(Caller)
  <2> HIDE DEF callers
  <2>1. /\ CallerPool \in Seq(States) /\ Len(CallerPool) = Len(states)
        /\ callers \in Seq(Executions) /\ Len(callers) = Active
        /\ Framed(engine, tx, CallerPool, callers) /\ GasChain(setup, callers)
    BY <1>1, CallerFacts DEF callers
  <2> QED
    BY <1>2, <2>1 DEF callers
<1> QED
  BY <1>2, <1>3, SameDepth

LEMMA WorkKeeps ==
    ASSUME IndInv, NEW field \in setup.fields, Work(field)
    PROVE  IndInv'
<1> DEFINE add == {field}
           drop == {}
           c == Change(Top, add, drop)
           pool == ChangePool(Top, add, drop)
           frames == WithTop(c)
           e == Top
<1>1. Active > 0
  BY IdleFacts DEF Work
<1>2. executions' = frames /\ states' = pool /\ UNCHANGED <<setup, engine, tracers, tx>>
  BY DEF Work, WithTop, Top
<1>3. add \in FieldSets /\ drop \in FieldSets
  BY SetupFacts DEF IndInv, TypeOK, FieldSets
<1>4. SameExecution(e, Active) /\ e.gas <= Top.gas
  BY <1>1, TopFacts DEF SameExecution, Top, Executions
<1>5. c = Change(e, add, drop) /\ pool = ChangePool(Top, add, drop) /\ frames = WithTop(c)
  OBVIOUS
<1> HIDE DEF add, drop, c, pool, frames, e
<1>6. /\ pool \in Seq(States) /\ Len(pool) = Len(states)
      /\ frames \in Seq(Executions) /\ Len(frames) = Active
      /\ Framed(engine, tx, pool, frames) /\ GasChain(setup, frames)
  BY <1>1, <1>3, <1>4, <1>5, TopChanged
<1> QED
  BY <1>2, <1>6, SameDepth

(* Between executions the engine may change, and the tracers.                  *)
LEMMA IdleKeeps ==
    ASSUME IndInv, Idle, UNCHANGED <<setup, states, executions, tx>>,
           engine' \in {"baseline", "advanced"}, tracers' \in Seq(Tracers),
           \A i \in DOMAIN tracers' : tracers'[i].contexts = <<>>
    PROVE  IndInv'
<1>1. executions' = <<>> /\ Len(executions') = 0 /\ Active = 0
  BY IdleFacts, EmptySeq DEF Idle, Active
<1>2. TypeOK'
  BY DEF IndInv, TypeOK
<1>3. Framed(engine', tx', states', executions') /\ GasChain(setup', executions')
  BY <1>1 DEF Framed, GasChain
<1>4. Room'
  BY DEF IndInv, Room, Active
<1>5. TracersFollow'
  <2>1. Upto(0) = <<>>
    BY UptoFacts
  <2>2. Traced(engine', tracers', 0)
    BY <2>1 DEF Traced
  <2>3. [d \in 1..Active' |-> d - 1] = <<>>
    BY <1>1, <2>1 DEF Upto, Active
  <2> QED
    BY <2>1, <2>2, <2>3 DEF Traced, TracersFollow
<1> QED
  BY <1>2, <1>3, <1>4, <1>5 DEF IndInv

LEMMA SetOptionKeeps ==
    ASSUME IndInv, NEW name \in setup.options, NEW value, SetOption(name, value)
    PROVE  IndInv'
<1>1. Idle /\ UNCHANGED <<setup, states, executions, tx>>
  BY DEF SetOption
<1>2. /\ engine' \in {"baseline", "advanced"}
      /\ tracers' = tracers \/ AddTracer(name)
  BY DEF SetOption, IndInv, TypeOK
<1>3. tracers \in Seq(Tracers) /\ \A i \in 1..Len(tracers) : tracers[i].contexts = <<>>
  <2>1. Traced(engine, tracers, 0)
    BY <1>1, IdleFacts, TracersFollowIsTraced DEF IndInv
  <2>2. tracers \in Seq(Tracers) /\ DOMAIN tracers = 1..Len(tracers) /\ Upto(0) = <<>>
    BY LenProperties, UptoFacts DEF IndInv, TypeOK
  <2> QED
    BY <2>1, <2>2 DEF Traced
<1>4. CASE tracers' = tracers
  BY <1>1, <1>2, <1>3, <1>4, IdleKeeps, LenProperties
<1>5. CASE AddTracer(name)
  <2> DEFINE tracer == [kind |-> name, contexts |-> <<>>]
  <2>1. tracer \in Tracers /\ tracer.contexts = <<>>
    <3>1. name \in STRING
      BY SetupFacts DEF IndInv, TypeOK
    <3>2. <<>> \in Seq(Nat)
      BY EmptySeq
    <3> QED
      BY <3>1, <3>2 DEF Tracers
  <2>2. tracers' = Append(tracers, tracer)
    BY <1>5 DEF AddTracer
  <2> HIDE DEF tracer
  <2>3. /\ tracers' \in Seq(Tracers) /\ Len(tracers') = Len(tracers) + 1
        /\ \A i \in 1..Len(tracers) : tracers'[i] = tracers[i]
        /\ tracers'[Len(tracers) + 1] = tracer
    BY <1>3, <2>1, <2>2, AppendProperties
  <2>4. Len(tracers) \in Nat /\ DOMAIN tracers' = 1..(Len(tracers) + 1)
    BY <1>3, <2>3, LenProperties
  <2>5. ASSUME NEW i \in DOMAIN tracers'
        PROVE  tracers'[i].contexts = <<>>
    <3>1. i \in 1..Len(tracers) \/ i = Len(tracers) + 1
      BY <2>4
    <3> QED
      BY <1>3, <2>1, <2>3, <3>1
  <2> QED
    BY <1>1, <1>2, <2>3, <2>5, IdleKeeps
<1> QED
  BY <1>2, <1>4, <1>5

LEMMA RemoveTracersKeeps ==
    ASSUME IndInv, RemoveTracers
    PROVE  IndInv'
<1>1. Idle /\ UNCHANGED <<setup, states, executions, tx>> /\ engine' = engine /\ tracers' = <<>>
  BY DEF RemoveTracers
<1>2. tracers' \in Seq(Tracers) /\ DOMAIN tracers' = {}
  BY <1>1, EmptySeq
<1>3. engine' \in {"baseline", "advanced"}
  BY <1>1 DEF IndInv, TypeOK
<1> QED
  BY <1>1, <1>2, <1>3, IdleKeeps

LEMMA GetTxContextKeeps ==
    ASSUME IndInv, GetTxContext
    PROVE  IndInv'
<1>1. Active > 0 /\ UNCHANGED <<setup, engine, tracers, tx>>
  BY IdleFacts DEF GetTxContext
<1>2. /\ Active \in Nat /\ Active \in 1..Active
      /\ Top \in Executions /\ Top.gas <= Top.given
      /\ Isolated(engine, tx, states, Top, Active - 1)
  BY <1>1, TopFacts
<1>3. Top.engine = engine /\ Top.depth + 1 = Active
  BY <1>2 DEF Isolated
<1>4. tx \in Contexts /\ states \in Seq(States) /\ executions \in Seq(Executions) /\ Len(executions) = Active
  BY DEF IndInv, TypeOK, Active
<1>5. \A j \in 1..Active : Isolated(engine, tx, states, executions[j], j - 1)
  BY DEF IndInv, Framed, Active
<1>6. Len(states) \in Nat
  BY <1>4, LenProperties
<1>7. CASE engine = "baseline"
  <2> DEFINE new == [states[Active] EXCEPT !.m_tx = tx]
  <2>1. Active \in 1..Len(states)
    BY <1>2, <1>6, <1>7 DEF Isolated
  <2>2. states[Active] \in States
    BY <1>4, <2>1, ElementOfSeq
  <2>3. new \in States /\ new.depth = states[Active].depth /\ new.changed = states[Active].changed /\ new.m_tx = tx
    BY <1>4, <2>2 DEF States
  <2>4. states' = [states EXCEPT ![Active] = new] /\ executions' = executions
    BY <1>3, <1>4, <1>7, <2>1 DEF GetTxContext
  <2> HIDE DEF new
  <2>5. /\ states' \in Seq(States) /\ Len(states') = Len(states)
        /\ \A j \in 1..Len(states) : states'[j] = IF j = Active THEN new ELSE states[j]
    BY <1>4, <2>1, <2>3, <2>4, ExceptSeq
  <2>6. ASSUME NEW j \in 1..Active
        PROVE  Isolated(engine, tx, states', executions[j], j - 1)
    <3>1. (j - 1) + 1 = j /\ j \in 1..Len(states)
      BY <1>2, <2>1
    <3>2. Isolated(engine, tx, states, executions[j], j - 1)
      BY <1>5
    <3>3. StateIn(states, executions[j]) = states[j] /\ StateIn(states', executions[j]) = states'[j]
      BY <1>7, <3>1, <3>2 DEF StateIn, Isolated
    <3>4. /\ states'[j].depth = states[j].depth /\ states'[j].changed = states[j].changed
          /\ states'[j].m_tx = states[j].m_tx \/ states'[j].m_tx = tx
      BY <2>3, <2>5, <3>1
    <3> QED
      BY <2>5, <3>2, <3>3, <3>4 DEF Isolated
  <2>7. Framed(engine, tx, states', executions') /\ GasChain(setup, executions')
    BY <1>4, <2>4, <2>6 DEF Framed, IndInv
  <2> QED
    BY <1>1, <1>4, <2>4, <2>5, <2>7, SameDepth
<1>8. CASE engine = "advanced"
  <2> DEFINE new == [Top EXCEPT !.own.m_tx = tx]
  <2>1. new \in Executions
    BY <1>2, <1>4 DEF Executions, States
  <2>2. /\ new.engine = Top.engine /\ new.depth = Top.depth /\ new.gas = Top.gas /\ new.given = Top.given
        /\ new.changed = Top.changed /\ new.own.depth = Top.own.depth
        /\ new.own.changed = Top.own.changed /\ new.own.m_tx = tx
    BY <1>2 DEF Executions, States
  <2>3. executions' = [executions EXCEPT ![Active] = new] /\ states' = states
    BY <1>3, <1>8 DEF GetTxContext, Top
  <2> HIDE DEF new
  <2>4. /\ executions' \in Seq(Executions) /\ Len(executions') = Active
        /\ \A j \in 1..Active : executions'[j] = IF j = Active THEN new ELSE executions[j]
    BY <1>2, <1>4, <2>1, <2>3, ExceptSeq
  <2>5. Isolated(engine, tx, states, new, Active - 1)
    BY <1>2, <1>8, <2>2 DEF Isolated, StateIn
  <2>6. Framed(engine, tx, states', executions')
    BY <1>5, <2>3, <2>4, <2>5 DEF Framed
  <2>7. /\ \A j \in 1..Active : executions'[j].gas = executions[j].gas /\ executions'[j].given = executions[j].given
        /\ GasChain(setup, executions)
    BY <2>2, <2>4 DEF Top, IndInv
  <2>8. GasChain(setup, executions')
    <3>1. \A j \in 1..(Active - 1) : j \in 1..Active /\ j + 1 \in 1..Active
      BY <1>2
    <3>2. \A j \in 1..Active : executions'[j].gas <= executions'[j].given
      BY <1>4, <2>7 DEF GasChain
    <3>3. \A j \in 1..(Active - 1) :
            /\ executions'[j].gas <= executions'[j].given - setup.call_overhead
            /\ executions'[j + 1].given <= AllBut64th(executions'[j].gas)
      BY <1>4, <2>7, <3>1 DEF GasChain
    <3>4. 1 \in 1..Active
      BY <1>1, <1>2
    <3>5. executions'[1].given \in FirstGas(setup)
      BY <1>1, <1>4, <2>7, <3>4 DEF GasChain
    <3> QED
      BY <2>4, <3>2, <3>3, <3>5 DEF GasChain
  <2> QED
    BY <1>1, <1>4, <2>3, <2>4, <2>6, <2>8, SameDepth
<1> QED
  BY <1>7, <1>8 DEF IndInv, TypeOK

LEMMA FrontFacts ==
    ASSUME NEW S, NEW s \in Seq(S), Len(s) > 0
    PROVE  /\ Front(s) \in Seq(S) /\ Len(Front(s)) = Len(s) - 1
           /\ \A j \in 1..(Len(s) - 1) : Front(s)[j] = s[j]
<1> DEFINE n == Len(s)
           t == Front(s)
<1>1. n \in Nat /\ n > 0
  BY LenProperties
<1>2. \A j \in 1..n : s[j] \in S
  BY ElementOfSeq
<1>3. t = SubSeq(s, 1, n - 1)
  BY DEF Front
<1> HIDE DEF n, t
<1>4. \A j \in 1..(n - 1) : s[j] \in S
  BY <1>1, <1>2
<1>5. /\ t \in Seq(S)
      /\ Len(t) = IF 1 <= n - 1 THEN (n - 1) - 1 + 1 ELSE 0
      /\ \A j \in 1..((n - 1) - 1 + 1) : t[j] = s[1 + j - 1]
  BY <1>1, <1>3, <1>4, SubSeqProperties
<1>6. Len(t) = n - 1
  BY <1>1, <1>5
<1>7. ASSUME NEW j \in 1..(n - 1)
      PROVE  t[j] = s[j]
  <2>1. j \in 1..((n - 1) - 1 + 1) /\ 1 + j - 1 = j
    BY <1>1
  <2> QED
    BY <1>5, <2>1
<1> QED
  BY <1>5, <1>6, <1>7 DEF n, t

(* A caller gets back no more than it has passed on, and keeps the rest.       *)
LEMMA GasUsedFacts ==
    ASSUME IndInv, Active > 1, NEW status
    PROVE  /\ GasUsed(Top, status) \in Nat
           /\ GasUsed(Top, status) <= executions[Active - 1].gas
<1> DEFINE i == Active - 1
<1>1. Active \in Nat /\ i \in 1..Active /\ i \in 1..(Active - 1) /\ i + 1 = Active
  <2>1. Active \in Nat
    BY LenProperties DEF IndInv, TypeOK, Active
  <2> QED
    BY <2>1
<1>2. executions[i] \in Executions
  BY <1>1, ElementOfSeq DEF IndInv, TypeOK, Active
<1>3. Top \in Executions /\ Top.gas <= Top.given
  <2>1. Active > 0
    BY <1>1
  <2> QED
    BY <2>1, TopFacts
<1>4. executions[i + 1].given <= AllBut64th(executions[i].gas)
  BY <1>1 DEF IndInv, GasChain, Active
<1>5. executions[i].gas \in Nat /\ Top.gas \in Nat /\ Top.given \in Nat
  BY <1>2, <1>3 DEF Executions
<1>6. Top.given <= AllBut64th(executions[i].gas)
  BY <1>1, <1>4 DEF Top
<1>7. AllBut64th(executions[i].gas) <= executions[i].gas
  BY <1>5 DEF AllBut64th
<1>8. AllBut64th(executions[i].gas) \in Int
  BY <1>5 DEF AllBut64th
<1> HIDE DEF i
<1>9. GasUsed(Top, status) \in Nat /\ GasUsed(Top, status) <= Top.given
  BY <1>3, <1>5 DEF GasUsed
<1>10. GasUsed(Top, status) <= executions[i].gas
  BY <1>5, <1>6, <1>7, <1>8, <1>9
<1> QED
  BY <1>9, <1>10 DEF i

LEMMA ReturnTracers ==
    ASSUME IndInv, Active > 0, NEW status,
           IF Top.engine = "baseline" THEN NotifyEnd(status) ELSE UNCHANGED tracers
    PROVE  tracers' \in Seq(Tracers) /\ Traced(engine, tracers', Active - 1)
<1>1. Top.engine = engine /\ engine \in {"baseline", "advanced"} /\ tracers \in Seq(Tracers)
  BY TopFacts DEF Isolated, IndInv, TypeOK
<1>2. Traced(engine, tracers, Active) /\ Active \in Nat
  BY TracersFollowIsTraced, TopFacts DEF IndInv
<1>3. CASE engine = "baseline"
  BY <1>1, <1>2, <1>3, NotifyEndFacts
<1>4. CASE engine = "advanced"
  BY <1>1, <1>2, <1>4 DEF Traced
<1> QED
  BY <1>1, <1>3, <1>4

LEMMA ReturnKeeps ==
    ASSUME IndInv, NEW status \in setup.returns, NEW has_output \in BOOLEAN, Return(status, has_output)
    PROVE  IndInv'
<1> DEFINE callers == Front(executions)
           refund == IF status = "SUCCESS" THEN {"gas_refund"} \intersect StateOf(Top).changed ELSE {}
           add == refund \union (IF has_output THEN {"return_data"} ELSE {})
           drop == {}
           i == Active - 1
           e == [callers[i] EXCEPT !.gas = @ - GasUsed(Top, status)]
           c == Change(e, add, drop)
           pool == ChangePool(executions[i], add, drop)
<1>1. Active > 0 /\ UNCHANGED <<setup, engine, tx>>
  BY IdleFacts DEF Return
<1>2. tracers' \in Seq(Tracers) /\ Traced(engine, tracers', i)
  BY <1>1, ReturnTracers DEF Return
<1>3. executions \in Seq(Executions) /\ Active \in Nat /\ Len(executions) = Active
  BY <1>1, TopFacts DEF IndInv, TypeOK, Active
<1>4. /\ callers \in Seq(Executions) /\ Len(callers) = i
      /\ \A j \in 1..i : callers[j] = executions[j]
  BY <1>1, <1>3, FrontFacts
<1>5. i \in Nat /\ \A j \in 1..i : j \in 1..Active
  BY <1>1, <1>3
<1>6. TypeOK /\ Framed(engine, tx, states, executions) /\ GasChain(setup, executions) /\ Room
  BY DEF IndInv
<1>7. SUFFICES /\ states' \in Seq(States) /\ Len(states') = Len(states)
               /\ executions' \in Seq(Executions) /\ Len(executions') = i
               /\ Framed(engine, tx, states', executions') /\ GasChain(setup, executions')
  <2>1. TypeOK'
    BY <1>1, <1>2, <1>6, <1>7 DEF TypeOK
  <2>2. Room'
    BY <1>1, <1>3, <1>6, <1>7, SetupFacts DEF Room, Active, TypeOK
  <2>3. TracersFollow'
    BY <1>1, <1>2, <1>7 DEF TracersFollow, Traced, Upto, Active
  <2> QED
    BY <1>1, <1>7, <2>1, <2>2, <2>3 DEF IndInv
<1>8. CASE i = 0
  <2>1. callers = <<>>
    BY <1>4, <1>8, EmptySeq
  <2>2. executions' = <<>> /\ states' = states
    BY <2>1 DEF Return
  <2> QED
    BY <1>6, <1>8, <2>2, EmptySeq DEF TypeOK, Framed, GasChain
<1>9. CASE i # 0
  <2>1. callers # <<>> /\ i \in 1..i /\ i \in 1..Active /\ Active > 1
    BY <1>3, <1>4, <1>5, <1>9, EmptySeq
  <2>2. callers[i] = executions[i] /\ Last(callers) = executions[i]
    BY <1>4, <2>1 DEF Last
  <2>3. executions' = [callers EXCEPT ![i] = c] /\ states' = pool
    BY <2>1, <2>2 DEF Return
  <2>4. executions[i] \in Executions
    BY <1>3, <2>1, ElementOfSeq
  <2>5. e.gas \in Nat /\ e.gas <= executions[i].gas
    <3>1. GasUsed(Top, status) \in Nat /\ GasUsed(Top, status) <= executions[i].gas
      BY <2>1, GasUsedFacts
    <3>2. e.gas = executions[i].gas - GasUsed(Top, status) /\ executions[i].gas \in Nat
      BY <2>2, <2>4 DEF Executions
    <3> HIDE DEF e, i
    <3> QED
      BY <3>1, <3>2
  <2>6. SameExecution(e, i)
    BY <2>2, <2>4, <2>5 DEF SameExecution, Executions
  <2>7. add \in FieldSets /\ drop \in FieldSets
    BY DEF FieldSets, Fields
  <2> HIDE DEF add, drop, e
  <2>8. c = Change(e, add, drop) /\ pool = ChangePool(executions[i], add, drop)
    OBVIOUS
  <2> HIDE DEF c, pool, i
  <2>9. /\ pool \in Seq(States) /\ Len(pool) = Len(states)
        /\ c \in Executions /\ c.gas = e.gas /\ c.given = executions[i].given
        /\ Isolated(engine, tx, pool, c, i - 1)
        /\ \A j \in 1..Active : j # i => Isolated(engine, tx, pool, executions[j], j - 1)
    BY <2>1, <2>6, <2>7, <2>8, ChangeKeeps
  <2> HIDE DEF callers
  <2>10. /\ executions' \in Seq(Executions) /\ Len(executions') = i
         /\ \A j \in 1..i : executions'[j] = IF j = i THEN c ELSE callers[j]
    BY <1>4, <2>1, <2>3, <2>9, ExceptSeq
  <2>11. Framed(engine, tx, states', executions')
    BY <1>4, <1>5, <2>3, <2>9, <2>10 DEF Framed
  <2>12. GasChain(setup, executions')
    <3>1. \A j \in 1..i : executions'[j].given = executions[j].given
      BY <1>4, <2>9, <2>10
    <3>2. executions[i].gas \in Nat /\ executions[i].given \in Nat /\ executions[i].gas <= executions[i].given
      BY <1>3, <1>6, <2>1, <2>4 DEF Executions, GasChain
    <3>3. \A j \in 1..i : executions'[j].gas <= executions'[j].given
      <4> SUFFICES ASSUME NEW j \in 1..i
                   PROVE  executions'[j].gas <= executions'[j].given
        OBVIOUS
      <4>1. CASE j = i
        BY <2>5, <2>9, <2>10, <3>2, <4>1
      <4>2. CASE j # i
        <5>1. executions'[j] = executions[j] /\ j \in 1..Active
          BY <1>4, <1>5, <2>10, <4>2
        <5> QED
          BY <1>3, <1>6, <5>1 DEF GasChain
      <4> QED
        BY <4>1, <4>2
    <3>4. \A j \in 1..(i - 1) : j \in 1..i /\ j + 1 \in 1..i /\ j # i /\ j \in 1..(Active - 1)
      BY <1>5, <1>3 DEF i
    <3>5. \A j \in 1..(i - 1) :
            /\ executions'[j].gas <= executions'[j].given - setup.call_overhead
            /\ executions'[j + 1].given <= AllBut64th(executions'[j].gas)
      BY <1>3, <1>4, <1>6, <2>10, <3>1, <3>4 DEF GasChain
    <3>6. executions'[1].given \in FirstGas(setup)
      BY <1>3, <1>5, <1>6, <1>9, <3>1 DEF GasChain
    <3> QED
      BY <2>10, <3>3, <3>5, <3>6 DEF GasChain
  <2> QED
    BY <2>3, <2>9, <2>10, <2>11, <2>12
<1> QED
  BY <1>8, <1>9

-----------------------------------------------------------------------------
(* The invariant holds in every state.                                         *)
LEMMA Invariance == Spec => []IndInv
<1>1. Init => IndInv
  <2> SUFFICES ASSUME Init
               PROVE  IndInv
    OBVIOUS
  <2>1. /\ executions = <<>> /\ states = <<>> /\ tracers = <<>> /\ setup \in Setups
        /\ engine = "baseline" /\ tx = NoContext
    BY DEF Init
  <2>2. <<>> \in Seq(Executions) /\ <<>> \in Seq(States) /\ <<>> \in Seq(Tracers) /\ Len(<<>>) = 0
    BY EmptySeq
  <2>3. TypeOK
    BY <2>1, <2>2 DEF TypeOK, Contexts
  <2>4. Framed(engine, tx, states, executions) /\ GasChain(setup, executions)
    BY <2>1, <2>2 DEF Framed, GasChain
  <2>5. Room
    BY <2>1, <2>2, SetupFacts DEF Room, Active
  <2>6. TracersFollow
    BY <2>1, EmptySeq DEF TracersFollow
  <2> QED
    BY <2>3, <2>4, <2>5, <2>6 DEF IndInv
<1>2. IndInv /\ [Next]_vars => IndInv'
  <2> SUFFICES ASSUME IndInv, [Next]_vars
               PROVE  IndInv'
    OBVIOUS
  <2>1. ASSUME NEW name \in setup.options, NEW value \in {"", "no"}, SetOption(name, value)
        PROVE  IndInv'
    BY <2>1, SetOptionKeeps
  <2>2. ASSUME RemoveTracers
        PROVE  IndInv'
    BY <2>2, RemoveTracersKeeps
  <2>3. ASSUME NEW context \in setup.contexts, NEW gas \in setup.gas_limits, BeginTransaction(context, gas)
        PROVE  IndInv'
    BY <2>3, BeginKeeps
  <2>10. ASSUME NEW context \in setup.contexts, NEW gas \in setup.system_gas, BeginSystemCall(context, gas)
         PROVE  IndInv'
    BY <2>10, BeginKeeps
  <2>4. ASSUME NEW field \in setup.fields, Work(field)
        PROVE  IndInv'
    BY <2>4, WorkKeeps
  <2>5. ASSUME GetTxContext
        PROVE  IndInv'
    BY <2>5, GetTxContextKeeps
  <2>6. ASSUME NEW asked \in setup.call_gas, Call(asked)
        PROVE  IndInv'
    BY <2>6, CallKeeps
  <2>7. ASSUME CallTooDeep
        PROVE  IndInv'
    BY <2>7, CallTooDeepKeeps
  <2>8. ASSUME NEW status \in setup.returns, NEW has_output \in BOOLEAN, Return(status, has_output)
        PROVE  IndInv'
    BY <2>8, ReturnKeeps
  <2>9. CASE UNCHANGED vars
    BY <2>9 DEF vars, IndInv, TypeOK, Framed, Isolated, StateIn, GasChain, Room, Active, TracersFollow
  <2> QED
    BY <2>1, <2>2, <2>3, <2>4, <2>5, <2>6, <2>7, <2>8, <2>9, <2>10 DEF Next
<1> QED
  BY <1>1, <1>2, PTL DEF Spec

(* Executions never share a state, whatever ran at their depths before, and    *)
(* the vector that holds the states is never reallocated under a caller.       *)
THEOREM Isolation == Spec => []StatesIsolated
<1>1. IndInv => StatesIsolated
  <2> SUFFICES ASSUME IndInv
               PROVE  StatesIsolated
    OBVIOUS
  <2>1. DOMAIN executions = 1..Len(executions)
    BY LenProperties DEF IndInv, TypeOK
  <2>2. ASSUME NEW i \in 1..Len(executions)
        PROVE  /\ StateOf(executions[i]).depth = i - 1
               /\ StateOf(executions[i]).changed = executions[i].changed
    BY DEF IndInv, Framed, Isolated, StateOf, StateIn
  <2> QED
    BY <2>1, <2>2 DEF StatesIsolated, IndInv, Room
<1> QED
  BY <1>1, Invariance, PTL

(* No execution finds the context of another transaction in its state.         *)
THEOREM ContextIsCurrent == Spec => []TxContextCurrent
<1>1. IndInv => TxContextCurrent
  <2> SUFFICES ASSUME IndInv
               PROVE  TxContextCurrent
    OBVIOUS
  <2>1. DOMAIN executions = 1..Len(executions)
    BY LenProperties DEF IndInv, TypeOK
  <2> QED
    BY <2>1 DEF IndInv, Framed, Isolated, TxContextCurrent, StateOf, StateIn
<1> QED
  BY <1>1, Invariance, PTL

(* Every tracer's stack of contexts follows the calls.                         *)
THEOREM TracersAgree == Spec => []TracersFollow
<1>1. IndInv => TracersFollow
  BY DEF IndInv
<1> QED
  BY <1>1, Invariance, PTL

(* From Osaka on there are never more than 500 executions of a transaction and *)
(* 540 of a system call, though nothing counts them: gas runs out first.       *)
THEOREM DepthBounded == Spec => []DepthBoundedByGas
<1>1. IndInv => DepthBoundedByGas
  <2> SUFFICES ASSUME IndInv
               PROVE  DepthBoundedByGas
    OBVIOUS
  <2>1. executions \in Seq(Executions) /\ DOMAIN executions = 1..Len(executions) /\ setup \in Setups
    BY LenProperties DEF IndInv, TypeOK
  <2>2. setup.osaka /\ ~Idle => Active <= IF executions[1].given \in setup.gas_limits THEN 500 ELSE 540
    <3>1. Active = Len(executions) /\ (~Idle => Active > 0)
      BY IdleFacts DEF Active
    <3> QED
      BY <2>1, <3>1, Shallow DEF IndInv
  <2>3. ASSUME NEW i \in 1..Len(executions)
        PROVE  executions[i].gas \in 0..executions[i].given
    <3>1. executions[i] \in Executions
      BY <2>1, ElementOfSeq
    <3>2. executions[i].gas <= executions[i].given
      BY DEF IndInv, GasChain
    <3> QED
      BY <3>1, <3>2 DEF Executions
  <2> QED
    BY <2>1, <2>2, <2>3 DEF DepthBoundedByGas
<1> QED
  BY <1>1, Invariance, PTL
=============================================================================
