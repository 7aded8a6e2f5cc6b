--------------------------- MODULE StateGasProofs ---------------------------
(***************************************************************************)
(* Proofs about StateGas, for every choice of costs and limits.            *)
(***************************************************************************)
EXTENDS StateGas, SequenceTheorems, FiniteSetTheorems, TLAPS

Exclusive(f) == f.left = 0 \/ f.spilled = 0

\* Frame h is frame f with other gas counters.
SameCall(h, f) ==
    /\ h.msg_gas = f.msg_gas /\ h.msg_state_gas = f.msg_state_gas
    /\ h.new_account = f.new_account /\ h.saved = f.saved /\ h.kind = f.kind

Updated(h, f, gas, left, spilled) ==
    /\ h \in Frame /\ SameCall(h, f)
    /\ h.gas = gas /\ h.left = left /\ h.spilled = spilled

(* An update of the gas counters leaves the rest of the frame alone.       *)
LEMMA WithGasFacts ==
    ASSUME NEW f \in Frame, NEW gas \in Nat, NEW left \in Nat, NEW spilled \in Nat
    PROVE  Updated(WithGas(f, gas, left, spilled), f, gas, left, spilled)
<1> DEFINE h == [f EXCEPT !.gas = gas, !.left = left, !.spilled = spilled]
<1>1. h \in Frame
  BY DEF Frame
<1>2. h.gas = gas /\ h.left = left /\ h.spilled = spilled
  BY DEF Frame
<1>3. h.msg_gas = f.msg_gas /\ h.msg_state_gas = f.msg_state_gas
  BY DEF Frame
<1>4. h.new_account = f.new_account /\ h.saved = f.saved /\ h.kind = f.kind
  BY DEF Frame
<1> QED
  BY <1>1, <1>2, <1>3, <1>4 DEF WithGas, Updated, SameCall

(* A frame that can pay for a charge stays well-formed; the charge takes   *)
(* from "left" and from gas_left what it costs, the latter being recorded, *)
(* and empties "left" before it spills.                                    *)
LEMMA ChargeFacts ==
    ASSUME NEW f \in Frame, NEW cost \in Nat, CanCharge(f, cost)
    PROVE  /\ Charge(f, cost) \in Frame /\ SameCall(Charge(f, cost), f)
           /\ Charge(f, cost).gas + Charge(f, cost).spilled = f.gas + f.spilled
           /\ Charge(f, cost).left - Charge(f, cost).spilled
                = f.left - f.spilled - cost
           /\ Exclusive(f) => Exclusive(Charge(f, cost))
           /\ Charge(f, cost).gas <= f.gas /\ Charge(f, cost).spilled >= f.spilled
<1>1. /\ f.gas \in Nat /\ f.left \in Nat /\ f.spilled \in Nat
      /\ cost - f.left <= f.gas
  BY DEF Frame, CanCharge
<1>2. CASE f.left >= cost
  <2>1. f.left - cost \in Nat
    BY <1>1, <1>2
  <2>2. Updated(Charge(f, cost), f, f.gas, f.left - cost, f.spilled)
    BY <1>1, <1>2, <2>1, WithGasFacts DEF Charge
  <2> QED
    BY <1>1, <1>2, <2>2 DEF Updated, Exclusive
<1>3. CASE ~(f.left >= cost)
  <2>1. f.gas - (cost - f.left) \in Nat /\ f.spilled + (cost - f.left) \in Nat
    BY <1>1, <1>3
  <2>2. Updated(Charge(f, cost), f, f.gas - (cost - f.left), 0,
                f.spilled + (cost - f.left))
    BY <1>1, <1>3, <2>1, WithGasFacts DEF Charge
  <2> QED
    BY <1>1, <1>3, <2>2 DEF Updated, Exclusive
<1> QED
  BY <1>2, <1>3

(* A refill gives back its cost, to gas_left as far as gas was spilled.    *)
LEMMA RefillFacts ==
    ASSUME NEW f \in Frame, NEW cost \in Nat
    PROVE  /\ Refill(f, cost) \in Frame /\ SameCall(Refill(f, cost), f)
           /\ Refill(f, cost).gas + Refill(f, cost).spilled = f.gas + f.spilled
           /\ Refill(f, cost).left - Refill(f, cost).spilled
                = f.left - f.spilled + cost
           /\ Exclusive(f) => Exclusive(Refill(f, cost))
           /\ Refill(f, cost).gas >= f.gas
<1>1. f.gas \in Nat /\ f.left \in Nat /\ f.spilled \in Nat
  BY DEF Frame
<1>2. CASE cost <= f.spilled
  <2>1. /\ f.gas + cost \in Nat /\ f.left + (cost - cost) \in Nat
        /\ f.spilled - cost \in Nat
    BY <1>1, <1>2
  <2>2. Updated(Refill(f, cost), f, f.gas + cost, f.left + (cost - cost),
                f.spilled - cost)
    BY <1>2, <2>1, WithGasFacts DEF Refill
  <2> QED
    BY <1>1, <1>2, <2>2 DEF Updated, Exclusive
<1>3. CASE ~(cost <= f.spilled)
  <2>1. /\ f.gas + f.spilled \in Nat /\ f.left + (cost - f.spilled) \in Nat
        /\ f.spilled - f.spilled \in Nat
    BY <1>1, <1>3
  <2>2. Updated(Refill(f, cost), f, f.gas + f.spilled, f.left + (cost - f.spilled),
                f.spilled - f.spilled)
    BY <1>3, <2>1, WithGasFacts DEF Refill
  <2> QED
    BY <1>1, <1>3, <2>2 DEF Updated, Exclusive
<1> QED
  BY <1>2, <1>3

(* Deducting an execution cost (or granting a stipend, cost < 0).          *)
LEMMA PayFacts ==
    ASSUME NEW f \in Frame, NEW cost \in Int, f.gas - cost \in Nat
    PROVE  /\ Updated(Pay(f, cost), f, f.gas - cost, f.left, f.spilled)
           /\ Exclusive(f) => Exclusive(Pay(f, cost))
<1>1. f.left \in Nat /\ f.spilled \in Nat
  BY DEF Frame
<1>2. Updated(Pay(f, cost), f, f.gas - cost, f.left, f.spilled)
  BY <1>1, WithGasFacts DEF Pay
<1> QED
  BY <1>2 DEF Updated, Exclusive

(* The part of gas_left that a call may not pass on is a part of it.       *)
LEMMA FractionFacts ==
    ASSUME NEW gas \in Nat
    PROVE  gas \div GasFraction \in Nat /\ gas \div GasFraction <= gas
<1>1. GasFraction \in Nat \ {0}
  BY CostAssumption
<1> QED
  BY <1>1, Z3T(30)

-----------------------------------------------------------------------------
(* The stack of frames. *)

FrameOK(f) == Exclusive(f) /\ f.gas + f.spilled <= f.msg_gas

\* The caller f of frame h still holds the gas it gave to h.
CallerOf(f, h) == h.msg_gas <= f.gas /\ h.msg_state_gas = f.left

GoodStack(s) ==
    /\ s \in Seq(Frame)
    /\ \A i \in 1..Len(s) : FrameOK(s[i])
    /\ \A i \in 1..(Len(s) - 1) : CallerOf(s[i], s[i + 1])

\* Stack t is stack s with c for its innermost frame.
TopReplaced(t, s, c) ==
    /\ Len(t) = Len(s) /\ t[Len(s)] = c
    /\ \A j \in 1..Len(s) : j # Len(s) => t[j] = s[j]

LEMMA ExceptTop ==
    ASSUME NEW s \in Seq(Frame), Len(s) > 0, NEW c \in Frame
    PROVE  /\ [s EXCEPT ![Len(s)] = c] \in Seq(Frame)
           /\ TopReplaced([s EXCEPT ![Len(s)] = c], s, c)
<1>1. Len(s) \in Nat /\ Len(s) \in 1..Len(s)
  BY LenProperties
<1>2. /\ [s EXCEPT ![Len(s)] = c] \in Seq(Frame)
      /\ Len([s EXCEPT ![Len(s)] = c]) = Len(s)
      /\ \A j \in 1..Len(s) : [s EXCEPT ![Len(s)] = c][j] = IF j = Len(s) THEN c ELSE s[j]
  BY <1>1, ExceptSeq
<1> QED
  BY <1>1, <1>2 DEF TopReplaced

LEMMA StackReplaceTop ==
    ASSUME NEW s, GoodStack(s), Len(s) > 0,
           NEW c \in Frame, SameCall(c, s[Len(s)]), FrameOK(c),
           NEW t \in Seq(Frame), TopReplaced(t, s, c)
    PROVE  GoodStack(t)
<1>1. s \in Seq(Frame) /\ Len(s) \in Nat /\ Len(s) \in 1..Len(s)
  BY LenProperties DEF GoodStack
<1>2. Len(t) = Len(s)
  BY DEF TopReplaced
<1>3. t[Len(s)] = c /\ \A j \in 1..Len(s) : j # Len(s) => t[j] = s[j]
  BY DEF TopReplaced
<1>4. ASSUME NEW i \in 1..(Len(s) - 1)
      PROVE  /\ i \in 1..Len(s) /\ i + 1 \in 1..Len(s)
             /\ t[i] = s[i] /\ (i + 1 # Len(s) => t[i + 1] = s[i + 1])
  <2>1. i \in 1..Len(s) /\ i # Len(s) /\ i + 1 \in 1..Len(s)
    BY <1>1
  <2> QED
    BY <1>3, <2>1, Zenon
<1>5. \A i \in 1..Len(s) : FrameOK(t[i])
  BY <1>3, Zenon DEF GoodStack
<1>6. ASSUME NEW i \in 1..(Len(s) - 1)
      PROVE  CallerOf(t[i], t[i + 1])
  <2>1. t[i] = s[i] /\ CallerOf(s[i], s[i + 1])
    BY <1>4, Zenon DEF GoodStack
  <2>2. CASE i + 1 = Len(s)
    BY <1>3, <2>1, <2>2, Zenon DEF CallerOf, SameCall
  <2>3. CASE i + 1 # Len(s)
    BY <1>4, <2>1, <2>3, Zenon
  <2> QED
    BY <2>2, <2>3
<1> QED
  BY <1>2, <1>3, <1>4, <1>5, <1>6, Zenon DEF GoodStack

\* Stack t is stack s with frame d opened on top.
Pushed(t, s, d) ==
    /\ Len(t) = Len(s) + 1 /\ t[Len(s) + 1] = d
    /\ \A i \in 1..Len(s) : t[i] = s[i]

LEMMA AppendPushes ==
    ASSUME NEW s \in Seq(Frame), NEW d \in Frame
    PROVE  Append(s, d) \in Seq(Frame) /\ Pushed(Append(s, d), s, d)
  BY AppendProperties DEF Pushed

LEMMA StackPush ==
    ASSUME NEW s, GoodStack(s), Len(s) > 0,
           NEW d \in Frame, FrameOK(d), CallerOf(s[Len(s)], d),
           NEW t \in Seq(Frame), Pushed(t, s, d)
    PROVE  GoodStack(t)
<1>1. s \in Seq(Frame) /\ Len(s) \in Nat
  BY LenProperties DEF GoodStack
<1>2. /\ Len(t) = Len(s) + 1 /\ t[Len(s) + 1] = d
      /\ \A i \in 1..Len(s) : t[i] = s[i]
  BY DEF Pushed
<1>3. ASSUME NEW i \in 1..Len(t)
      PROVE  FrameOK(t[i])
  <2>1. i = Len(s) + 1 \/ (i \in 1..Len(s) /\ t[i] = s[i])
    BY <1>1, <1>2
  <2> QED
    BY <1>2, <2>1 DEF GoodStack
<1>4. ASSUME NEW i \in 1..(Len(t) - 1)
      PROVE  CallerOf(t[i], t[i + 1])
  <2>1. t[i] = s[i]
    BY <1>1, <1>2
  <2>2. CASE i = Len(s)
    BY <1>2, <2>1, <2>2
  <2>3. CASE i # Len(s)
    <3>1. i \in 1..(Len(s) - 1) /\ t[i + 1] = s[i + 1]
      BY <1>1, <1>2, <2>3
    <3> QED
      BY <2>1, <3>1 DEF GoodStack
  <2> QED
    BY <2>2, <2>3
<1> QED
  BY <1>2, <1>3, <1>4 DEF GoodStack

LEMMA StackPop ==
    ASSUME NEW s, GoodStack(s), NEW n \in 1..Len(s),
           NEW t, t = SubSeq(s, 1, n)
    PROVE  /\ t \in Seq(Frame) /\ GoodStack(t) /\ Len(t) = n
           /\ \A i \in 1..n : t[i] = s[i]
<1>1. s \in Seq(Frame) /\ Len(s) \in Nat /\ n \in Nat /\ n <= Len(s) /\ n > 0
  BY LenProperties DEF GoodStack
<1>2. \A i \in 1..n : s[i] \in Frame
  BY <1>1, ElementOfSeq
<1>3. /\ t \in Seq(Frame)
      /\ Len(t) = IF 1 <= n THEN n - 1 + 1 ELSE 0
      /\ \A i \in 1..(n - 1 + 1) : t[i] = s[1 + i - 1]
  BY <1>1, <1>2, SubSeqProperties
<1>4. Len(t) = n /\ \A i \in 1..n : t[i] = s[i]
  BY <1>1, <1>3
<1>5. \A i \in 1..Len(t) : FrameOK(t[i])
  BY <1>1, <1>4 DEF GoodStack
<1>6. \A i \in 1..(Len(t) - 1) : CallerOf(t[i], t[i + 1])
  BY <1>1, <1>4 DEF GoodStack
<1> QED
  BY <1>3, <1>4, <1>5, <1>6 DEF GoodStack

-----------------------------------------------------------------------------
(* The inductive invariant. *)

\* What the phase says of the stack of frames and of the result.
PhaseOK ==
    /\ phase = "start" => Len(frames) = 0
    /\ phase \in {"auth", "done"} => Len(frames) = 1
    /\ phase = "run" => /\ Len(frames) > 1
                        /\ auth_state_gas.spilled <= frames[1].spilled
    /\ phase = "done" => result.gas + result.spilled <= frames[1].msg_gas

IndInv == TypeOK /\ GoodStack(frames) /\ PhaseOK

\* The part of TypeOK that does not speak of the frames and the phase.
WorldOK ==
    /\ storage \in [Slot -> 0..1] /\ created \in SUBSET Target /\ deposit \in Nat

(* The innermost frame, any of the open ones, is a well-formed frame.      *)
LEMMA FrameFacts ==
    ASSUME IndInv
    PROVE  /\ Len(frames) \in Nat
           /\ \A i \in 1..Len(frames) : frames[i] \in Frame /\ FrameOK(frames[i])
           /\ phase # "start" =>
                /\ 1 \in 1..Len(frames) /\ Len(frames) \in 1..Len(frames)
                /\ Top \in Frame /\ FrameOK(Top)
<1>1. frames \in Seq(Frame) /\ Len(frames) \in Nat
  BY LenProperties DEF IndInv, GoodStack
<1>2. \A i \in 1..Len(frames) : frames[i] \in Frame /\ FrameOK(frames[i])
  BY <1>1, ElementOfSeq DEF IndInv, GoodStack
<1>3. phase # "start" => Len(frames) > 0
  <2>1. phase \in {"start", "auth", "run", "done"} /\ PhaseOK
    BY DEF IndInv, TypeOK
  <2>2. phase # "start" => Len(frames) = 1 \/ Len(frames) > 1
    BY <2>1, Zenon DEF PhaseOK
  <2> QED
    BY <1>1, <2>2
<1> QED
  BY <1>1, <1>2, <1>3 DEF Top

(* A step of the running frame that only changes its gas.                  *)
LEMMA KeepFrame ==
    ASSUME IndInv, phase = "auth" \/ Running,
           NEW c \in Frame, SameCall(c, Top), FrameOK(c),
           SetTop(c), WorldOK', UNCHANGED <<phase, result, auth_state_gas>>
    PROVE  IndInv'
<1>1. phase # "start" /\ phase # "done" /\ (phase = "run" => Len(frames) > 1)
  BY DEF Running, IndInv, PhaseOK
<1>2. Len(frames) \in Nat /\ Len(frames) > 0 /\ 1 \in 1..Len(frames)
  BY <1>1, FrameFacts
<1>3. frames' \in Seq(Frame) /\ TopReplaced(frames', frames, c)
  BY <1>2, ExceptTop DEF SetTop, IndInv, TypeOK
<1>4. GoodStack(frames') /\ Len(frames') = Len(frames)
  <2>1. GoodStack(frames) /\ SameCall(c, frames[Len(frames)])
    BY DEF IndInv, Top
  <2> QED
    BY <1>2, <1>3, <2>1, StackReplaceTop, Zenon DEF TopReplaced
<1>5. phase = "run" => frames'[1] = frames[1]
  BY <1>1, <1>2, <1>3 DEF TopReplaced
<1>6. TypeOK'
  BY <1>4 DEF GoodStack, TypeOK, WorldOK, IndInv
<1>7. PhaseOK'
  BY <1>1, <1>4, <1>5 DEF PhaseOK, IndInv
<1> QED
  BY <1>4, <1>6, <1>7 DEF IndInv

(* A step that opens a frame d: its caller becomes c.                      *)
LEMMA OpenFrame ==
    ASSUME IndInv, Running,
           NEW c \in Frame, SameCall(c, Top), FrameOK(c),
           NEW d \in Frame, FrameOK(d), CallerOf(c, d),
           frames' = Append([frames EXCEPT ![Len(frames)] = c], d),
           WorldOK', UNCHANGED <<phase, result, auth_state_gas>>
    PROVE  IndInv'
<1>1. /\ phase = "run" /\ Len(frames) \in Nat /\ Len(frames) > 1 /\ Len(frames) > 0
      /\ GoodStack(frames) /\ SameCall(c, frames[Len(frames)])
  BY FrameFacts DEF Running, IndInv, Top
<1>2. PICK t : t = [frames EXCEPT ![Len(frames)] = c]
  OBVIOUS
<1>3. t \in Seq(Frame) /\ TopReplaced(t, frames, c)
  BY <1>1, <1>2, ExceptTop DEF GoodStack
<1>31. GoodStack(t) /\ Len(t) = Len(frames) /\ t[Len(t)] = c /\ t[1] = frames[1]
  <2>1. GoodStack(t)
    BY <1>1, <1>3, StackReplaceTop, Zenon
  <2> QED
    BY <1>1, <1>3, <2>1 DEF TopReplaced
<1>4. frames' \in Seq(Frame) /\ Pushed(frames', t, d)
  BY <1>2, <1>3, AppendPushes
<1>5. GoodStack(frames')
  <2>1. Len(t) > 0 /\ CallerOf(t[Len(t)], d)
    BY <1>1, <1>31
  <2> QED
    BY <1>31, <1>4, <2>1, StackPush, Zenon
<1>6. Len(frames') > 1 /\ frames'[1] = frames[1]
  BY <1>1, <1>31, <1>4 DEF Pushed
<1>7. TypeOK'
  BY <1>5 DEF GoodStack, TypeOK, WorldOK, IndInv
<1>8. PhaseOK'
  BY <1>1, <1>6 DEF PhaseOK, IndInv
<1> QED
  BY <1>5, <1>7, <1>8 DEF IndInv

(* What a frame hands back is at most what it has and has spilled.         *)
LEMMA FrameResultFacts ==
    ASSUME NEW c \in Frame, FrameOK(c), NEW outcome \in {"success", "revert", "halt"}
    PROVE  /\ FrameResult(c, outcome) \in Ledger
           /\ FrameResult(c, outcome).gas + FrameResult(c, outcome).spilled
                <= c.msg_gas
<1>1. /\ c.gas \in Nat /\ c.left \in Nat /\ c.spilled \in Nat
      /\ c.msg_gas \in Nat /\ c.msg_state_gas \in Nat
      /\ c.gas + c.spilled <= c.msg_gas
  BY DEF Frame, FrameOK
<1>2. CASE outcome = "success"
  BY <1>1, <1>2 DEF FrameResult, Ledger
<1>3. CASE outcome = "revert"
  BY <1>1, <1>3 DEF FrameResult, Ledger
<1>4. CASE outcome = "halt"
  BY <1>1, <1>4 DEF FrameResult, Ledger
<1> QED
  BY <1>2, <1>3, <1>4

(* The caller of a frame absorbs its result: the deduction never makes     *)
(* gas_left negative because the caller still holds what it gave.          *)
LEMMA CallerAfterFacts ==
    ASSUME NEW f \in Frame, FrameOK(f), NEW c \in Frame, CallerOf(f, c),
           NEW r \in Ledger, r.gas + r.spilled <= c.msg_gas,
           NEW success \in BOOLEAN
    PROVE  /\ CallerAfter(f, c, r, success) \in Frame
           /\ SameCall(CallerAfter(f, c, r, success), f)
           /\ FrameOK(CallerAfter(f, c, r, success))
<1>1. /\ f.gas \in Nat /\ f.left \in Nat /\ f.spilled \in Nat /\ f.msg_gas \in Nat
      /\ c.msg_gas \in Nat /\ c.msg_gas <= f.gas
      /\ f.gas + f.spilled <= f.msg_gas
      /\ r.gas \in Nat /\ r.left \in Nat /\ r.spilled \in Nat
  BY DEF Frame, FrameOK, CallerOf, Ledger
<1>2. PICK w : w = WithGas(f, f.gas - (c.msg_gas - r.gas), 0, f.spilled + r.spilled)
  OBVIOUS
<1>3. f.gas - (c.msg_gas - r.gas) \in Nat /\ f.spilled + r.spilled \in Nat
  BY <1>1
<1>4. Updated(w, f, f.gas - (c.msg_gas - r.gas), 0, f.spilled + r.spilled)
  BY <1>2, <1>3, WithGasFacts
<1>5. w \in Frame /\ SameCall(w, f) /\ Exclusive(w) /\ w.gas + w.spilled <= f.msg_gas
  BY <1>1, <1>4 DEF Updated, Exclusive
<1>6. PICK g : g = Refill(w, r.left)
  OBVIOUS
<1>7. /\ g \in Frame /\ SameCall(g, w) /\ Exclusive(g)
      /\ g.gas + g.spilled = w.gas + w.spilled
  BY <1>1, <1>5, <1>6, RefillFacts
<1>8. SameCall(g, f) /\ FrameOK(g)
  BY <1>5, <1>7 DEF SameCall, FrameOK
<1>9. PICK h : h = Refill(g, NEW_ACCOUNT_STATE_GAS)
  OBVIOUS
<1>10. /\ h \in Frame /\ SameCall(h, g) /\ Exclusive(h)
       /\ h.gas + h.spilled = g.gas + g.spilled
  BY <1>7, <1>9, RefillFacts, CostAssumption
<1>11. SameCall(h, f) /\ FrameOK(h)
  BY <1>8, <1>10 DEF SameCall, FrameOK
<1>12. CallerAfter(f, c, r, success) = IF c.new_account /\ ~success THEN h ELSE g
  BY <1>2, <1>6, <1>9 DEF CallerAfter, Absorb
<1> QED
  BY <1>7, <1>8, <1>10, <1>11, <1>12

(* The result of process_top_level() is not more than the transaction had. *)
LEMMA TopLevelAfterFacts ==
    ASSUME NEW f \in Frame, FrameOK(f), NEW c \in Frame, CallerOf(f, c),
           NEW r \in Ledger, r.gas + r.spilled <= c.msg_gas,
           NEW outcome \in {"success", "revert", "halt"},
           auth_state_gas \in [left : Nat, spilled : Nat],
           auth_state_gas.spilled <= f.spilled
    PROVE  /\ TopLevelAfter(f, r, outcome) \in Ledger
           /\ TopLevelAfter(f, r, outcome).gas + TopLevelAfter(f, r, outcome).spilled
                <= f.msg_gas
<1>1. /\ f.gas \in Nat /\ f.left \in Nat /\ f.spilled \in Nat /\ f.msg_gas \in Nat
      /\ c.msg_gas \in Nat /\ c.msg_gas <= f.gas
      /\ f.gas + f.spilled <= f.msg_gas
      /\ r.gas \in Nat /\ r.left \in Nat /\ r.spilled \in Nat
      /\ auth_state_gas.left \in Nat /\ auth_state_gas.spilled \in Nat
  BY DEF Frame, FrameOK, CallerOf, Ledger
<1>2. CASE outcome = "success"
  BY <1>1, <1>2 DEF TopLevelAfter, Ledger
<1>3. CASE outcome = "revert"
  BY <1>1, <1>3 DEF TopLevelAfter, Ledger
<1>4. CASE outcome = "halt"
  BY <1>1, <1>4 DEF TopLevelAfter, Ledger
<1> QED
  BY <1>2, <1>3, <1>4

(* A step that closes the innermost frame.                                 *)
LEMMA CloseFrameInv ==
    ASSUME IndInv, Running,
           NEW c \in Frame, SameCall(c, Top), FrameOK(c),
           NEW outcome \in {"success", "revert", "halt"},
           CloseFrame(c, outcome), WorldOK'
    PROVE  IndInv'
<1>0. PICK n : n = Len(frames) - 1
  OBVIOUS
<1>1. /\ phase = "run" /\ Len(frames) \in Nat
      /\ n \in Nat /\ n > 0 /\ n \in 1..Len(frames) /\ n + 1 = Len(frames)
      /\ GoodStack(frames) /\ PhaseOK /\ TypeOK
  BY <1>0, FrameFacts DEF Running, IndInv
<1>2. frames[n] \in Frame /\ FrameOK(frames[n])
  BY <1>1, FrameFacts
<1>3. CallerOf(frames[n], c)
  <2>1. CallerOf(frames[n], Top)
    BY <1>1 DEF GoodStack, Top
  <2> QED
    BY <2>1 DEF CallerOf, SameCall
<1>4. PICK r : r = FrameResult(c, outcome)
  OBVIOUS
<1>5. r \in Ledger /\ r.gas + r.spilled <= c.msg_gas
  BY <1>4, FrameResultFacts
<1>6. PICK t : t = SubSeq(frames, 1, n)
  OBVIOUS
<1>7. /\ t \in Seq(Frame) /\ GoodStack(t) /\ Len(t) = n
      /\ \A i \in 1..n : t[i] = frames[i]
  BY <1>1, <1>6, StackPop, Zenon
<1>8. CASE n = 1
  <2>1. /\ result' = TopLevelAfter(frames[1], r, outcome)
        /\ phase' = "done" /\ frames' = t /\ auth_state_gas' = auth_state_gas
    BY <1>0, <1>4, <1>6, <1>8 DEF CloseFrame
  <2>2. /\ auth_state_gas \in [left : Nat, spilled : Nat]
        /\ auth_state_gas.spilled <= frames[1].spilled
    BY <1>1 DEF PhaseOK, TypeOK
  <2>3. result' \in Ledger /\ result'.gas + result'.spilled <= frames[1].msg_gas
    BY <1>2, <1>3, <1>5, <1>8, <2>1, <2>2, TopLevelAfterFacts
  <2>4. Len(frames') = 1 /\ frames'[1] = frames[1]
    BY <1>7, <1>8, <2>1
  <2>5. TypeOK'
    BY <1>1, <1>7, <2>1, <2>3 DEF TypeOK, WorldOK
  <2>6. PhaseOK'
    BY <2>1, <2>3, <2>4 DEF PhaseOK
  <2> QED
    BY <1>7, <2>1, <2>5, <2>6 DEF IndInv
<1>9. CASE n # 1
  <2>1. PICK g : g = CallerAfter(frames[n], c, r, outcome = "success")
    OBVIOUS
  <2>2. g \in Frame /\ SameCall(g, t[n]) /\ FrameOK(g)
    <3>1. (outcome = "success") \in BOOLEAN /\ t[n] = frames[n]
      BY <1>1, <1>7
    <3> QED
      BY <1>2, <1>3, <1>5, <2>1, <3>1, CallerAfterFacts, Zenon
  <2>3. /\ frames' = [t EXCEPT ![Len(t)] = g]
        /\ phase' = phase /\ result' = result /\ auth_state_gas' = auth_state_gas
    BY <1>0, <1>1, <1>4, <1>6, <1>7, <1>9, <2>1 DEF CloseFrame
  <2>4. frames' \in Seq(Frame) /\ TopReplaced(frames', t, g)
    BY <1>1, <1>7, <2>2, <2>3, ExceptTop
  <2>5. GoodStack(frames')
    <3>1. Len(t) > 0 /\ SameCall(g, t[Len(t)])
      BY <1>1, <1>7, <2>2
    <3> QED
      BY <1>7, <2>2, <2>4, <3>1, StackReplaceTop, Zenon
  <2>6. Len(frames') > 1 /\ frames'[1] = frames[1]
    BY <1>1, <1>7, <1>9, <2>4 DEF TopReplaced
  <2>7. TypeOK'
    BY <1>1, <2>3, <2>4 DEF TypeOK, WorldOK
  <2>8. PhaseOK'
    BY <1>1, <2>3, <2>6 DEF PhaseOK
  <2> QED
    BY <2>5, <2>7, <2>8 DEF IndInv
<1> QED
  BY <1>8, <1>9

-----------------------------------------------------------------------------
(* The steps of the specification. *)

\* Frame c is a later state of frame f.
Evolves(c, f) == c \in Frame /\ SameCall(c, f) /\ FrameOK(c)

LEMMA PayEvolves ==
    ASSUME NEW f \in Frame, FrameOK(f), NEW cost \in Nat, cost <= f.gas
    PROVE  Evolves(Pay(f, cost), f)
<1>1. f.gas \in Nat /\ f.spilled \in Nat /\ f.msg_gas \in Nat
      /\ f.gas + f.spilled <= f.msg_gas /\ f.gas - cost \in Nat
  BY DEF Frame, FrameOK
<1>2. /\ Updated(Pay(f, cost), f, f.gas - cost, f.left, f.spilled)
      /\ Exclusive(Pay(f, cost))
  BY <1>1, PayFacts DEF FrameOK
<1> QED
  BY <1>1, <1>2 DEF Updated, SameCall, Evolves, FrameOK

LEMMA ChargeEvolves ==
    ASSUME NEW f \in Frame, FrameOK(f), NEW cost \in Nat, CanCharge(f, cost)
    PROVE  Evolves(Charge(f, cost), f)
<1>1. PICK c : c = Charge(f, cost)
  OBVIOUS
<1>2. /\ c \in Frame /\ SameCall(c, f) /\ c.gas + c.spilled = f.gas + f.spilled
      /\ Exclusive(f) => Exclusive(c)
  BY <1>1, ChargeFacts
<1> QED
  BY <1>1, <1>2 DEF SameCall, Evolves, FrameOK

LEMMA RefillEvolves ==
    ASSUME NEW f \in Frame, FrameOK(f), NEW cost \in Nat
    PROVE  Evolves(Refill(f, cost), f)
<1>1. PICK c : c = Refill(f, cost)
  OBVIOUS
<1>2. /\ c \in Frame /\ SameCall(c, f) /\ c.gas + c.spilled = f.gas + f.spilled
      /\ Exclusive(f) => Exclusive(c)
  BY <1>1, RefillFacts
<1> QED
  BY <1>1, <1>2 DEF SameCall, Evolves, FrameOK

LEMMA EvolvesChain ==
    ASSUME NEW f, NEW g, NEW h, Evolves(g, f), Evolves(h, g)
    PROVE  Evolves(h, f)
  BY DEF Evolves, SameCall

(* A new frame owes nothing yet.                                           *)
LEMMA NewFrameFacts ==
    ASSUME TypeOK, NEW kind \in {"TX", "CALL", "CREATE"},
           NEW gas \in Nat, NEW left \in Nat, NEW new \in BOOLEAN
    PROVE  /\ NewFrame(kind, gas, left, new) \in Frame
           /\ FrameOK(NewFrame(kind, gas, left, new))
           /\ NewFrame(kind, gas, left, new).msg_gas = gas
           /\ NewFrame(kind, gas, left, new).msg_state_gas = left
           /\ NewFrame(kind, gas, left, new).spilled = 0
<1>1. [storage |-> storage, created |-> created, deposit |-> deposit] \in Saved
  BY DEF TypeOK, Saved
<1>2. NewFrame(kind, gas, left, new) \in Frame
  BY <1>1 DEF NewFrame, Frame
<1> QED
  BY <1>2 DEF NewFrame, FrameOK, Exclusive

(* The caller's side of a call or create: the value cost, the charge for a *)
(* new account, then the stipend, which the value cost has paid for.       *)
LEMMA CallerSide ==
    ASSUME NEW f \in Frame, FrameOK(f), NEW value \in BOOLEAN, NEW new \in BOOLEAN,
           NEW f1, f1 = AfterValueCost(f, value), f1.gas >= 0,
           new => CanCharge(f1, NEW_ACCOUNT_STATE_GAS),
           NEW f2, f2 = IF new THEN Charge(f1, NEW_ACCOUNT_STATE_GAS) ELSE f1,
           NEW stipend, stipend = IF value THEN CALL_STIPEND ELSE 0
    PROVE  /\ f2 \in Frame /\ stipend \in Nat
           /\ Evolves(Pay(f2, -stipend), f)
           /\ Pay(f2, -stipend).gas = f2.gas + stipend
           /\ Pay(f2, -stipend).left = f2.left
<1>1. /\ f.gas \in Nat /\ f.spilled \in Nat /\ f.left \in Nat
      /\ f.msg_gas \in Nat /\ f.gas + f.spilled <= f.msg_gas /\ Exclusive(f)
  BY DEF Frame, FrameOK
<1>2. /\ CALL_STIPEND \in Nat /\ CALL_VALUE_COST \in Nat
      /\ CALL_STIPEND <= CALL_VALUE_COST /\ NEW_ACCOUNT_STATE_GAS \in Nat
      /\ stipend \in Nat
  BY CostAssumption
<1>3. /\ f1 \in Frame /\ SameCall(f1, f) /\ Exclusive(f1)
      /\ f1.gas + f1.spilled + stipend <= f.msg_gas
  <2>1. CASE value
    <3>1. f1 = Pay(f, CALL_VALUE_COST)
      BY <2>1 DEF AfterValueCost
    <3>2. f1.gas = f.gas - CALL_VALUE_COST
      BY <3>1 DEF Pay, WithGas, Frame
    <3>3. f.gas - CALL_VALUE_COST \in Nat
      BY <1>1, <1>2, <3>2
    <3>4. /\ Updated(f1, f, f.gas - CALL_VALUE_COST, f.left, f.spilled)
          /\ Exclusive(f1)
      BY <1>1, <1>2, <3>1, <3>3, PayFacts
    <3>5. stipend = CALL_STIPEND
      BY <2>1, Zenon
    <3>6. /\ f1 \in Frame /\ SameCall(f1, f) /\ f1.gas = f.gas - CALL_VALUE_COST
          /\ f1.spilled = f.spilled
      BY <3>4 DEF Updated
    <3>7. f1.gas + f1.spilled + stipend <= f.msg_gas
      BY <1>1, <1>2, <3>3, <3>5, <3>6
    <3> QED
      BY <3>4, <3>6, <3>7
  <2>2. CASE ~value
    BY <1>1, <2>2 DEF AfterValueCost, SameCall
  <2> QED
    BY <2>1, <2>2
<1>4. /\ f2 \in Frame /\ SameCall(f2, f) /\ Exclusive(f2)
      /\ f2.gas + f2.spilled + stipend <= f.msg_gas
  <2>1. CASE new
    <3>1. /\ f2 \in Frame /\ SameCall(f2, f1) /\ f2.gas + f2.spilled = f1.gas + f1.spilled
          /\ Exclusive(f1) => Exclusive(f2)
      BY <1>2, <1>3, <2>1, ChargeFacts
    <3> QED
      BY <1>3, <3>1 DEF SameCall
  <2>2. CASE ~new
    BY <1>3, <2>2
  <2> QED
    BY <2>1, <2>2
<1>5. f2.gas \in Nat /\ f2.spilled \in Nat
  BY <1>4 DEF Frame
<1>6. PICK h : h = Pay(f2, -stipend)
  OBVIOUS
<1>7. Updated(h, f2, f2.gas - (-stipend), f2.left, f2.spilled) /\ Exclusive(h)
  BY <1>2, <1>4, <1>5, <1>6, PayFacts
<1>8. h.gas = f2.gas + stipend /\ h.left = f2.left /\ h.spilled = f2.spilled
  BY <1>2, <1>5, <1>7 DEF Updated
<1>9. Evolves(h, f)
  BY <1>1, <1>2, <1>4, <1>5, <1>7, <1>8 DEF Updated, SameCall, Evolves, FrameOK
<1> QED
  BY <1>2, <1>4, <1>6, <1>8, <1>9

LEMMA BeginStep ==
    ASSUME IndInv, NEW limits \in GasLimits, Begin(limits)
    PROVE  IndInv'
<1>1. limits[1] \in Nat /\ limits[2] \in Nat
  BY CostAssumption
<1>2. PICK f : f = NewFrame("TX", limits[1], limits[2], FALSE)
  OBVIOUS
<1>3. f \in Frame /\ FrameOK(f)
  BY <1>1, <1>2, NewFrameFacts DEF IndInv
<1>4. frames' = <<f>> /\ phase' = "auth" /\ result' = result
      /\ auth_state_gas' = [left |-> limits[2], spilled |-> 0]
      /\ UNCHANGED <<storage, created, deposit>>
  BY <1>2 DEF Begin
<1>5. frames' \in Seq(Frame) /\ Len(frames') = 1 /\ frames'[1] = f
  BY <1>3, <1>4
<1>6. GoodStack(frames')
  BY <1>3, <1>5 DEF GoodStack
<1>7. TypeOK'
  BY <1>1, <1>4, <1>5 DEF TypeOK, IndInv
<1>8. PhaseOK'
  BY <1>4, <1>5 DEF PhaseOK
<1> QED
  BY <1>6, <1>7, <1>8 DEF IndInv

LEMMA AuthorizeStep ==
    ASSUME IndInv, NEW a \in Target, NEW writes \in BOOLEAN, NEW delegates \in BOOLEAN,
           Authorize(a, writes, delegates)
    PROVE  IndInv'
<1>1. phase = "auth" /\ Top \in Frame /\ FrameOK(Top)
  BY FrameFacts DEF Authorize
<1>2. PICK paid : paid = IF writes THEN ACCOUNT_WRITE ELSE 0
  OBVIOUS
<1>3. PICK size : size = IF delegates THEN AUTHORIZATION_STATE_GAS ELSE 0
  OBVIOUS
<1>4. PICK cost : cost = size + (IF AccountExists(a) THEN 0 ELSE NEW_ACCOUNT_STATE_GAS)
  OBVIOUS
<1>5. paid \in Nat /\ size \in Nat /\ cost \in Nat
  BY <1>2, <1>3, <1>4, CostAssumption
<1>6. PICK f : f = Pay(Top, paid)
  OBVIOUS
<1>7. f.gas >= 0 /\ CanCharge(f, cost) /\ SetTop(Charge(f, cost))
  BY <1>2, <1>3, <1>4, <1>6 DEF Authorize
<1>8. f.gas = Top.gas - paid /\ Top.gas \in Nat
  BY <1>1, <1>6 DEF Pay, WithGas, Frame
<1>9. Evolves(f, Top)
  BY <1>1, <1>5, <1>6, <1>7, <1>8, PayEvolves
<1>10. Evolves(Charge(f, cost), Top)
  BY <1>5, <1>7, <1>9, ChargeEvolves, EvolvesChain DEF Evolves
<1>11. WorldOK'
  BY <1>3, <1>5 DEF Authorize, WorldOK, IndInv, TypeOK
<1> QED
  BY <1>1, <1>7, <1>10, <1>11, KeepFrame DEF Evolves, Authorize

LEMMA TopCallStep ==
    ASSUME IndInv, NEW kind \in {"CALL", "CREATE"}, NEW a \in Target,
           NEW creates \in BOOLEAN, NEW access \in Costs \cup {0},
           TopCall(kind, a, creates, access)
    PROVE  IndInv'
<1>1. /\ phase = "auth" /\ Top \in Frame /\ FrameOK(Top)
      /\ Top.gas \in Nat /\ Top.left \in Nat /\ Top.spilled \in Nat
  BY FrameFacts DEF TopCall, Frame
<1>2. PICK new \in BOOLEAN : new = (creates /\ ~AccountExists(a))
  OBVIOUS
<1>3. PICK f1 : f1 = Pay(Top, access)
  OBVIOUS
<1>4. PICK f2 : f2 = IF new THEN Charge(f1, NEW_ACCOUNT_STATE_GAS) ELSE f1
  OBVIOUS
<1>5. PICK d : d = NewFrame(kind, f2.gas, f2.left, new)
  OBVIOUS
<1>6. /\ f1.gas >= 0 /\ (new => CanCharge(f1, NEW_ACCOUNT_STATE_GAS))
      /\ auth_state_gas' = [left |-> Top.left, spilled |-> Top.spilled]
      /\ frames' = <<f2, d>> /\ phase' = "run"
      /\ result' = result /\ storage' = storage /\ deposit' = deposit
      /\ created' = IF new THEN created \cup {a} ELSE created
  BY <1>2, <1>3, <1>4, <1>5 DEF TopCall
<1>7. f1.gas = Top.gas - access /\ f1.spilled = Top.spilled /\ access \in Nat
  BY <1>1, <1>3, CostAssumption DEF Pay, WithGas, Frame
<1>8. Evolves(f1, Top)
  BY <1>1, <1>3, <1>6, <1>7, PayEvolves
<1>9. Evolves(f2, Top) /\ f2.spilled >= Top.spilled
  <2>1. CASE new
    <3>1. Evolves(f2, f1) /\ f2.spilled >= f1.spilled
      BY <1>4, <1>6, <1>8, <2>1, CostAssumption, ChargeFacts, ChargeEvolves DEF Evolves
    <3> QED
      BY <1>7, <1>8, <3>1, EvolvesChain
  <2>2. CASE ~new
    BY <1>1, <1>4, <1>7, <1>8, <2>2
  <2> QED
    BY <2>1, <2>2
<1>10. f2 \in Frame /\ FrameOK(f2) /\ f2.gas \in Nat /\ f2.left \in Nat
  BY <1>9 DEF Evolves, Frame
<1>11. d \in Frame /\ FrameOK(d) /\ CallerOf(f2, d)
  BY <1>5, <1>10, NewFrameFacts DEF IndInv, CallerOf
<1>12. /\ frames' \in Seq(Frame) /\ Len(frames') = 2
       /\ frames'[1] = f2 /\ frames'[2] = d
  BY <1>6, <1>10, <1>11
<1>13. GoodStack(frames')
  BY <1>10, <1>11, <1>12 DEF GoodStack
<1>14. TypeOK'
  BY <1>1, <1>6, <1>12 DEF TypeOK, IndInv
<1>15. PhaseOK'
  BY <1>1, <1>6, <1>9, <1>12 DEF PhaseOK
<1> QED
  BY <1>13, <1>14, <1>15 DEF IndInv

LEMMA TopLevelOutOfGasStep ==
    ASSUME IndInv, TopLevelOutOfGas
    PROVE  IndInv'
<1>1. /\ phase = "auth" /\ Top \in Frame /\ Len(frames) = 1 /\ Top = frames[1]
  BY FrameFacts DEF TopLevelOutOfGas, IndInv, PhaseOK, Top
<1>2. /\ Top.msg_state_gas \in Nat /\ Top.msg_gas \in Nat /\ Top.saved \in Saved
  BY <1>1 DEF Frame
<1>3. /\ phase' = "done" /\ frames' = frames /\ storage' = storage
      /\ auth_state_gas' = auth_state_gas
      /\ result' = [gas |-> 0, left |-> Top.msg_state_gas, spilled |-> 0]
      /\ created' = Top.saved.created /\ deposit' = Top.saved.deposit
  BY DEF TopLevelOutOfGas
<1>4. TypeOK'
  BY <1>2, <1>3 DEF TypeOK, IndInv, Ledger, Saved
<1>5. PhaseOK'
  BY <1>1, <1>2, <1>3 DEF PhaseOK
<1> QED
  BY <1>3, <1>4, <1>5 DEF IndInv

(* In a running frame, in short.                                           *)
LEMMA RunningFacts ==
    ASSUME IndInv, Running
    PROVE  /\ Top \in Frame /\ FrameOK(Top) /\ TypeOK
           /\ Top.gas \in Nat /\ Top.left \in Nat /\ Top.spilled \in Nat
  BY FrameFacts DEF Running, IndInv, Frame

LEMMA SpendStep ==
    ASSUME IndInv, NEW cost \in Costs, Spend(cost)
    PROVE  IndInv'
<1>1. /\ Running /\ cost <= Top.gas /\ SetTop(Pay(Top, cost))
      /\ UNCHANGED <<storage, created, deposit, phase, result, auth_state_gas>>
  BY DEF Spend
<1>2. Evolves(Pay(Top, cost), Top)
  BY <1>1, RunningFacts, PayEvolves, CostAssumption
<1>3. WorldOK'
  BY <1>1 DEF IndInv, TypeOK, WorldOK
<1> QED
  BY <1>1, <1>2, <1>3, KeepFrame DEF Evolves

LEMMA SStoreStep ==
    ASSUME IndInv, NEW s \in Slot, NEW v \in 0..1, SStore(s, v)
    PROVE  IndInv'
<1>1. /\ Running /\ storage' = [storage EXCEPT ![s] = v]
      /\ UNCHANGED <<created, deposit, phase, result, auth_state_gas>>
  BY DEF SStore
<1>2. Top \in Frame /\ FrameOK(Top) /\ STORAGE_SET_STATE_GAS \in Nat
  BY <1>1, RunningFacts, CostAssumption
<1>3. WorldOK'
  BY <1>1 DEF IndInv, TypeOK, WorldOK
<1>4. PICK c : SetTop(c) /\ Evolves(c, Top)
  <2>1. CASE Original[s] = 0 /\ storage[s] = 0 /\ v # 0
    <3>1. /\ CanCharge(Top, STORAGE_SET_STATE_GAS)
          /\ SetTop(Charge(Top, STORAGE_SET_STATE_GAS))
      BY <2>1 DEF SStore
    <3> QED
      BY <1>2, <3>1, ChargeEvolves
  <2>2. CASE ~(Original[s] = 0 /\ storage[s] = 0 /\ v # 0)
    <3>1. SetTop(Refill(Top, STORAGE_SET_STATE_GAS)) \/ SetTop(Top)
      BY <2>2 DEF SStore
    <3>2. Evolves(Refill(Top, STORAGE_SET_STATE_GAS), Top) /\ Evolves(Top, Top)
      BY <1>2, RefillEvolves DEF Evolves, SameCall
    <3> QED
      BY <3>1, <3>2
  <2> QED
    BY <2>1, <2>2
<1> QED
  BY <1>1, <1>3, <1>4, KeepFrame DEF Evolves

LEMMA CallStep ==
    ASSUME IndInv, NEW g \in CallGas, NEW value \in BOOLEAN, NEW a \in Target,
           Call(g, value, a)
    PROVE  IndInv'
<1>1. PICK new \in BOOLEAN : new = (value /\ ~AccountExists(a))
  OBVIOUS
<1>2. PICK f1 : f1 = AfterValueCost(Top, value)
  OBVIOUS
<1>3. PICK f2 : f2 = IF new THEN Charge(f1, NEW_ACCOUNT_STATE_GAS) ELSE f1
  OBVIOUS
<1>4. PICK stipend : stipend = IF value THEN CALL_STIPEND ELSE 0
  OBVIOUS
<1>5. PICK gas : gas = MinGas(g, f2.gas - f2.gas \div GasFraction)
  OBVIOUS
<1>6. /\ Running /\ f1.gas >= 0 /\ (new => CanCharge(f1, NEW_ACCOUNT_STATE_GAS))
      /\ frames' = Append([frames EXCEPT ![Len(frames)] = Pay(f2, -stipend)],
                          NewFrame("CALL", gas + stipend, f2.left, new))
      /\ created' = IF new THEN created \cup {a} ELSE created
      /\ UNCHANGED <<storage, deposit, phase, result, auth_state_gas>>
  BY <1>1, <1>2, <1>3, <1>4, <1>5 DEF Call
<1>7. /\ f2 \in Frame /\ stipend \in Nat /\ Evolves(Pay(f2, -stipend), Top)
      /\ Pay(f2, -stipend).gas = f2.gas + stipend
      /\ Pay(f2, -stipend).left = f2.left
  BY <1>2, <1>3, <1>4, <1>6, RunningFacts, CallerSide
<1>8. f2.gas \in Nat /\ f2.left \in Nat /\ g \in Nat
  BY <1>7, CostAssumption DEF Frame
<1>9. gas \in Nat /\ gas <= f2.gas
  BY <1>5, <1>8, FractionFacts DEF MinGas
<1>10. PICK d : d = NewFrame("CALL", gas + stipend, f2.left, new)
  OBVIOUS
<1>11. /\ d \in Frame /\ FrameOK(d)
       /\ d.msg_gas = gas + stipend /\ d.msg_state_gas = f2.left
  <2>1. TypeOK /\ gas + stipend \in Nat
    BY <1>6, <1>7, <1>9, RunningFacts
  <2> QED
    BY <1>8, <1>10, <2>1, NewFrameFacts
<1>12. CallerOf(Pay(f2, -stipend), d)
  BY <1>7, <1>8, <1>9, <1>11 DEF CallerOf
<1>13. WorldOK'
  BY <1>6 DEF IndInv, TypeOK, WorldOK
<1> QED
  BY <1>6, <1>7, <1>10, <1>11, <1>12, <1>13, OpenFrame DEF Evolves

LEMMA CallLightFailureStep ==
    ASSUME IndInv, NEW a \in Target, CallLightFailure(a)
    PROVE  IndInv'
<1>1. PICK new \in BOOLEAN : new = ~AccountExists(a)
  OBVIOUS
<1>2. PICK f1 : f1 = AfterValueCost(Top, TRUE)
  OBVIOUS
<1>3. PICK f2 : f2 = IF new THEN Charge(f1, NEW_ACCOUNT_STATE_GAS) ELSE f1
  OBVIOUS
<1>4. PICK f3 : f3 = Pay(f2, -CALL_STIPEND)
  OBVIOUS
<1>5. PICK f4 : f4 = IF new THEN Refill(f3, NEW_ACCOUNT_STATE_GAS) ELSE f3
  OBVIOUS
<1>6. /\ Running /\ f1.gas >= 0 /\ (new => CanCharge(f1, NEW_ACCOUNT_STATE_GAS))
      /\ SetTop(f4)
      /\ UNCHANGED <<storage, created, deposit, phase, result, auth_state_gas>>
  BY <1>1, <1>2, <1>3, <1>4, <1>5 DEF CallLightFailure
<1>7. CALL_STIPEND = IF TRUE THEN CALL_STIPEND ELSE 0
  OBVIOUS
<1>8. Evolves(f3, Top)
  BY <1>2, <1>3, <1>4, <1>6, <1>7, RunningFacts, CallerSide
<1>9. Evolves(f4, Top)
  <2>1. Evolves(Refill(f3, NEW_ACCOUNT_STATE_GAS), f3)
    BY <1>8, RefillEvolves, CostAssumption DEF Evolves
  <2> QED
    BY <1>5, <1>8, <2>1, EvolvesChain
<1>10. WorldOK'
  BY <1>6 DEF IndInv, TypeOK, WorldOK
<1> QED
  BY <1>6, <1>9, <1>10, KeepFrame DEF Evolves

LEMMA CreateStep ==
    ASSUME IndInv, NEW a \in Target, Create(a)
    PROVE  IndInv'
<1>1. PICK new \in BOOLEAN : new = ~AccountExists(a)
  OBVIOUS
<1>2. PICK f : f = IF new THEN Charge(Top, NEW_ACCOUNT_STATE_GAS) ELSE Top
  OBVIOUS
<1>3. PICK gas : gas = f.gas - f.gas \div GasFraction
  OBVIOUS
<1>4. PICK d : d = NewFrame("CREATE", gas, f.left, new)
  OBVIOUS
<1>5. /\ Running /\ (new => CanCharge(Top, NEW_ACCOUNT_STATE_GAS))
      /\ frames' = Append([frames EXCEPT ![Len(frames)] = f], d)
      /\ created' = IF new THEN created \cup {a} ELSE created
      /\ UNCHANGED <<storage, deposit, phase, result, auth_state_gas>>
  BY <1>1, <1>2, <1>3, <1>4 DEF Create
<1>6. Evolves(f, Top)
  <2>1. new => Evolves(Charge(Top, NEW_ACCOUNT_STATE_GAS), Top)
    BY <1>5, RunningFacts, ChargeEvolves, CostAssumption
  <2>2. Evolves(Top, Top)
    BY <1>5, RunningFacts DEF Evolves, SameCall
  <2> QED
    BY <1>2, <2>1, <2>2
<1>7. f.gas \in Nat /\ f.left \in Nat
  BY <1>6 DEF Evolves, Frame
<1>8. gas \in Nat /\ gas <= f.gas
  BY <1>3, <1>7, FractionFacts
<1>9. /\ d \in Frame /\ FrameOK(d) /\ CallerOf(f, d)
  BY <1>4, <1>5, <1>7, <1>8, RunningFacts, NewFrameFacts DEF CallerOf
<1>10. WorldOK'
  BY <1>5 DEF IndInv, TypeOK, WorldOK
<1> QED
  BY <1>5, <1>6, <1>9, <1>10, OpenFrame DEF Evolves

LEMMA SelfdestructToNewStep ==
    ASSUME IndInv, NEW a \in Target, SelfdestructToNew(a)
    PROVE  IndInv'
<1>1. PICK f : f = Pay(Top, ACCOUNT_WRITE)
  OBVIOUS
<1>2. /\ Running /\ f.gas >= 0 /\ CanCharge(f, NEW_ACCOUNT_STATE_GAS)
      /\ CloseFrame(Charge(f, NEW_ACCOUNT_STATE_GAS), "success")
      /\ created' = created \cup {a} /\ UNCHANGED <<storage, deposit>>
  BY <1>1 DEF SelfdestructToNew
<1>3. f.gas = Top.gas - ACCOUNT_WRITE /\ ACCOUNT_WRITE \in Nat
  BY <1>1, <1>2, RunningFacts, CostAssumption DEF Pay, WithGas, Frame
<1>4. Evolves(f, Top)
  BY <1>1, <1>2, <1>3, RunningFacts, PayEvolves
<1>5. Evolves(Charge(f, NEW_ACCOUNT_STATE_GAS), Top)
  BY <1>2, <1>4, ChargeEvolves, EvolvesChain, CostAssumption DEF Evolves
<1>6. WorldOK'
  BY <1>2 DEF IndInv, TypeOK, WorldOK
<1> QED
  BY <1>2, <1>5, <1>6, CloseFrameInv DEF Evolves

LEMMA DeployStep ==
    ASSUME IndInv, NEW cost \in Costs, NEW size \in CodeSizes, Deploy(cost, size)
    PROVE  IndInv'
<1>1. PICK f : f = Pay(Top, cost)
  OBVIOUS
<1>2. /\ Running /\ f.gas >= 0 /\ CanCharge(f, size)
      /\ CloseFrame(Charge(f, size), "success")
      /\ deposit' = deposit + size /\ UNCHANGED <<storage, created>>
  BY <1>1 DEF Deploy
<1>3. f.gas = Top.gas - cost /\ cost \in Nat /\ size \in Nat
  BY <1>1, <1>2, RunningFacts, CostAssumption DEF Pay, WithGas, Frame
<1>4. Evolves(f, Top)
  BY <1>1, <1>2, <1>3, RunningFacts, PayEvolves
<1>5. Evolves(Charge(f, size), Top)
  BY <1>2, <1>3, <1>4, ChargeEvolves, EvolvesChain DEF Evolves
<1>6. WorldOK'
  BY <1>2, <1>3 DEF IndInv, TypeOK, WorldOK
<1> QED
  BY <1>2, <1>5, <1>6, CloseFrameInv DEF Evolves

LEMMA ReturnStep ==
    ASSUME IndInv, Return
    PROVE  IndInv'
<1>1. Running /\ CloseFrame(Top, "success") /\ UNCHANGED <<storage, created, deposit>>
  BY DEF Return
<1>2. WorldOK'
  BY <1>1 DEF IndInv, TypeOK, WorldOK
<1>3. SameCall(Top, Top)
  BY DEF SameCall
<1> QED
  BY <1>1, <1>2, <1>3, RunningFacts, CloseFrameInv

LEMMA StopStep ==
    ASSUME IndInv, NEW outcome \in {"revert", "halt"}, Stop(outcome)
    PROVE  IndInv'
<1>1. /\ Running /\ CloseFrame(Top, outcome)
      /\ storage' = Top.saved.storage /\ created' = Top.saved.created
      /\ deposit' = Top.saved.deposit
  BY DEF Stop
<1>2. Top.saved \in Saved
  BY <1>1, RunningFacts DEF Frame
<1>3. WorldOK'
  BY <1>1, <1>2 DEF Saved, WorldOK
<1>4. SameCall(Top, Top)
  BY DEF SameCall
<1> QED
  BY <1>1, <1>3, <1>4, RunningFacts, CloseFrameInv

LEMMA StutterStep ==
    ASSUME IndInv, UNCHANGED vars
    PROVE  IndInv'
  BY DEF vars, IndInv, TypeOK, GoodStack, PhaseOK

-----------------------------------------------------------------------------
(* The theorems. *)

(* The inductive invariant holds in every reachable state.                 *)
THEOREM Invariance == Spec => []IndInv
<1>1. Init => IndInv
  BY SetAssumption DEF Init, IndInv, TypeOK, GoodStack, PhaseOK, NoResult, Ledger
<1>2. IndInv /\ [Next]_vars => IndInv'
  <2> SUFFICES ASSUME IndInv, [Next]_vars
               PROVE  IndInv'
    OBVIOUS
  <2>1. ASSUME NEW limits \in GasLimits, Begin(limits) PROVE IndInv'
    BY <2>1, BeginStep
  <2>2. ASSUME NEW a \in Target, NEW writes \in BOOLEAN, NEW delegates \in BOOLEAN,
               Authorize(a, writes, delegates)
        PROVE  IndInv'
    BY <2>2, AuthorizeStep
  <2>3. ASSUME NEW kind \in {"CALL", "CREATE"}, NEW a \in Target,
               NEW creates \in BOOLEAN, NEW access \in Costs \cup {0},
               TopCall(kind, a, creates, access)
        PROVE  IndInv'
    BY <2>3, TopCallStep
  <2>4. ASSUME NEW cost \in Costs, Spend(cost) PROVE IndInv'
    BY <2>4, SpendStep
  <2>5. ASSUME NEW s \in Slot, NEW v \in 0..1, SStore(s, v) PROVE IndInv'
    BY <2>5, SStoreStep
  <2>6. ASSUME NEW g \in CallGas, NEW value \in BOOLEAN, NEW a \in Target,
               Call(g, value, a)
        PROVE  IndInv'
    BY <2>6, CallStep
  <2>7. ASSUME NEW a \in Target,
               CallLightFailure(a) \/ Create(a) \/ SelfdestructToNew(a)
        PROVE  IndInv'
    BY <2>7, CallLightFailureStep, CreateStep, SelfdestructToNewStep
  <2>8. ASSUME NEW cost \in Costs, NEW size \in CodeSizes, Deploy(cost, size)
        PROVE  IndInv'
    BY <2>8, DeployStep
  <2>9. ASSUME NEW outcome \in {"revert", "halt"}, Stop(outcome) PROVE IndInv'
    BY <2>9, StopStep
  <2>10. CASE TopLevelOutOfGas
    BY <2>10, TopLevelOutOfGasStep
  <2>11. CASE Return
    BY <2>11, ReturnStep
  <2>12. CASE Done \/ UNCHANGED vars
    BY <2>12, StutterStep DEF Done
  <2> QED
    BY <2>1, <2>2, <2>3, <2>4, <2>5, <2>6, <2>7, <2>8, <2>9, <2>10, <2>11, <2>12
    DEF Next
<1> QED
  BY <1>1, <1>2, PTL DEF Spec

(* No gas counter of the code ever becomes negative.                       *)
THEOREM TypeCorrect == Spec => []TypeOK
<1>1. IndInv => TypeOK
  BY DEF IndInv
<1> QED
  BY <1>1, Invariance, PTL

(* The assertion of absorb_child_state_gas(): a frame with prepaid state   *)
(* gas left has spilled none of its execution gas.                         *)
THEOREM PoolsAreExclusive == Spec => []PoolsExclusive
<1>1. IndInv => PoolsExclusive
  BY DEF IndInv, GoodStack, FrameOK, Exclusive, PoolsExclusive
<1> QED
  BY <1>1, Invariance, PTL

(* Refills never give a frame, or the transaction, more execution gas than *)
(* it was given.                                                           *)
THEOREM NoGasIsMinted == Spec => []GasNeverMinted
<1>1. IndInv => GasNeverMinted
  BY DEF IndInv, GoodStack, FrameOK, PhaseOK, GasNeverMinted
<1> QED
  BY <1>1, Invariance, PTL

-----------------------------------------------------------------------------
(* State gas pays for the growth of the state. *)

WorldGrowth == Growth(storage, created, deposit)

\* The slots that Growth counts.
Grown(st) == {s \in Slot : Original[s] = 0 /\ st[s] # 0}

LEMMA Distributes ==
    ASSUME NEW k \in Nat, NEW n \in Nat
    PROVE  k * n \in Nat /\ k * (n + 1) = k * n + k
  OBVIOUS

(* The price of one more element of a finite set.                          *)
LEMMA OneMore ==
    ASSUME NEW S, IsFiniteSet(S), NEW x, x \notin S, NEW k \in Nat
    PROVE  k * Cardinality(S \cup {x}) = k * Cardinality(S) + k
<1>1. Cardinality(S) \in Nat /\ Cardinality(S \cup {x}) = Cardinality(S) + 1
  BY FS_AddElement, FS_CardinalityType
<1> QED
  BY <1>1, Distributes

LEMMA GrowthFacts ==
    ASSUME NEW st \in [Slot -> 0..1], NEW cr \in SUBSET Target, NEW dep \in Nat
    PROVE  /\ IsFiniteSet(Grown(st)) /\ IsFiniteSet(cr)
           /\ Growth(st, cr, dep) \in Nat
           /\ Growth(st, cr, dep)
                = STORAGE_SET_STATE_GAS * Cardinality(Grown(st))
                    + NEW_ACCOUNT_STATE_GAS * Cardinality(cr) + dep
           /\ STORAGE_SET_STATE_GAS * Cardinality(Grown(st)) \in Nat
           /\ NEW_ACCOUNT_STATE_GAS * Cardinality(cr) \in Nat
<1>1. IsFiniteSet(Grown(st))
  <2>1. Grown(st) \subseteq Slot
    BY DEF Grown
  <2> QED
    BY <2>1, FS_Subset, SetAssumption
<1>2. IsFiniteSet(cr)
  BY FS_Subset, SetAssumption
<1>3. Cardinality(Grown(st)) \in Nat /\ Cardinality(cr) \in Nat
  BY <1>1, <1>2, FS_CardinalityType
<1>4. /\ STORAGE_SET_STATE_GAS * Cardinality(Grown(st)) \in Nat
      /\ NEW_ACCOUNT_STATE_GAS * Cardinality(cr) \in Nat
  BY <1>3, Distributes, CostAssumption
<1>5. Growth(st, cr, dep)
        = STORAGE_SET_STATE_GAS * Cardinality(Grown(st))
            + NEW_ACCOUNT_STATE_GAS * Cardinality(cr) + dep
  BY DEF Growth, Grown
<1> QED
  BY <1>1, <1>2, <1>4, <1>5

LEMMA GrowthType ==
    ASSUME NEW st \in [Slot -> 0..1], NEW cr \in SUBSET Target, NEW dep \in Nat
    PROVE  Growth(st, cr, dep) \in Int
<1>1. Growth(st, cr, dep) \in Nat
  BY GrowthFacts
<1> QED
  BY <1>1

(* A new account costs NEW_ACCOUNT_STATE_GAS, a deposit its size.          *)
LEMMA GrowthOfAccount ==
    ASSUME NEW st \in [Slot -> 0..1], NEW cr \in SUBSET Target, NEW dep \in Nat,
           NEW a \in Target, a \notin cr
    PROVE  Growth(st, cr \cup {a}, dep) = Growth(st, cr, dep) + NEW_ACCOUNT_STATE_GAS
<1>1. NEW_ACCOUNT_STATE_GAS * Cardinality(cr \cup {a})
        = NEW_ACCOUNT_STATE_GAS * Cardinality(cr) + NEW_ACCOUNT_STATE_GAS
  BY GrowthFacts, OneMore, CostAssumption
<1>2. cr \cup {a} \in SUBSET Target
  OBVIOUS
<1>3. PICK A : A = STORAGE_SET_STATE_GAS * Cardinality(Grown(st))
  OBVIOUS
<1>4. PICK B : B = NEW_ACCOUNT_STATE_GAS * Cardinality(cr)
  OBVIOUS
<1>5. /\ A \in Nat /\ B \in Nat /\ NEW_ACCOUNT_STATE_GAS \in Nat
      /\ Growth(st, cr, dep) = A + B + dep
      /\ Growth(st, cr \cup {a}, dep) = A + (B + NEW_ACCOUNT_STATE_GAS) + dep
  <2>1. Growth(st, cr, dep) = A + B + dep /\ A \in Nat /\ B \in Nat
    BY <1>3, <1>4, GrowthFacts
  <2>2. Growth(st, cr \cup {a}, dep) = A + (B + NEW_ACCOUNT_STATE_GAS) + dep
    BY <1>1, <1>2, <1>3, <1>4, GrowthFacts
  <2> QED
    BY <2>1, <2>2, CostAssumption
<1> HIDE <1>3, <1>4
<1> QED
  BY <1>5

LEMMA GrowthOfDeposit ==
    ASSUME NEW st \in [Slot -> 0..1], NEW cr \in SUBSET Target, NEW dep \in Nat,
           NEW size \in Nat
    PROVE  Growth(st, cr, dep + size) = Growth(st, cr, dep) + size
<1>1. dep + size \in Nat
  OBVIOUS
<1>2. PICK A : A = STORAGE_SET_STATE_GAS * Cardinality(Grown(st))
  OBVIOUS
<1>3. PICK B : B = NEW_ACCOUNT_STATE_GAS * Cardinality(cr)
  OBVIOUS
<1>4. /\ A \in Nat /\ B \in Nat /\ Growth(st, cr, dep) = A + B + dep
  BY <1>2, <1>3, GrowthFacts
<1>5. Growth(st, cr, dep + size) = A + B + (dep + size)
  BY <1>1, <1>2, <1>3, GrowthFacts
<1> HIDE <1>2, <1>3
<1> QED
  BY <1>4, <1>5

\* Storage "high" has one more slot to pay for than "low".
Raised(low, high, s) == s \notin Grown(low) /\ Grown(high) = Grown(low) \cup {s}

(* A slot that becomes nonzero, and was zero before the transaction, costs *)
(* STORAGE_SET_STATE_GAS.                                                  *)
LEMMA RaisedBy ==
    ASSUME NEW st \in [Slot -> 0..1], NEW s \in Slot, NEW v \in 0..1, NEW w \in 0..1,
           Original[s] = 0, st[s] = v, v = 0 <=> w # 0
    PROVE  IF v = 0 THEN Raised(st, [st EXCEPT ![s] = w], s)
                    ELSE Raised([st EXCEPT ![s] = w], st, s)
<1>1. \A u \in Slot : [st EXCEPT ![s] = w][u] = (IF u = s THEN w ELSE st[u])
  OBVIOUS
<1> QED
  BY <1>1 DEF Grown, Raised

LEMMA GrowthOfSlot ==
    ASSUME NEW low \in [Slot -> 0..1], NEW high \in [Slot -> 0..1],
           NEW cr \in SUBSET Target, NEW dep \in Nat, NEW s, Raised(low, high, s)
    PROVE  Growth(high, cr, dep) = Growth(low, cr, dep) + STORAGE_SET_STATE_GAS
<1>2. STORAGE_SET_STATE_GAS * Cardinality(Grown(high))
        = STORAGE_SET_STATE_GAS * Cardinality(Grown(low)) + STORAGE_SET_STATE_GAS
  <2>1. IsFiniteSet(Grown(low))
    BY GrowthFacts
  <2> QED
    BY <2>1, OneMore, CostAssumption DEF Raised
<1>3. PICK A : A = STORAGE_SET_STATE_GAS * Cardinality(Grown(low))
  OBVIOUS
<1>4. PICK B : B = NEW_ACCOUNT_STATE_GAS * Cardinality(cr)
  OBVIOUS
<1>5. A \in Nat /\ B \in Nat /\ Growth(low, cr, dep) = A + B + dep
  BY <1>3, <1>4, GrowthFacts
<1>6. Growth(high, cr, dep) = (A + STORAGE_SET_STATE_GAS) + B + dep
  BY <1>2, <1>3, <1>4, GrowthFacts
<1>7. STORAGE_SET_STATE_GAS \in Nat
  BY CostAssumption
<1> HIDE <1>3, <1>4
<1> QED
  BY <1>5, <1>6, <1>7

\* Storage "new" has the same slots to pay for as "st".
Unpaid(new, st) == Grown(new) = Grown(st)

(* No other write changes the growth.                                      *)
LEMMA GrowthUnmoved ==
    ASSUME NEW st \in [Slot -> 0..1], NEW s \in Slot, NEW v \in 0..1,
           Original[s] # 0 \/ (st[s] = 0 <=> v = 0)
    PROVE  Unpaid([st EXCEPT ![s] = v], st)
<1>1. \A u \in Slot : [st EXCEPT ![s] = v][u] = (IF u = s THEN v ELSE st[u])
  OBVIOUS
<1> QED
  BY <1>1 DEF Grown, Unpaid

LEMMA GrowthOfUnpaid ==
    ASSUME NEW new, NEW st, NEW cr, NEW dep, Unpaid(new, st)
    PROVE  Growth(new, cr, dep) = Growth(st, cr, dep)
  BY DEF Unpaid, Grown, Growth

(* Before the transaction nothing has grown.                               *)
LEMMA NoGrowth == Growth(Original, {}, 0) = 0
<1>1. {s \in Slot : Original[s] = 0 /\ Original[s] # 0} = {}
  OBVIOUS
<1>2. STORAGE_SET_STATE_GAS \in Nat /\ NEW_ACCOUNT_STATE_GAS \in Nat
  BY CostAssumption
<1>3. Cardinality({}) = 0
  BY FS_EmptySet
<1> QED
  BY <1>1, <1>2, <1>3 DEF Growth

(* Base and Used are numbers; an update of the gas leaves Base alone.      *)
LEMMA BaseFacts ==
    ASSUME NEW f \in Frame
    PROVE  /\ Base(f) \in Nat /\ Used(f) \in Int
           /\ Base(f) = Growth(f.saved.storage, f.saved.created, f.saved.deposit)
                          + (IF f.new_account THEN NEW_ACCOUNT_STATE_GAS ELSE 0)
           /\ Growth(f.saved.storage, f.saved.created, f.saved.deposit) \in Nat
<1>1. /\ f.saved.storage \in [Slot -> 0..1] /\ f.saved.created \in SUBSET Target
      /\ f.saved.deposit \in Nat
  BY DEF Frame, Saved
<1>2. Growth(f.saved.storage, f.saved.created, f.saved.deposit) \in Nat
  BY <1>1, GrowthFacts
<1>3. f.left \in Nat /\ f.spilled \in Nat /\ f.msg_state_gas \in Nat
  BY DEF Frame
<1> QED
  BY <1>2, <1>3, CostAssumption DEF Base, Used

LEMMA BaseSame ==
    ASSUME NEW c, NEW f, SameCall(c, f)
    PROVE  Base(c) = Base(f)
  BY DEF SameCall, Base

\* Every frame of stack s has used what its callee found paid for and it
\* did not, the innermost one all up to the growth "now".
Pays(s, now) ==
    /\ \A i \in 1..(Len(s) - 1) : Used(s[i]) = Base(s[i + 1]) - Base(s[i])
    /\ Used(s[Len(s)]) = now - Base(s[Len(s)])

LEMMA PaysReplaceTop ==
    ASSUME NEW s \in Seq(Frame), Len(s) > 0, NEW now \in Int, Pays(s, now),
           NEW c \in Frame, SameCall(c, s[Len(s)]),
           NEW later \in Int, Used(c) - Used(s[Len(s)]) = later - now,
           NEW t, TopReplaced(t, s, c)
    PROVE  Pays(t, later)
<1>1. Len(s) \in Nat /\ Len(s) \in 1..Len(s)
  BY LenProperties
<1>2. s[Len(s)] \in Frame /\ Base(c) = Base(s[Len(s)])
  BY <1>1, ElementOfSeq, BaseSame
<1>3. Len(t) = Len(s) /\ t[Len(s)] = c
  BY DEF TopReplaced
<1>4. Used(t[Len(t)]) = later - Base(t[Len(t)])
  <2>1. Used(s[Len(s)]) = now - Base(s[Len(s)])
    BY DEF Pays
  <2>2. Used(c) \in Int /\ Used(s[Len(s)]) \in Int /\ Base(c) \in Int
    BY <1>2, BaseFacts
  <2>3. Used(c) = later - Base(c)
    BY <1>2, <2>1, <2>2
  <2> QED
    BY <1>3, <2>3
<1>5. ASSUME NEW i \in 1..(Len(t) - 1)
      PROVE  Used(t[i]) = Base(t[i + 1]) - Base(t[i])
  <2>1. i \in 1..Len(s) /\ i # Len(s) /\ i + 1 \in 1..Len(s) /\ i \in 1..(Len(s) - 1)
    BY <1>1, <1>3
  <2>2. t[i] = s[i] /\ Used(s[i]) = Base(s[i + 1]) - Base(s[i])
    BY <2>1, Zenon DEF TopReplaced, Pays
  <2>3. Base(t[i + 1]) = Base(s[i + 1])
    <3>1. CASE i + 1 = Len(s)
      BY <1>2, <1>3, <3>1
    <3>2. CASE i + 1 # Len(s)
      BY <2>1, <3>2, Zenon DEF TopReplaced
    <3> QED
      BY <3>1, <3>2
  <2> QED
    BY <2>2, <2>3
<1> QED
  BY <1>4, <1>5 DEF Pays

LEMMA PaysPush ==
    ASSUME NEW s \in Seq(Frame), Len(s) > 0, NEW now \in Int, Pays(s, now),
           NEW d \in Frame, NEW later \in Int, Used(d) = later - Base(d), Base(d) = now,
           NEW t, Pushed(t, s, d)
    PROVE  Pays(t, later)
<1>1. Len(s) \in Nat
  BY LenProperties
<1>2. Len(t) = Len(s) + 1 /\ t[Len(s) + 1] = d
  BY DEF Pushed
<1>3. ASSUME NEW i \in 1..(Len(t) - 1)
      PROVE  Used(t[i]) = Base(t[i + 1]) - Base(t[i])
  <2>1. t[i] = s[i]
    BY <1>1, <1>2 DEF Pushed
  <2>2. CASE i = Len(s)
    BY <1>2, <2>1, <2>2 DEF Pays
  <2>3. CASE i # Len(s)
    <3>1. i \in 1..(Len(s) - 1) /\ i + 1 \in 1..Len(s)
      BY <1>1, <1>2, <2>3
    <3>2. t[i + 1] = s[i + 1]
      BY <3>1 DEF Pushed
    <3> QED
      BY <2>1, <3>1, <3>2, Zenon DEF Pays
  <2> QED
    BY <2>2, <2>3
<1> QED
  BY <1>2, <1>3 DEF Pays

\* Stack t is the n outermost frames of stack s.
Outer(t, s, n) == Len(t) = n /\ \A i \in 1..n : t[i] = s[i]

LEMMA PaysPop ==
    ASSUME NEW s \in Seq(Frame), NEW now, Pays(s, now), NEW n \in Nat, n > 0,
           n + 1 = Len(s), NEW t, Outer(t, s, n)
    PROVE  Pays(t, Base(s[n + 1]))
<1>1. Len(t) = n /\ n = Len(s) - 1 /\ t[n] = s[n]
  BY DEF Outer
<1>2. Used(s[n]) = Base(s[n + 1]) - Base(s[n])
  BY <1>1 DEF Pays
<1>3. ASSUME NEW i \in 1..(n - 1)
      PROVE  Used(t[i]) = Base(t[i + 1]) - Base(t[i])
  <2>1. i \in 1..n /\ i + 1 \in 1..n /\ i \in 1..(Len(s) - 1)
    BY <1>1
  <2> QED
    BY <2>1, Zenon DEF Outer, Pays
<1> QED
  BY <1>1, <1>2, <1>3 DEF Pays

-----------------------------------------------------------------------------
(* The inductive invariant. *)

\* The transaction's own frame starts from the state before the transaction.
BottomOK(f) ==
    /\ f.saved = [storage |-> Original, created |-> {}, deposit |-> 0]
    /\ ~f.new_account

\* What the authorizations have used is the growth the top-level call finds.
AuthPays(f, auth, saved) ==
    f.msg_state_gas - auth.left + auth.spilled
      = Growth(saved.storage, saved.created, saved.deposit)

PayInv ==
    /\ IndInv
    /\ phase \in {"auth", "run"} => Pays(frames, WorldGrowth)
    /\ phase \in {"start", "auth"} => storage = Original
    /\ phase = "start" => created = {} /\ deposit = 0
    /\ phase # "start" => BottomOK(frames[1])
    /\ phase = "run" => AuthPays(frames[1], auth_state_gas, frames[2].saved)
    /\ StateGasPaysGrowth

(* What the invariant says while the transaction is in progress.           *)
LEMMA ActiveFacts ==
    ASSUME PayInv, phase = "auth" \/ Running
    PROVE  /\ IndInv /\ frames \in Seq(Frame) /\ Len(frames) > 0 /\ Len(frames) \in Nat
           /\ Top \in Frame /\ FrameOK(Top) /\ Top = frames[Len(frames)]
           /\ WorldOK /\ WorldGrowth \in Int /\ Pays(frames, WorldGrowth)
           /\ Used(Top) = WorldGrowth - Base(Top)
           /\ BottomOK(frames[1])
           /\ phase \in {"auth", "run"} /\ (phase = "run" => Len(frames) > 1)
<1>1. IndInv /\ phase \in {"auth", "run"} /\ (phase = "run" => Len(frames) > 1)
  BY DEF PayInv, Running, IndInv, PhaseOK
<1>2. /\ frames \in Seq(Frame) /\ Len(frames) \in Nat
      /\ Len(frames) > 0 /\ Top \in Frame /\ FrameOK(Top)
      /\ Top = frames[Len(frames)] /\ TypeOK
  BY <1>1, FrameFacts DEF IndInv, TypeOK, Top
<1>3. WorldOK /\ WorldGrowth \in Int
  <2>1. WorldOK
    BY <1>2 DEF TypeOK, WorldOK
  <2> QED
    BY <2>1, GrowthType DEF WorldOK, WorldGrowth
<1>4. Pays(frames, WorldGrowth) /\ BottomOK(frames[1])
  BY <1>1 DEF PayInv
<1>5. Used(Top) = WorldGrowth - Base(Top)
  BY <1>2, <1>4 DEF Pays
<1> QED
  BY <1>1, <1>2, <1>3, <1>4, <1>5

(* A step of the running frame that only changes its gas, and the state by *)
(* what the change pays for.                                               *)
LEMMA KeepPays ==
    ASSUME PayInv, phase = "auth" \/ Running,
           NEW c, Evolves(c, Top), SetTop(c), WorldOK',
           UNCHANGED <<phase, result, auth_state_gas>>,
           phase = "auth" => storage' = storage,
           Used(c) - Used(Top) = WorldGrowth' - WorldGrowth
    PROVE  PayInv'
<1>1. /\ IndInv /\ frames \in Seq(Frame) /\ Len(frames) > 0 /\ Len(frames) \in Nat
      /\ Top = frames[Len(frames)] /\ WorldGrowth \in Int /\ Pays(frames, WorldGrowth)
      /\ BottomOK(frames[1]) /\ phase \in {"auth", "run"}
      /\ (phase = "run" => Len(frames) > 1)
  BY ActiveFacts
<1>2. IndInv'
  BY <1>1, KeepFrame DEF Evolves
<1>3. frames' \in Seq(Frame) /\ TopReplaced(frames', frames, c)
  BY <1>1, ExceptTop DEF SetTop, Evolves
<1>4. WorldGrowth' \in Int
  BY GrowthType DEF WorldOK, WorldGrowth
<1>5. Pays(frames', WorldGrowth')
  <2>1. c \in Frame /\ SameCall(c, frames[Len(frames)])
        /\ Used(c) - Used(frames[Len(frames)]) = WorldGrowth' - WorldGrowth
    BY <1>1 DEF Evolves
  <2>2. PICK later : later = WorldGrowth'
    OBVIOUS
  <2>3. PICK t : t = frames'
    OBVIOUS
  <2>4. Pays(t, later)
    BY <1>1, <1>3, <1>4, <2>1, <2>2, <2>3, PaysReplaceTop
  <2> QED
    BY <2>2, <2>3, <2>4
<1>6. BottomOK(frames'[1])
  <2>1. frames'[1] = frames[1] \/ (frames'[1] = c /\ SameCall(c, frames[1]))
    BY <1>1, <1>3 DEF TopReplaced, Evolves
  <2> QED
    BY <1>1, <2>1 DEF BottomOK, SameCall
<1>7. phase = "run" => frames'[1] = frames[1] /\ frames'[2].saved = frames[2].saved
  <2>1. ASSUME phase = "run"
        PROVE  frames'[1] = frames[1] /\ frames'[2].saved = frames[2].saved
    <3>1. frames'[1] = frames[1]
      BY <1>1, <1>3, <2>1 DEF TopReplaced
    <3>2. frames'[2] = frames[2] \/ (frames'[2] = c /\ SameCall(c, frames[2]))
      BY <1>1, <1>3, <2>1 DEF TopReplaced, Evolves
    <3> QED
      BY <3>1, <3>2 DEF SameCall
  <2> QED
    BY <2>1
<1>8. phase' = "run" => AuthPays(frames'[1], auth_state_gas', frames'[2].saved)
  BY <1>7 DEF PayInv, AuthPays
<1>9. StateGasPaysGrowth'
  BY <1>1 DEF StateGasPaysGrowth
<1>10. phase' \in {"start", "auth"} => storage' = Original
  BY <1>1 DEF PayInv
<1> QED
  BY <1>1, <1>2, <1>5, <1>6, <1>8, <1>9, <1>10 DEF PayInv

(* A step that opens a frame: the frame owes nothing, and finds paid for   *)
(* what the state has grown to.                                            *)
LEMMA OpenPays ==
    ASSUME PayInv, Running,
           NEW c, Evolves(c, Top),
           NEW d \in Frame, FrameOK(d), CallerOf(c, d),
           frames' = Append([frames EXCEPT ![Len(frames)] = c], d),
           WorldOK', UNCHANGED <<phase, result, auth_state_gas>>,
           Used(c) - Used(Top) = WorldGrowth' - WorldGrowth,
           Base(d) = WorldGrowth', Used(d) = 0
    PROVE  PayInv'
<1>1. /\ IndInv /\ frames \in Seq(Frame) /\ Len(frames) > 0 /\ Len(frames) \in Nat
      /\ Top = frames[Len(frames)] /\ WorldGrowth \in Int /\ Pays(frames, WorldGrowth)
      /\ BottomOK(frames[1]) /\ phase = "run" /\ Len(frames) > 1
  BY ActiveFacts DEF Running
<1>2. IndInv'
  BY <1>1, OpenFrame DEF Evolves
<1>3. PICK t : t = [frames EXCEPT ![Len(frames)] = c]
  OBVIOUS
<1>4. t \in Seq(Frame) /\ TopReplaced(t, frames, c)
  BY <1>1, <1>3, ExceptTop DEF Evolves
<1>5. PICK u : u = frames'
  OBVIOUS
<1>6. Pushed(u, t, d) /\ Len(t) = Len(frames)
  BY <1>3, <1>4, <1>5, AppendPushes DEF TopReplaced
<1>7. PICK later : later = WorldGrowth'
  OBVIOUS
<1>8. later \in Int
  BY <1>7, GrowthType DEF WorldOK, WorldGrowth
<1>9. Pays(t, later)
  <2>1. c \in Frame /\ SameCall(c, frames[Len(frames)])
        /\ Used(c) - Used(frames[Len(frames)]) = later - WorldGrowth
    BY <1>1, <1>7 DEF Evolves
  <2> QED
    BY <1>1, <1>4, <1>8, <2>1, PaysReplaceTop
<1>10. Pays(u, later)
  <2>1. Len(t) > 0 /\ Base(d) = later /\ Used(d) = later - Base(d)
    <3>1. Base(d) = later /\ Used(d) = 0 /\ Len(t) > 0
      BY <1>1, <1>6, <1>7
    <3> HIDE <1>7
    <3> QED
      BY <1>8, <3>1
  <2> QED
    BY <1>4, <1>6, <1>8, <1>9, <2>1, PaysPush
<1>11. u[1] = frames[1] /\ u[2].saved = frames[2].saved
  <2>1. 1 \in 1..Len(t) /\ 2 \in 1..Len(t)
    BY <1>1, <1>6
  <2>2. u[1] = t[1] /\ u[2] = t[2]
    BY <1>6, <2>1 DEF Pushed
  <2>3. t[1] = frames[1]
    BY <1>1, <1>4 DEF TopReplaced
  <2>4. t[2] = frames[2] \/ (t[2] = c /\ SameCall(c, frames[2]))
    BY <1>1, <1>4 DEF TopReplaced, Evolves
  <2> QED
    BY <2>2, <2>3, <2>4 DEF SameCall
<1>12. /\ BottomOK(frames'[1])
       /\ AuthPays(frames'[1], auth_state_gas', frames'[2].saved)
  <2>1. AuthPays(frames[1], auth_state_gas, frames[2].saved)
    BY <1>1 DEF PayInv
  <2> QED
    BY <1>1, <1>5, <1>11, <2>1 DEF AuthPays
<1>13. StateGasPaysGrowth'
  BY <1>1 DEF StateGasPaysGrowth
<1> QED
  BY <1>1, <1>2, <1>5, <1>7, <1>10, <1>12, <1>13 DEF PayInv

(* A charge is used, a refill is used no more, an execution cost is not    *)
(* state gas.                                                              *)
LEMMA UsedCharge ==
    ASSUME NEW f \in Frame, NEW cost \in Nat, CanCharge(f, cost)
    PROVE  Used(Charge(f, cost)) = Used(f) + cost
<1>1. PICK c : c = Charge(f, cost)
  OBVIOUS
<1>2. /\ c \in Frame /\ SameCall(c, f) /\ c.left - c.spilled = f.left - f.spilled - cost
  BY <1>1, ChargeFacts
<1>3. /\ c.left \in Nat /\ c.spilled \in Nat /\ f.left \in Nat /\ f.spilled \in Nat
      /\ f.msg_state_gas \in Nat /\ c.msg_state_gas = f.msg_state_gas
  BY <1>2 DEF Frame, SameCall
<1>4. Used(c) = Used(f) + cost
  BY <1>2, <1>3 DEF Used
<1> QED
  BY <1>1, <1>4

LEMMA UsedRefill ==
    ASSUME NEW f \in Frame, NEW cost \in Nat
    PROVE  Used(Refill(f, cost)) = Used(f) - cost
<1>1. PICK c : c = Refill(f, cost)
  OBVIOUS
<1>2. /\ c \in Frame /\ SameCall(c, f) /\ c.left - c.spilled = f.left - f.spilled + cost
  BY <1>1, RefillFacts
<1>3. /\ c.left \in Nat /\ c.spilled \in Nat /\ f.left \in Nat /\ f.spilled \in Nat
      /\ f.msg_state_gas \in Nat /\ c.msg_state_gas = f.msg_state_gas
  BY <1>2 DEF Frame, SameCall
<1>4. Used(c) = Used(f) - cost
  BY <1>2, <1>3 DEF Used
<1> QED
  BY <1>1, <1>4

LEMMA UsedPay ==
    ASSUME NEW f \in Frame, NEW cost
    PROVE  Used(Pay(f, cost)) = Used(f)
  BY DEF Pay, WithGas, Used, Frame

\* What the caller of frame c takes back when c fails.
TakenBack(c, success) ==
    IF c.new_account /\ ~success THEN NEW_ACCOUNT_STATE_GAS ELSE 0

\* Frame g is frame f after it absorbed the result r of frame c.
Absorbed(g, f, c, r, success) ==
    Used(g) = (Used(f) + (c.msg_state_gas - r.left + r.spilled)) - TakenBack(c, success)

(* What the caller of frame c has used after absorbing its result.         *)
LEMMA UsedCallerAfter ==
    ASSUME NEW f \in Frame, FrameOK(f), NEW c \in Frame, CallerOf(f, c),
           NEW r \in Ledger, r.gas + r.spilled <= c.msg_gas,
           NEW success \in BOOLEAN,
           NEW g, g = CallerAfter(f, c, r, success)
    PROVE  Absorbed(g, f, c, r, success)
<1>1. /\ f.gas \in Nat /\ f.left \in Nat /\ f.spilled \in Nat /\ f.msg_gas \in Nat
      /\ f.msg_state_gas \in Nat
      /\ c.msg_gas \in Nat /\ c.msg_gas <= f.gas /\ c.msg_state_gas = f.left
      /\ r.gas \in Nat /\ r.left \in Nat /\ r.spilled \in Nat
  BY DEF Frame, FrameOK, CallerOf, Ledger
<1>2. PICK w : w = WithGas(f, f.gas - (c.msg_gas - r.gas), 0, f.spilled + r.spilled)
  OBVIOUS
<1>3. f.gas - (c.msg_gas - r.gas) \in Nat /\ f.spilled + r.spilled \in Nat
  BY <1>1
<1>4. Updated(w, f, f.gas - (c.msg_gas - r.gas), 0, f.spilled + r.spilled)
  BY <1>2, <1>3, WithGasFacts
<1>5. w \in Frame /\ w.left = 0 /\ w.spilled = f.spilled + r.spilled
      /\ w.msg_state_gas = f.msg_state_gas
  BY <1>4 DEF Updated, SameCall
<1>6. PICK a : a = Refill(w, r.left)
  OBVIOUS
<1>7. a \in Frame /\ Used(a) = Used(w) - r.left
  BY <1>1, <1>5, <1>6, RefillFacts, UsedRefill
<1>8. Used(a) = Used(f) + (c.msg_state_gas - r.left + r.spilled)
  <2>1. Used(w) = f.msg_state_gas + (f.spilled + r.spilled)
    BY <1>1, <1>5 DEF Used
  <2>2. Used(f) = f.msg_state_gas - f.left + f.spilled
    BY DEF Used
  <2> QED
    BY <1>1, <1>7, <2>1, <2>2
<1>9. NEW_ACCOUNT_STATE_GAS \in Nat
  BY CostAssumption
<1>10. Used(Refill(a, NEW_ACCOUNT_STATE_GAS)) = Used(a) - NEW_ACCOUNT_STATE_GAS
  BY <1>7, <1>9, UsedRefill
<1>11. g = IF c.new_account /\ ~success THEN Refill(a, NEW_ACCOUNT_STATE_GAS) ELSE a
  BY <1>2, <1>6 DEF CallerAfter, Absorb
<1>12. Used(a) \in Int
  BY <1>7, BaseFacts
<1>13. CASE c.new_account /\ ~success
  <2>1. g = Refill(a, NEW_ACCOUNT_STATE_GAS) /\ TakenBack(c, success) = NEW_ACCOUNT_STATE_GAS
    BY <1>11, <1>13, Zenon DEF TakenBack
  <2> QED
    BY <1>8, <1>10, <2>1, Zenon DEF Absorbed
<1>14. CASE ~(c.new_account /\ ~success)
  <2>1. g = a /\ TakenBack(c, success) = 0
    BY <1>11, <1>14, Zenon DEF TakenBack
  <2>2. Used(g) = Used(a) - 0
    BY <1>12, <2>1
  <2> QED
    BY <1>8, <2>1, <2>2, Zenon DEF Absorbed
<1> QED
  BY <1>13, <1>14

(* The state gas a frame's result accounts for: none after a failure.      *)
LEMMA ResultUsed ==
    ASSUME NEW c \in Frame, NEW outcome \in {"success", "revert", "halt"},
           NEW r, r = FrameResult(c, outcome)
    PROVE  c.msg_state_gas - r.left + r.spilled
             = IF outcome = "success" THEN Used(c) ELSE 0
<1>1. c.gas \in Nat /\ c.left \in Nat /\ c.spilled \in Nat /\ c.msg_state_gas \in Nat
  BY DEF Frame
<1>2. CASE outcome = "success"
  BY <1>1, <1>2 DEF FrameResult, Used
<1>3. CASE outcome = "revert"
  BY <1>1, <1>3 DEF FrameResult
<1>4. CASE outcome = "halt"
  BY <1>1, <1>4 DEF FrameResult
<1> QED
  BY <1>2, <1>3, <1>4

\* The state after frame c ends: what it has paid for, or its checkpoint.
Settled(c, outcome, later) ==
    IF outcome = "success" THEN Used(c) = later - Base(c)
    ELSE later = Growth(c.saved.storage, c.saved.created, c.saved.deposit)

(* A step that closes the innermost frame.                                 *)
LEMMA ClosePays ==
    ASSUME PayInv, Running,
           NEW c, Evolves(c, Top), NEW outcome \in {"success", "revert", "halt"},
           CloseFrame(c, outcome), WorldOK', Settled(c, outcome, WorldGrowth')
    PROVE  PayInv'
<1>1. /\ IndInv /\ frames \in Seq(Frame) /\ Len(frames) \in Nat
      /\ Top = frames[Len(frames)] /\ WorldGrowth \in Int /\ Pays(frames, WorldGrowth)
      /\ BottomOK(frames[1]) /\ phase = "run" /\ Len(frames) > 1 /\ GoodStack(frames)
  BY ActiveFacts DEF Running, IndInv
<1>2. c \in Frame /\ SameCall(c, Top) /\ FrameOK(c) /\ Base(c) = Base(Top)
  BY BaseSame DEF Evolves
<1>3. IndInv'
  BY <1>1, <1>2, CloseFrameInv
<1>4. PICK n : n = Len(frames) - 1
  OBVIOUS
<1>5. n \in Nat /\ n > 0 /\ n \in 1..Len(frames) /\ n + 1 = Len(frames)
  BY <1>1, <1>4
<1>6. PICK f : f = frames[n]
  OBVIOUS
<1>7. f \in Frame /\ FrameOK(f) /\ CallerOf(f, c)
  <2>1. f \in Frame /\ FrameOK(f)
    BY <1>1, <1>5, <1>6, FrameFacts
  <2>2. CallerOf(f, Top)
    BY <1>1, <1>5, <1>6 DEF GoodStack
  <2> QED
    BY <1>2, <2>1, <2>2 DEF CallerOf, SameCall
<1>8. PICK r : r = FrameResult(c, outcome)
  OBVIOUS
<1>9. r \in Ledger /\ r.gas + r.spilled <= c.msg_gas
  BY <1>2, <1>8, FrameResultFacts
<1>10. c.msg_state_gas - r.left + r.spilled
         = IF outcome = "success" THEN Used(c) ELSE 0
  BY <1>2, <1>8, ResultUsed
<1>11. PICK later : later = WorldGrowth'
  OBVIOUS
<1>12. later \in Int /\ Settled(c, outcome, later)
  <2>1. later \in Int
    BY <1>11, GrowthType DEF WorldOK, WorldGrowth
  <2> QED
    BY <1>11, <2>1
<1>13. PICK t : t = SubSeq(frames, 1, n)
  OBVIOUS
<1>14. t \in Seq(Frame) /\ Outer(t, frames, n)
  BY <1>1, <1>5, <1>13, StackPop DEF Outer
<1>15. Pays(t, Base(c)) /\ Used(f) = Base(c) - Base(f)
  <2>1. Pays(t, Base(frames[n + 1]))
    BY <1>1, <1>5, <1>14, PaysPop
  <2>2. frames[n + 1] = Top
    BY <1>1, <1>5
  <2>3. Pays(t, Base(c))
    BY <1>2, <2>1, <2>2
  <2>4. t[Len(t)] = f
    BY <1>5, <1>6, <1>14 DEF Outer
  <2> QED
    BY <2>3, <2>4 DEF Pays
<1>16. Base(c) \in Nat /\ Base(f) \in Nat /\ Used(f) \in Int /\ Used(c) \in Int
  BY <1>2, <1>7, BaseFacts
<1>17. CASE n = 1
  <2>1. /\ result' = TopLevelAfter(f, r, outcome) /\ phase' = "done" /\ frames' = t
    BY <1>4, <1>6, <1>8, <1>13, <1>17 DEF CloseFrame
  <2>2. f = frames[1] /\ frames'[1] = f
    BY <1>6, <1>14, <1>17, <2>1 DEF Outer
  <2>3. Base(f) = 0 /\ BottomOK(f)
    <3>1. BottomOK(f)
      BY <1>1, <2>2
    <3> QED
      BY <3>1, NoGrowth DEF BottomOK, Base
  <2>4. /\ f.msg_state_gas \in Nat /\ f.left \in Nat /\ f.spilled \in Nat
        /\ r.left \in Nat /\ r.spilled \in Nat /\ c.msg_state_gas = f.left
    BY <1>7, <1>9 DEF Frame, CallerOf, Ledger
  <2>5. f.msg_state_gas - result'.left + result'.spilled = later
    <3>1. CASE outcome = "success"
      <4>1. result'.left = r.left /\ result'.spilled = r.spilled + f.spilled
        BY <2>1, <3>1 DEF TopLevelAfter
      <4>2. Used(f) = f.msg_state_gas - f.left + f.spilled
        BY DEF Used
      <4>3. Used(c) = later - Base(c)
        BY <1>12, <3>1 DEF Settled
      <4>4. f.left - r.left + r.spilled = Used(c)
        BY <1>10, <2>4, <3>1
      <4> QED
        BY <1>12, <1>15, <1>16, <2>3, <2>4, <4>1, <4>2, <4>3, <4>4
    <3>2. CASE outcome # "success"
      <4>1. /\ result'.left = auth_state_gas.left
            /\ result'.spilled = auth_state_gas.spilled
        BY <2>1, <3>2 DEF TopLevelAfter
      <4>2. AuthPays(f, auth_state_gas, frames[2].saved)
        BY <1>1, <2>2 DEF PayInv
      <4>3. frames[2].saved = c.saved
        BY <1>1, <1>2, <1>5, <1>17 DEF SameCall
      <4>4. later = Growth(c.saved.storage, c.saved.created, c.saved.deposit)
        BY <1>12, <3>2 DEF Settled
      <4> QED
        BY <4>1, <4>2, <4>3, <4>4 DEF AuthPays
    <3> QED
      BY <3>1, <3>2
  <2>6. StateGasPaysGrowth'
    BY <1>11, <2>2, <2>5 DEF StateGasPaysGrowth, WorldGrowth
  <2> QED
    BY <1>3, <2>1, <2>2, <2>3, <2>6 DEF PayInv
<1>18. CASE n # 1
  <2>1. PICK success \in BOOLEAN : success = (outcome = "success")
    OBVIOUS
  <2>2. PICK g : g = CallerAfter(f, c, r, success)
    OBVIOUS
  <2>3. g \in Frame /\ SameCall(g, f)
    BY <1>2, <1>7, <1>9, <2>2, CallerAfterFacts, Zenon
  <2>4. Used(g) = (Used(f) + (c.msg_state_gas - r.left + r.spilled))
                    - TakenBack(c, success)
    <3>1. Absorbed(g, f, c, r, success)
      BY <1>2, <1>7, <1>9, <2>2, UsedCallerAfter, Zenon
    <3> QED
      BY <3>1 DEF Absorbed
  <2>5. Used(g) - Used(f) = later - Base(c)
    <3>1. CASE outcome = "success"
      <4>1. Used(g) = Used(f) + Used(c)
        <5>1. TakenBack(c, success) = 0
          BY <2>1, <3>1, Zenon DEF TakenBack
        <5>2. Used(g) = (Used(f) + Used(c)) - 0
          BY <1>10, <2>4, <3>1, <5>1
        <5> QED
          BY <1>16, <5>2
      <4>2. Used(c) = later - Base(c)
        BY <1>12, <3>1 DEF Settled
      <4> QED
        BY <1>12, <1>16, <4>1, <4>2
    <3>2. CASE outcome # "success"
      <4>1. later = Growth(c.saved.storage, c.saved.created, c.saved.deposit)
        BY <1>12, <3>2 DEF Settled
      <4>2. Base(c) = later + (IF c.new_account THEN NEW_ACCOUNT_STATE_GAS ELSE 0)
        BY <4>1 DEF Base
      <4>3. NEW_ACCOUNT_STATE_GAS \in Nat
        BY CostAssumption
      <4>4. Used(g) = (Used(f) + 0) - (IF c.new_account THEN NEW_ACCOUNT_STATE_GAS ELSE 0)
        BY <1>10, <2>1, <2>4, <3>2 DEF TakenBack
      <4> HIDE <1>11
      <4> QED
        BY <1>12, <1>16, <4>2, <4>3, <4>4
    <3> QED
      BY <3>1, <3>2
  <2>6. /\ frames' = [t EXCEPT ![Len(t)] = g]
        /\ phase' = phase /\ result' = result /\ auth_state_gas' = auth_state_gas
    <3>1. Len(t) = n /\ t[n] = f
      BY <1>5, <1>6, <1>14 DEF Outer
    <3> QED
      BY <1>4, <1>8, <1>13, <1>18, <2>1, <2>2, <3>1 DEF CloseFrame
  <2>7. Len(t) = n /\ Len(t) > 0 /\ t[Len(t)] = f
    BY <1>5, <1>6, <1>14 DEF Outer
  <2>8. TopReplaced(frames', t, g)
    BY <1>14, <2>3, <2>6, <2>7, ExceptTop
  <2>9. Pays(frames', later)
    <3>1. PICK u : u = frames'
      OBVIOUS
    <3>2. TopReplaced(u, t, g) /\ SameCall(g, t[Len(t)]) /\ Base(c) \in Int
          /\ Used(g) - Used(t[Len(t)]) = later - Base(c)
      BY <1>16, <2>3, <2>5, <2>7, <2>8, <3>1
    <3>3. Pays(u, later)
      BY <1>12, <1>14, <1>15, <2>3, <2>7, <3>2, PaysReplaceTop
    <3> QED
      BY <3>1, <3>3
  <2>10. frames'[1] = frames[1] /\ frames'[2].saved = frames[2].saved
    <3>1. n >= 2 /\ 1 \in 1..n /\ 2 \in 1..n
      BY <1>5, <1>18
    <3>2. t[1] = frames[1] /\ t[2] = frames[2]
      BY <1>14, <3>1 DEF Outer
    <3>3. frames'[1] = t[1]
      BY <2>7, <2>8, <3>1 DEF TopReplaced
    <3>4. frames'[2] = t[2] \/ (frames'[2] = g /\ SameCall(g, t[2]))
      BY <2>3, <2>7, <2>8, <3>1 DEF TopReplaced
    <3> QED
      BY <3>2, <3>3, <3>4 DEF SameCall
  <2>11. BottomOK(frames'[1]) /\ AuthPays(frames'[1], auth_state_gas', frames'[2].saved)
    <3>1. AuthPays(frames[1], auth_state_gas, frames[2].saved)
      BY <1>1 DEF PayInv
    <3> QED
      BY <1>1, <2>6, <2>10, <3>1
  <2>12. StateGasPaysGrowth'
    BY <1>1, <2>6 DEF StateGasPaysGrowth
  <2> QED
    BY <1>1, <1>3, <1>11, <2>6, <2>9, <2>11, <2>12 DEF PayInv
<1> QED
  BY <1>17, <1>18

-----------------------------------------------------------------------------
(* The steps. *)

\* The price of the account that a step creates.
AccountPrice(new) == IF new THEN NEW_ACCOUNT_STATE_GAS ELSE 0

(* The created accounts grow by the new account, if there is one.          *)
LEMMA GrowthOfNew ==
    ASSUME NEW st \in [Slot -> 0..1], NEW cr \in SUBSET Target, NEW dep \in Nat,
           NEW a \in Target, NEW new \in BOOLEAN, new => a \notin cr
    PROVE  Growth(st, IF new THEN cr \cup {a} ELSE cr, dep)
             = Growth(st, cr, dep) + AccountPrice(new)
<1>1. CASE new
  BY <1>1, GrowthOfAccount DEF AccountPrice
<1>2. CASE ~new
  <2>1. Growth(st, cr, dep) \in Int
    BY GrowthType
  <2> QED
    BY <1>2, <2>1 DEF AccountPrice
<1> QED
  BY <1>1, <1>2

(* The caller has used the price of the new account.                       *)
LEMMA UsedForNew ==
    ASSUME NEW f \in Frame, NEW new \in BOOLEAN,
           new => CanCharge(f, NEW_ACCOUNT_STATE_GAS)
    PROVE  Used(IF new THEN Charge(f, NEW_ACCOUNT_STATE_GAS) ELSE f)
             = Used(f) + AccountPrice(new)
<1>1. CASE new
  BY <1>1, UsedCharge, CostAssumption DEF AccountPrice
<1>2. CASE ~new
  <2>1. Used(f) \in Int
    BY BaseFacts
  <2> QED
    BY <1>2, <2>1 DEF AccountPrice
<1> QED
  BY <1>1, <1>2

(* A new frame owes nothing, and knows of the account it was charged for.  *)
LEMMA NewFramePays ==
    ASSUME WorldOK, NEW kind, NEW gas, NEW left \in Nat, NEW new \in BOOLEAN,
           NEW d, d = NewFrame(kind, gas, left, new)
    PROVE  Used(d) = 0 /\ Base(d) = WorldGrowth + AccountPrice(new)
<1>1. d.left = left /\ d.spilled = 0 /\ d.msg_state_gas = left /\ d.new_account = new
      /\ d.saved = [storage |-> storage, created |-> created, deposit |-> deposit]
  BY DEF NewFrame
<1> QED
  BY <1>1 DEF Used, Base, WorldGrowth, AccountPrice

(* An account that does not exist has not been created.                    *)
LEMMA NotCreated ==
    ASSUME NEW a, ~AccountExists(a)
    PROVE  a \notin created
  BY DEF AccountExists

LEMMA BeginPays ==
    ASSUME PayInv, NEW limits \in GasLimits, Begin(limits)
    PROVE  PayInv'
<1>1. IndInv /\ IndInv'
  BY BeginStep DEF PayInv
<1>2. /\ phase = "start" /\ storage = Original /\ created = {} /\ deposit = 0
      /\ frames' = <<NewFrame("TX", limits[1], limits[2], FALSE)>>
      /\ phase' = "auth" /\ UNCHANGED <<storage, created, deposit>>
  BY DEF Begin, PayInv
<1>3. PICK f : f = NewFrame("TX", limits[1], limits[2], FALSE)
  OBVIOUS
<1>4. WorldOK /\ limits[2] \in Nat
  BY <1>1, CostAssumption DEF IndInv, TypeOK, WorldOK
<1>5. Used(f) = 0 /\ Base(f) = WorldGrowth + AccountPrice(FALSE)
  BY <1>3, <1>4, NewFramePays
<1>6. WorldGrowth = 0 /\ WorldGrowth' = 0
  BY <1>2, NoGrowth DEF WorldGrowth
<1>7. BottomOK(f)
  BY <1>2, <1>3 DEF BottomOK, NewFrame
<1>8. Len(frames') = 1 /\ frames'[1] = f
  BY <1>2, <1>3
<1>9. Base(f) = 0
  BY <1>5, <1>6 DEF AccountPrice
<1>10. Pays(frames', WorldGrowth')
  <2>1. \A i \in 1..(Len(frames') - 1) : FALSE
    BY <1>8
  <2>2. Used(frames'[Len(frames')]) = 0 /\ Base(frames'[Len(frames')]) = 0
    BY <1>5, <1>8, <1>9
  <2> QED
    BY <1>6, <2>1, <2>2 DEF Pays
<1>11. StateGasPaysGrowth'
  BY <1>2 DEF StateGasPaysGrowth
<1> QED
  BY <1>1, <1>2, <1>7, <1>8, <1>10, <1>11 DEF PayInv

LEMMA AuthorizePays ==
    ASSUME PayInv, NEW a \in Target, NEW writes \in BOOLEAN, NEW delegates \in BOOLEAN,
           Authorize(a, writes, delegates)
    PROVE  PayInv'
<1>1. phase = "auth" /\ Top \in Frame /\ FrameOK(Top) /\ WorldOK /\ WorldGrowth \in Int
  BY ActiveFacts DEF Authorize
<1>2. PICK paid : paid = IF writes THEN ACCOUNT_WRITE ELSE 0
  OBVIOUS
<1>3. PICK size : size = IF delegates THEN AUTHORIZATION_STATE_GAS ELSE 0
  OBVIOUS
<1>4. PICK new \in BOOLEAN : new = ~AccountExists(a)
  OBVIOUS
<1>5. PICK cost : cost = size + AccountPrice(new)
  OBVIOUS
<1>6. /\ paid \in Nat /\ size \in Nat /\ cost \in Nat /\ AccountPrice(new) \in Nat
  BY <1>2, <1>3, <1>5, CostAssumption DEF AccountPrice
<1>7. PICK f : f = Pay(Top, paid)
  OBVIOUS
<1>8. /\ f.gas >= 0 /\ CanCharge(f, cost) /\ SetTop(Charge(f, cost))
      /\ deposit' = deposit + size
      /\ created' = IF new THEN created \cup {a} ELSE created
      /\ UNCHANGED <<storage, phase, result, auth_state_gas>>
  BY <1>2, <1>3, <1>4, <1>5, <1>7 DEF Authorize, AccountPrice
<1>9. f.gas = Top.gas - paid /\ Top.gas \in Nat
  BY <1>1, <1>7 DEF Pay, WithGas, Frame
<1>10. Evolves(f, Top)
  BY <1>1, <1>6, <1>7, <1>8, <1>9, PayEvolves
<1>11. Evolves(Charge(f, cost), Top)
  BY <1>6, <1>8, <1>10, ChargeEvolves, EvolvesChain DEF Evolves
<1>12. WorldOK'
  BY <1>1, <1>6, <1>8 DEF WorldOK
<1>13. Used(Charge(f, cost)) = Used(Top) + cost
  BY <1>1, <1>6, <1>7, <1>8, <1>10, UsedPay, UsedCharge DEF Evolves
<1>14. WorldGrowth' = (WorldGrowth + AccountPrice(new)) + size
  <2>1. PICK cr : cr = IF new THEN created \cup {a} ELSE created
    OBVIOUS
  <2>2. cr \in SUBSET Target /\ WorldGrowth' = Growth(storage, cr, deposit + size)
    BY <1>1, <1>8, <2>1 DEF WorldOK, WorldGrowth
  <2>3. Growth(storage, cr, deposit + size) = Growth(storage, cr, deposit) + size
    BY <1>1, <1>6, <2>2, GrowthOfDeposit DEF WorldOK
  <2>4. Growth(storage, cr, deposit) = WorldGrowth + AccountPrice(new)
    <3>1. new => a \notin created
      BY <1>4, NotCreated
    <3> QED
      BY <1>1, <2>1, <3>1, GrowthOfNew DEF WorldOK, WorldGrowth
  <2> QED
    BY <2>2, <2>3, <2>4
<1>15. Used(Charge(f, cost)) - Used(Top) = WorldGrowth' - WorldGrowth
  <2>1. Used(Top) \in Int
    BY <1>1, BaseFacts
  <2>2. PICK now : now = WorldGrowth'
    OBVIOUS
  <2>3. now = (WorldGrowth + AccountPrice(new)) + size
    BY <1>14, <2>2
  <2>4. Used(Charge(f, cost)) - Used(Top) = now - WorldGrowth
    BY <1>1, <1>5, <1>6, <1>13, <2>1, <2>3
  <2> QED
    BY <2>2, <2>4
<1> QED
  BY <1>1, <1>8, <1>11, <1>12, <1>15, KeepPays

LEMMA TopCallPays ==
    ASSUME PayInv, NEW kind \in {"CALL", "CREATE"}, NEW a \in Target,
           NEW creates \in BOOLEAN, NEW access \in Costs \cup {0},
           TopCall(kind, a, creates, access)
    PROVE  PayInv'
<1>1. /\ phase = "auth" /\ Top \in Frame /\ WorldOK /\ WorldGrowth \in Int
      /\ Top = frames[1] /\ BottomOK(Top) /\ Used(Top) = WorldGrowth - Base(Top)
      /\ IndInv /\ storage = Original
  <2>1. phase = "auth"
    BY DEF TopCall
  <2>2. Len(frames) = 1
    BY <2>1 DEF PayInv, IndInv, PhaseOK
  <2> QED
    BY <2>1, <2>2, ActiveFacts DEF PayInv
<1>2. PICK new \in BOOLEAN : new = (creates /\ ~AccountExists(a))
  OBVIOUS
<1>3. PICK f1 : f1 = Pay(Top, access)
  OBVIOUS
<1>4. PICK f2 : f2 = IF new THEN Charge(f1, NEW_ACCOUNT_STATE_GAS) ELSE f1
  OBVIOUS
<1>5. PICK d : d = NewFrame(kind, f2.gas, f2.left, new)
  OBVIOUS
<1>6. /\ f1.gas >= 0 /\ (new => CanCharge(f1, NEW_ACCOUNT_STATE_GAS))
      /\ auth_state_gas' = [left |-> Top.left, spilled |-> Top.spilled]
      /\ frames' = <<f2, d>> /\ phase' = "run"
      /\ storage' = storage /\ deposit' = deposit
      /\ created' = IF new THEN created \cup {a} ELSE created
  BY <1>2, <1>3, <1>4, <1>5 DEF TopCall
<1>7. IndInv'
  BY <1>1, TopCallStep
<1>8. Top.gas \in Nat /\ f1.gas = Top.gas - access /\ access \in Nat /\ FrameOK(Top)
  BY <1>1, <1>3, CostAssumption, FrameFacts DEF Pay, WithGas, Frame
<1>9. Evolves(f1, Top)
  BY <1>1, <1>3, <1>6, <1>8, PayEvolves
<1>10. f1 \in Frame /\ SameCall(f1, Top) /\ Used(f1) = Used(Top)
  BY <1>1, <1>3, <1>9, UsedPay DEF Evolves
<1>11. f2 \in Frame /\ SameCall(f2, f1)
  <2>1. new => Charge(f1, NEW_ACCOUNT_STATE_GAS) \in Frame
               /\ SameCall(Charge(f1, NEW_ACCOUNT_STATE_GAS), f1)
    BY <1>6, <1>10, CostAssumption, ChargeFacts
  <2>2. SameCall(f1, f1)
    BY DEF SameCall
  <2> QED
    BY <1>4, <1>10, <2>1, <2>2
<1>12. Used(f2) = Used(Top) + AccountPrice(new)
  BY <1>4, <1>6, <1>10, UsedForNew
<1>13. BottomOK(f2) /\ Base(f2) = Base(Top) /\ f2.msg_state_gas = Top.msg_state_gas
  <2>1. SameCall(f2, Top)
    BY <1>10, <1>11 DEF SameCall
  <2> QED
    BY <1>1, <2>1, BaseSame DEF BottomOK, SameCall
<1>14. Base(Top) = 0
  BY <1>1, NoGrowth DEF BottomOK, Base
<1>15. Used(d) = 0 /\ Base(d) = WorldGrowth + AccountPrice(new)
  <2>1. f2.left \in Nat
    BY <1>11 DEF Frame
  <2> QED
    BY <1>1, <1>5, <2>1, NewFramePays
<1>16. WorldGrowth' = WorldGrowth + AccountPrice(new)
  <2>1. new => a \notin created
    BY <1>2, NotCreated
  <2> QED
    BY <1>1, <1>6, <2>1, GrowthOfNew DEF WorldOK, WorldGrowth
<1>17. Len(frames') = 2 /\ frames'[1] = f2 /\ frames'[2] = d
  BY <1>6
<1>18. Pays(frames', WorldGrowth')
  <2>0. AccountPrice(new) \in Nat
    BY CostAssumption DEF AccountPrice
  <2>1. PICK now : now = WorldGrowth'
    OBVIOUS
  <2>2. now = WorldGrowth + AccountPrice(new)
    BY <1>16, <2>1
  <2>3. Used(f2) = Base(d) - Base(f2)
    BY <1>1, <1>12, <1>13, <1>14, <1>15, <2>0
  <2>4. Used(d) = now - Base(d)
    BY <1>1, <1>15, <2>0, <2>2
  <2>5. \A i \in 1..(Len(frames') - 1) : i = 1
    BY <1>17
  <2>6. \A i \in 1..(Len(frames') - 1) :
            Used(frames'[i]) = Base(frames'[i + 1]) - Base(frames'[i])
    BY <1>17, <2>3, <2>5
  <2>7. Used(frames'[Len(frames')]) = now - Base(frames'[Len(frames')])
    BY <1>17, <2>4
  <2> QED
    BY <2>1, <2>6, <2>7 DEF Pays
<1>19. AuthPays(frames'[1], auth_state_gas', frames'[2].saved)
  <2>1. d.saved = [storage |-> storage, created |-> created, deposit |-> deposit]
    BY <1>5 DEF NewFrame
  <2>2. Growth(d.saved.storage, d.saved.created, d.saved.deposit) = WorldGrowth
    BY <2>1 DEF WorldGrowth
  <2>3. Used(Top) = WorldGrowth
    BY <1>1, <1>14
  <2>4. auth_state_gas'.left = Top.left /\ auth_state_gas'.spilled = Top.spilled
    BY <1>6
  <2> QED
    BY <1>13, <1>17, <2>2, <2>3, <2>4 DEF AuthPays, Used
<1>20. StateGasPaysGrowth'
  BY <1>6 DEF StateGasPaysGrowth
<1> QED
  BY <1>6, <1>7, <1>13, <1>17, <1>18, <1>19, <1>20 DEF PayInv

LEMMA TopLevelOutOfGasPays ==
    ASSUME PayInv, TopLevelOutOfGas
    PROVE  PayInv'
<1>1. /\ phase = "auth" /\ Top \in Frame /\ Top = frames[1] /\ BottomOK(Top)
      /\ IndInv /\ storage = Original
  <2>1. phase = "auth"
    BY DEF TopLevelOutOfGas
  <2>2. Len(frames) = 1
    BY <2>1 DEF PayInv, IndInv, PhaseOK
  <2> QED
    BY <2>1, <2>2, ActiveFacts DEF PayInv
<1>2. /\ phase' = "done" /\ frames' = frames /\ storage' = storage
      /\ result' = [gas |-> 0, left |-> Top.msg_state_gas, spilled |-> 0]
      /\ created' = Top.saved.created /\ deposit' = Top.saved.deposit
  BY DEF TopLevelOutOfGas
<1>3. IndInv'
  BY <1>1, TopLevelOutOfGasStep
<1>4. Growth(storage, created, deposit)' = 0
  BY <1>1, <1>2, NoGrowth DEF BottomOK
<1>5. frames'[1].msg_state_gas - result'.left + result'.spilled = 0
  <2>1. Top.msg_state_gas \in Nat
    BY <1>1 DEF Frame
  <2> QED
    BY <1>1, <1>2, <2>1
<1>6. StateGasPaysGrowth'
  BY <1>4, <1>5 DEF StateGasPaysGrowth
<1> QED
  BY <1>1, <1>2, <1>3, <1>6 DEF PayInv

LEMMA SpendPays ==
    ASSUME PayInv, NEW cost \in Costs, Spend(cost)
    PROVE  PayInv'
<1>1. /\ Running /\ cost <= Top.gas /\ SetTop(Pay(Top, cost))
      /\ UNCHANGED <<storage, created, deposit, phase, result, auth_state_gas>>
  BY DEF Spend
<1>2. Top \in Frame /\ FrameOK(Top) /\ WorldOK /\ WorldGrowth \in Int /\ phase # "auth"
  BY <1>1, ActiveFacts DEF Running
<1>3. Evolves(Pay(Top, cost), Top) /\ Used(Pay(Top, cost)) = Used(Top)
  BY <1>1, <1>2, PayEvolves, UsedPay, CostAssumption
<1>4. WorldOK' /\ WorldGrowth' = WorldGrowth
  BY <1>1, <1>2 DEF WorldOK, WorldGrowth
<1>5. Used(Pay(Top, cost)) - Used(Top) = WorldGrowth' - WorldGrowth
  <2>1. Used(Top) \in Int
    BY <1>2, BaseFacts
  <2> QED
    BY <1>2, <1>3, <1>4, <2>1
<1> QED
  BY <1>1, <1>2, <1>3, <1>4, <1>5, KeepPays

(* A write to storage: the frame pays for the slot, or is paid back.       *)
LEMMA SStorePays ==
    ASSUME PayInv, NEW s \in Slot, NEW v \in 0..1, SStore(s, v)
    PROVE  PayInv'
<1>1. /\ Running /\ storage' = [storage EXCEPT ![s] = v]
      /\ UNCHANGED <<created, deposit, phase, result, auth_state_gas>>
  BY DEF SStore
<1>2. /\ Top \in Frame /\ FrameOK(Top) /\ STORAGE_SET_STATE_GAS \in Nat
      /\ WorldOK /\ WorldGrowth \in Int /\ phase # "auth" /\ Used(Top) \in Int
  BY <1>1, ActiveFacts, BaseFacts, CostAssumption DEF Running
<1>3. WorldOK' /\ storage[s] \in 0..1
  BY <1>1, <1>2 DEF WorldOK
<1>4. PICK now : now = WorldGrowth'
  OBVIOUS
<1>5. now = Growth([storage EXCEPT ![s] = v], created, deposit)
  BY <1>1, <1>4 DEF WorldGrowth
<1>6. [storage EXCEPT ![s] = v] \in [Slot -> 0..1]
  BY <1>2 DEF WorldOK
<1>7. PICK c : SetTop(c) /\ Evolves(c, Top) /\ Used(c) - Used(Top) = now - WorldGrowth
  <2>1. CASE Original[s] = 0 /\ storage[s] = 0 /\ v # 0
    <3>1. /\ CanCharge(Top, STORAGE_SET_STATE_GAS)
          /\ SetTop(Charge(Top, STORAGE_SET_STATE_GAS))
      BY <2>1 DEF SStore
    <3>2. Raised(storage, [storage EXCEPT ![s] = v], s)
      BY <1>2, <1>3, <2>1, RaisedBy DEF WorldOK
    <3>3. now = WorldGrowth + STORAGE_SET_STATE_GAS
      BY <1>2, <1>5, <1>6, <3>2, GrowthOfSlot DEF WorldOK, WorldGrowth
    <3>4. Used(Charge(Top, STORAGE_SET_STATE_GAS)) = Used(Top) + STORAGE_SET_STATE_GAS
      BY <1>2, <3>1, UsedCharge
    <3>5. Used(Charge(Top, STORAGE_SET_STATE_GAS)) - Used(Top) = now - WorldGrowth
      BY <1>2, <3>3, <3>4
    <3> QED
      BY <1>2, <3>1, <3>5, ChargeEvolves
  <2>2. CASE Original[s] = 0 /\ storage[s] # 0 /\ v = 0
    <3>1. SetTop(Refill(Top, STORAGE_SET_STATE_GAS))
      BY <2>2 DEF SStore
    <3>2. Raised([storage EXCEPT ![s] = v], storage, s)
      BY <1>2, <1>3, <2>2, RaisedBy DEF WorldOK
    <3>3. WorldGrowth = now + STORAGE_SET_STATE_GAS
      BY <1>2, <1>5, <1>6, <3>2, GrowthOfSlot DEF WorldOK, WorldGrowth
    <3>4. Used(Refill(Top, STORAGE_SET_STATE_GAS)) = Used(Top) - STORAGE_SET_STATE_GAS
      BY <1>2, UsedRefill
    <3>5. now \in Int
      BY <1>5, <1>6, <1>2, GrowthType DEF WorldOK
    <3>6. Used(Refill(Top, STORAGE_SET_STATE_GAS)) - Used(Top) = now - WorldGrowth
      BY <1>2, <3>3, <3>4, <3>5
    <3> QED
      BY <1>2, <3>1, <3>6, RefillEvolves
  <2>3. CASE Original[s] # 0 \/ (storage[s] = 0 <=> v = 0)
    <3>1. SetTop(Top)
      BY <1>3, <2>3 DEF SStore
    <3>2. now = WorldGrowth
      <4>1. Unpaid([storage EXCEPT ![s] = v], storage)
        BY <1>2, <2>3, GrowthUnmoved DEF WorldOK
      <4> QED
        BY <1>5, <4>1, GrowthOfUnpaid DEF WorldGrowth
    <3>3. Evolves(Top, Top)
      BY <1>2 DEF Evolves, SameCall
    <3>4. Used(Top) - Used(Top) = now - WorldGrowth
      BY <1>2, <3>2
    <3> QED
      BY <3>1, <3>3, <3>4
  <2> QED
    BY <2>1, <2>2, <2>3
<1> QED
  BY <1>1, <1>2, <1>3, <1>4, <1>7, KeepPays

LEMMA AfterValueCostUsed ==
    ASSUME NEW f \in Frame, NEW value \in BOOLEAN
    PROVE  Used(AfterValueCost(f, value)) = Used(f)
  BY UsedPay DEF AfterValueCost

(* The caller's side of a call, in terms of the state gas used.            *)
LEMMA CallerSideUsed ==
    ASSUME NEW f \in Frame, FrameOK(f), NEW value \in BOOLEAN, NEW new \in BOOLEAN,
           NEW f1, f1 = AfterValueCost(f, value), f1.gas >= 0,
           new => CanCharge(f1, NEW_ACCOUNT_STATE_GAS),
           NEW f2, f2 = IF new THEN Charge(f1, NEW_ACCOUNT_STATE_GAS) ELSE f1,
           NEW stipend, stipend = IF value THEN CALL_STIPEND ELSE 0
    PROVE  Used(Pay(f2, -stipend)) = Used(f) + AccountPrice(new)
<1>1. f2 \in Frame
  BY CallerSide
<1>2. f1 \in Frame
  <2>1. CASE value
    <3>1. f1 = Pay(f, CALL_VALUE_COST)
      BY <2>1 DEF AfterValueCost
    <3>2. f.gas \in Nat /\ CALL_VALUE_COST \in Nat
      BY CostAssumption DEF Frame
    <3>3. f1.gas = f.gas - CALL_VALUE_COST
      BY <3>1 DEF Pay, WithGas, Frame
    <3>4. f.gas - CALL_VALUE_COST \in Nat
      BY <3>2, <3>3
    <3> QED
      BY <3>1, <3>2, <3>4, PayFacts DEF Updated
  <2>2. CASE ~value
    BY <2>2 DEF AfterValueCost
  <2> QED
    BY <2>1, <2>2
<1>3. Used(f2) = Used(f1) + AccountPrice(new)
  BY <1>2, UsedForNew
<1>4. Used(f1) = Used(f)
  BY AfterValueCostUsed
<1>5. Used(Pay(f2, -stipend)) = Used(f2)
  BY <1>1, UsedPay
<1> QED
  BY <1>3, <1>4, <1>5

LEMMA CallPays ==
    ASSUME PayInv, NEW g \in CallGas, NEW value \in BOOLEAN, NEW a \in Target,
           Call(g, value, a)
    PROVE  PayInv'
<1>1. PICK new \in BOOLEAN : new = (value /\ ~AccountExists(a))
  OBVIOUS
<1>2. PICK f1 : f1 = AfterValueCost(Top, value)
  OBVIOUS
<1>3. PICK f2 : f2 = IF new THEN Charge(f1, NEW_ACCOUNT_STATE_GAS) ELSE f1
  OBVIOUS
<1>4. PICK stipend : stipend = IF value THEN CALL_STIPEND ELSE 0
  OBVIOUS
<1>5. PICK gas : gas = MinGas(g, f2.gas - f2.gas \div GasFraction)
  OBVIOUS
<1>6. /\ Running /\ f1.gas >= 0 /\ (new => CanCharge(f1, NEW_ACCOUNT_STATE_GAS))
      /\ frames' = Append([frames EXCEPT ![Len(frames)] = Pay(f2, -stipend)],
                          NewFrame("CALL", gas + stipend, f2.left, new))
      /\ created' = IF new THEN created \cup {a} ELSE created
      /\ UNCHANGED <<storage, deposit, phase, result, auth_state_gas>>
  BY <1>1, <1>2, <1>3, <1>4, <1>5 DEF Call
<1>7. /\ Top \in Frame /\ FrameOK(Top) /\ IndInv /\ TypeOK /\ WorldOK
      /\ WorldGrowth \in Int
  BY <1>6, ActiveFacts DEF IndInv
<1>8. /\ f2 \in Frame /\ stipend \in Nat /\ Evolves(Pay(f2, -stipend), Top)
      /\ Pay(f2, -stipend).gas = f2.gas + stipend
      /\ Pay(f2, -stipend).left = f2.left
  BY <1>2, <1>3, <1>4, <1>6, <1>7, CallerSide
<1>9. f2.gas \in Nat /\ f2.left \in Nat /\ g \in Nat
  BY <1>8, CostAssumption DEF Frame
<1>10. gas \in Nat /\ gas <= f2.gas
  BY <1>5, <1>9, FractionFacts DEF MinGas
<1>11. PICK d : d = NewFrame("CALL", gas + stipend, f2.left, new)
  OBVIOUS
<1>12. /\ d \in Frame /\ FrameOK(d)
       /\ d.msg_gas = gas + stipend /\ d.msg_state_gas = f2.left
  <2>1. gas + stipend \in Nat
    BY <1>8, <1>10
  <2> QED
    BY <1>7, <1>9, <1>11, <2>1, NewFrameFacts
<1>13. CallerOf(Pay(f2, -stipend), d)
  BY <1>8, <1>9, <1>10, <1>12 DEF CallerOf
<1>14. WorldOK'
  BY <1>6, <1>7 DEF WorldOK
<1>15. WorldGrowth' = WorldGrowth + AccountPrice(new)
  <2>1. new => a \notin created
    BY <1>1, NotCreated
  <2> QED
    BY <1>6, <1>7, <2>1, GrowthOfNew DEF WorldOK, WorldGrowth
<1>16. Used(d) = 0 /\ Base(d) = WorldGrowth'
  BY <1>7, <1>9, <1>11, <1>15, NewFramePays
<1>17. Used(Pay(f2, -stipend)) - Used(Top) = WorldGrowth' - WorldGrowth
  <2>1. Used(Pay(f2, -stipend)) = Used(Top) + AccountPrice(new)
    BY <1>2, <1>3, <1>4, <1>6, <1>7, CallerSideUsed
  <2>2. AccountPrice(new) \in Nat /\ Used(Top) \in Int
    BY <1>7, BaseFacts, CostAssumption DEF AccountPrice
  <2>3. PICK now : now = WorldGrowth'
    OBVIOUS
  <2>4. now = WorldGrowth + AccountPrice(new)
    BY <1>15, <2>3
  <2>5. Used(Pay(f2, -stipend)) - Used(Top) = now - WorldGrowth
    BY <1>7, <2>1, <2>2, <2>4
  <2> QED
    BY <2>3, <2>5
<1>18. /\ frames' = Append([frames EXCEPT ![Len(frames)] = Pay(f2, -stipend)], d)
       /\ UNCHANGED <<phase, result, auth_state_gas>>
  BY <1>6, <1>11
<1> QED
  BY <1>6, <1>8, <1>12, <1>13, <1>14, <1>16, <1>17, <1>18, OpenPays

LEMMA CreatePays ==
    ASSUME PayInv, NEW a \in Target, Create(a)
    PROVE  PayInv'
<1>1. PICK new \in BOOLEAN : new = ~AccountExists(a)
  OBVIOUS
<1>2. PICK f : f = IF new THEN Charge(Top, NEW_ACCOUNT_STATE_GAS) ELSE Top
  OBVIOUS
<1>3. PICK gas : gas = f.gas - f.gas \div GasFraction
  OBVIOUS
<1>4. PICK d : d = NewFrame("CREATE", gas, f.left, new)
  OBVIOUS
<1>5. /\ Running /\ (new => CanCharge(Top, NEW_ACCOUNT_STATE_GAS))
      /\ frames' = Append([frames EXCEPT ![Len(frames)] = f], d)
      /\ created' = IF new THEN created \cup {a} ELSE created
      /\ UNCHANGED <<storage, deposit, phase, result, auth_state_gas>>
  BY <1>1, <1>2, <1>3, <1>4 DEF Create
<1>6. /\ Top \in Frame /\ FrameOK(Top) /\ IndInv /\ TypeOK /\ WorldOK
      /\ WorldGrowth \in Int
  BY <1>5, ActiveFacts DEF IndInv
<1>7. Evolves(f, Top)
  <2>1. new => Evolves(Charge(Top, NEW_ACCOUNT_STATE_GAS), Top)
    BY <1>5, <1>6, ChargeEvolves, CostAssumption
  <2>2. Evolves(Top, Top)
    BY <1>6 DEF Evolves, SameCall
  <2> QED
    BY <1>2, <2>1, <2>2
<1>8. f.gas \in Nat /\ f.left \in Nat
  BY <1>7 DEF Evolves, Frame
<1>9. gas \in Nat /\ gas <= f.gas
  BY <1>3, <1>8, FractionFacts
<1>10. /\ d \in Frame /\ FrameOK(d) /\ CallerOf(f, d)
  BY <1>4, <1>6, <1>8, <1>9, NewFrameFacts DEF CallerOf
<1>11. WorldOK'
  BY <1>5, <1>6 DEF WorldOK
<1>12. WorldGrowth' = WorldGrowth + AccountPrice(new)
  <2>1. new => a \notin created
    BY <1>1, NotCreated
  <2> QED
    BY <1>5, <1>6, <2>1, GrowthOfNew DEF WorldOK, WorldGrowth
<1>13. Used(d) = 0 /\ Base(d) = WorldGrowth'
  BY <1>4, <1>6, <1>8, <1>12, NewFramePays
<1>14. Used(f) - Used(Top) = WorldGrowth' - WorldGrowth
  <2>1. Used(f) = Used(Top) + AccountPrice(new)
    BY <1>2, <1>5, <1>6, UsedForNew
  <2>2. AccountPrice(new) \in Nat /\ Used(Top) \in Int
    BY <1>6, BaseFacts, CostAssumption DEF AccountPrice
  <2>3. PICK now : now = WorldGrowth'
    OBVIOUS
  <2>4. now = WorldGrowth + AccountPrice(new)
    BY <1>12, <2>3
  <2>5. Used(f) - Used(Top) = now - WorldGrowth
    BY <1>6, <2>1, <2>2, <2>4
  <2> QED
    BY <2>3, <2>5
<1> QED
  BY <1>5, <1>7, <1>10, <1>11, <1>13, <1>14, OpenPays

(* A call that is never made leaves the state and the bill alone.          *)
LEMMA CallLightFailurePays ==
    ASSUME PayInv, NEW a \in Target, CallLightFailure(a)
    PROVE  PayInv'
<1>1. PICK new \in BOOLEAN : new = ~AccountExists(a)
  OBVIOUS
<1>2. PICK f1 : f1 = AfterValueCost(Top, TRUE)
  OBVIOUS
<1>3. PICK f2 : f2 = IF new THEN Charge(f1, NEW_ACCOUNT_STATE_GAS) ELSE f1
  OBVIOUS
<1>4. PICK f3 : f3 = Pay(f2, -CALL_STIPEND)
  OBVIOUS
<1>5. PICK f4 : f4 = IF new THEN Refill(f3, NEW_ACCOUNT_STATE_GAS) ELSE f3
  OBVIOUS
<1>6. /\ Running /\ f1.gas >= 0 /\ (new => CanCharge(f1, NEW_ACCOUNT_STATE_GAS))
      /\ SetTop(f4)
      /\ UNCHANGED <<storage, created, deposit, phase, result, auth_state_gas>>
  BY <1>1, <1>2, <1>3, <1>4, <1>5 DEF CallLightFailure
<1>7. CALL_STIPEND = IF TRUE THEN CALL_STIPEND ELSE 0
  OBVIOUS
<1>8. /\ Top \in Frame /\ FrameOK(Top) /\ WorldOK /\ WorldGrowth \in Int
      /\ phase # "auth" /\ Used(Top) \in Int
  BY <1>6, ActiveFacts, BaseFacts DEF Running
<1>9. Evolves(f3, Top)
  BY <1>2, <1>3, <1>4, <1>6, <1>7, <1>8, CallerSide
<1>10. Used(f3) = Used(Top) + AccountPrice(new)
  <2>1. PICK value \in BOOLEAN : value = TRUE
    OBVIOUS
  <2>2. PICK stipend : stipend = IF value THEN CALL_STIPEND ELSE 0
    OBVIOUS
  <2>3. f1 = AfterValueCost(Top, value) /\ f3 = Pay(f2, -stipend)
    BY <1>2, <1>4, <2>1, <2>2
  <2>4. Used(Pay(f2, -stipend)) = Used(Top) + AccountPrice(new)
    BY <1>3, <1>6, <1>8, <2>2, <2>3, CallerSideUsed
  <2> QED
    BY <2>3, <2>4
<1>11. NEW_ACCOUNT_STATE_GAS \in Nat
  BY CostAssumption
<1>12. Evolves(f4, Top)
  <2>1. Evolves(Refill(f3, NEW_ACCOUNT_STATE_GAS), f3)
    BY <1>9, <1>11, RefillEvolves DEF Evolves
  <2> QED
    BY <1>5, <1>9, <2>1, EvolvesChain
<1>13. Used(f4) = Used(Top)
  <2>1. CASE new
    <3>1. Used(f4) = Used(f3) - NEW_ACCOUNT_STATE_GAS
      BY <1>5, <1>9, <1>11, <2>1, UsedRefill DEF Evolves
    <3>2. Used(f3) = Used(Top) + NEW_ACCOUNT_STATE_GAS
      BY <1>10, <2>1 DEF AccountPrice
    <3> QED
      BY <1>8, <1>11, <3>1, <3>2
  <2>2. CASE ~new
    BY <1>5, <1>8, <1>10, <2>2 DEF AccountPrice
  <2> QED
    BY <2>1, <2>2
<1>14. WorldOK' /\ WorldGrowth' = WorldGrowth
  BY <1>6, <1>8 DEF WorldOK, WorldGrowth
<1>15. Used(f4) - Used(Top) = WorldGrowth' - WorldGrowth
  BY <1>8, <1>13, <1>14
<1> QED
  BY <1>6, <1>8, <1>12, <1>14, <1>15, KeepPays

(* The new beneficiary is paid for by the frame that destructs itself.     *)
LEMMA SelfdestructToNewPays ==
    ASSUME PayInv, NEW a \in Target, SelfdestructToNew(a)
    PROVE  PayInv'
<1>1. PICK f : f = Pay(Top, ACCOUNT_WRITE)
  OBVIOUS
<1>2. PICK c : c = Charge(f, NEW_ACCOUNT_STATE_GAS)
  OBVIOUS
<1>3. /\ Running /\ f.gas >= 0 /\ CanCharge(f, NEW_ACCOUNT_STATE_GAS)
      /\ CloseFrame(c, "success") /\ ~AccountExists(a)
      /\ created' = created \cup {a} /\ UNCHANGED <<storage, deposit>>
  BY <1>1, <1>2 DEF SelfdestructToNew
<1>4. /\ Top \in Frame /\ FrameOK(Top) /\ WorldOK /\ WorldGrowth \in Int
      /\ Used(Top) = WorldGrowth - Base(Top) /\ Base(Top) \in Int
  BY <1>3, ActiveFacts, BaseFacts
<1>5. f.gas = Top.gas - ACCOUNT_WRITE /\ ACCOUNT_WRITE \in Nat /\ Top.gas \in Nat
      /\ NEW_ACCOUNT_STATE_GAS \in Nat
  BY <1>1, <1>4, CostAssumption DEF Pay, WithGas, Frame
<1>6. Evolves(f, Top) /\ Used(f) = Used(Top)
  BY <1>1, <1>3, <1>4, <1>5, PayEvolves, UsedPay
<1>7. Evolves(c, Top) /\ Used(c) = Used(Top) + NEW_ACCOUNT_STATE_GAS
  <2>1. Evolves(c, f) /\ Used(c) = Used(f) + NEW_ACCOUNT_STATE_GAS
    BY <1>2, <1>3, <1>5, <1>6, ChargeEvolves, UsedCharge DEF Evolves
  <2> QED
    BY <1>6, <2>1, EvolvesChain
<1>8. WorldOK'
  BY <1>3, <1>4 DEF WorldOK
<1>9. WorldGrowth' = WorldGrowth + NEW_ACCOUNT_STATE_GAS
  BY <1>3, <1>4, NotCreated, GrowthOfAccount DEF WorldOK, WorldGrowth
<1>10. Settled(c, "success", WorldGrowth')
  <2>1. Base(c) = Base(Top)
    BY <1>7, BaseSame DEF Evolves
  <2>2. PICK now : now = WorldGrowth'
    OBVIOUS
  <2>3. now = WorldGrowth + NEW_ACCOUNT_STATE_GAS
    BY <1>9, <2>2
  <2>4. Used(c) = now - Base(c)
    BY <1>4, <1>5, <1>7, <2>1, <2>3
  <2> QED
    BY <2>2, <2>4 DEF Settled
<1> QED
  BY <1>3, <1>7, <1>8, <1>10, ClosePays

(* The code that is deployed is paid for by the frame that deploys it.     *)
LEMMA DeployPays ==
    ASSUME PayInv, NEW cost \in Costs, NEW size \in CodeSizes, Deploy(cost, size)
    PROVE  PayInv'
<1>1. PICK f : f = Pay(Top, cost)
  OBVIOUS
<1>2. PICK c : c = Charge(f, size)
  OBVIOUS
<1>3. /\ Running /\ f.gas >= 0 /\ CanCharge(f, size) /\ CloseFrame(c, "success")
      /\ deposit' = deposit + size /\ UNCHANGED <<storage, created>>
  BY <1>1, <1>2 DEF Deploy
<1>4. /\ Top \in Frame /\ FrameOK(Top) /\ WorldOK /\ WorldGrowth \in Int
      /\ Used(Top) = WorldGrowth - Base(Top) /\ Base(Top) \in Int
  BY <1>3, ActiveFacts, BaseFacts
<1>5. f.gas = Top.gas - cost /\ cost \in Nat /\ Top.gas \in Nat /\ size \in Nat
  BY <1>1, <1>4, CostAssumption DEF Pay, WithGas, Frame
<1>6. Evolves(f, Top) /\ Used(f) = Used(Top)
  BY <1>1, <1>3, <1>4, <1>5, PayEvolves, UsedPay
<1>7. Evolves(c, Top) /\ Used(c) = Used(Top) + size
  <2>1. Evolves(c, f) /\ Used(c) = Used(f) + size
    BY <1>2, <1>3, <1>5, <1>6, ChargeEvolves, UsedCharge DEF Evolves
  <2> QED
    BY <1>6, <2>1, EvolvesChain
<1>8. WorldOK'
  BY <1>3, <1>4, <1>5 DEF WorldOK
<1>9. WorldGrowth' = WorldGrowth + size
  BY <1>3, <1>4, <1>5, GrowthOfDeposit DEF WorldOK, WorldGrowth
<1>10. Settled(c, "success", WorldGrowth')
  <2>1. Base(c) = Base(Top)
    BY <1>7, BaseSame DEF Evolves
  <2>2. PICK now : now = WorldGrowth'
    OBVIOUS
  <2>3. now = WorldGrowth + size
    BY <1>9, <2>2
  <2>4. Used(c) = now - Base(c)
    BY <1>4, <1>5, <1>7, <2>1, <2>3
  <2> QED
    BY <2>2, <2>4 DEF Settled
<1> QED
  BY <1>3, <1>7, <1>8, <1>10, ClosePays

LEMMA ReturnPays ==
    ASSUME PayInv, Return
    PROVE  PayInv'
<1>1. Running /\ CloseFrame(Top, "success") /\ UNCHANGED <<storage, created, deposit>>
  BY DEF Return
<1>2. /\ Top \in Frame /\ FrameOK(Top) /\ WorldOK /\ Used(Top) = WorldGrowth - Base(Top)
  BY <1>1, ActiveFacts
<1>3. Evolves(Top, Top)
  BY <1>2 DEF Evolves, SameCall
<1>4. WorldOK' /\ WorldGrowth' = WorldGrowth
  BY <1>1, <1>2 DEF WorldOK, WorldGrowth
<1>5. Settled(Top, "success", WorldGrowth')
  BY <1>2, <1>4 DEF Settled
<1> QED
  BY <1>1, <1>3, <1>4, <1>5, ClosePays

(* A failed frame leaves the state of its checkpoint.                      *)
LEMMA StopPays ==
    ASSUME PayInv, NEW outcome \in {"revert", "halt"}, Stop(outcome)
    PROVE  PayInv'
<1>1. /\ Running /\ CloseFrame(Top, outcome)
      /\ storage' = Top.saved.storage /\ created' = Top.saved.created
      /\ deposit' = Top.saved.deposit
  BY DEF Stop
<1>2. Top \in Frame /\ FrameOK(Top) /\ Top.saved \in Saved
  BY <1>1, ActiveFacts DEF Frame
<1>3. Evolves(Top, Top)
  BY <1>2 DEF Evolves, SameCall
<1>4. WorldOK'
  BY <1>1, <1>2 DEF Saved, WorldOK
<1>5. Settled(Top, outcome, WorldGrowth')
  BY <1>1 DEF Settled, WorldGrowth
<1> QED
  BY <1>1, <1>3, <1>4, <1>5, ClosePays

LEMMA StutterPays ==
    ASSUME PayInv, UNCHANGED vars
    PROVE  PayInv'
<1>1. IndInv'
  BY StutterStep DEF PayInv
<1> QED
  BY <1>1 DEF vars, PayInv, Pays, WorldGrowth, StateGasPaysGrowth, AuthPays, BottomOK

(* The strengthened invariant holds in every reachable state.              *)
THEOREM PayInvariance == Spec => []PayInv
<1>1. Init => PayInv
  <2> SUFFICES ASSUME Init
               PROVE  PayInv
    OBVIOUS
  <2>1. IndInv
    BY SetAssumption DEF Init, IndInv, TypeOK, GoodStack, PhaseOK, NoResult, Ledger
  <2> QED
    BY <2>1 DEF Init, PayInv, StateGasPaysGrowth
<1>2. PayInv /\ [Next]_vars => PayInv'
  <2> SUFFICES ASSUME PayInv, [Next]_vars
               PROVE  PayInv'
    OBVIOUS
  <2>1. ASSUME NEW limits \in GasLimits, Begin(limits) PROVE PayInv'
    BY <2>1, BeginPays
  <2>2. ASSUME NEW a \in Target, NEW writes \in BOOLEAN, NEW delegates \in BOOLEAN,
               Authorize(a, writes, delegates)
        PROVE  PayInv'
    BY <2>2, AuthorizePays
  <2>3. ASSUME NEW kind \in {"CALL", "CREATE"}, NEW a \in Target,
               NEW creates \in BOOLEAN, NEW access \in Costs \cup {0},
               TopCall(kind, a, creates, access)
        PROVE  PayInv'
    BY <2>3, TopCallPays
  <2>4. ASSUME NEW cost \in Costs, Spend(cost) PROVE PayInv'
    BY <2>4, SpendPays
  <2>5. ASSUME NEW s \in Slot, NEW v \in 0..1, SStore(s, v) PROVE PayInv'
    BY <2>5, SStorePays
  <2>6. ASSUME NEW g \in CallGas, NEW value \in BOOLEAN, NEW a \in Target,
               Call(g, value, a)
        PROVE  PayInv'
    BY <2>6, CallPays
  <2>7. ASSUME NEW a \in Target,
               CallLightFailure(a) \/ Create(a) \/ SelfdestructToNew(a)
        PROVE  PayInv'
    BY <2>7, CallLightFailurePays, CreatePays, SelfdestructToNewPays
  <2>8. ASSUME NEW cost \in Costs, NEW size \in CodeSizes, Deploy(cost, size)
        PROVE  PayInv'
    BY <2>8, DeployPays
  <2>9. ASSUME NEW outcome \in {"revert", "halt"}, Stop(outcome) PROVE PayInv'
    BY <2>9, StopPays
  <2>10. CASE TopLevelOutOfGas
    BY <2>10, TopLevelOutOfGasPays
  <2>11. CASE Return
    BY <2>11, ReturnPays
  <2>12. CASE Done \/ UNCHANGED vars
    BY <2>12, StutterPays DEF Done
  <2> QED
    BY <2>1, <2>2, <2>3, <2>4, <2>5, <2>6, <2>7, <2>8, <2>9, <2>10, <2>11, <2>12
    DEF Next
<1> QED
  BY <1>1, <1>2, PTL DEF Spec

(* Frame by frame, the state gas used is the price of the state growth.    *)
THEOREM FramesPay == Spec => []FramesPayGrowth
<1>1. PayInv => FramesPayGrowth
  <2> SUFFICES ASSUME PayInv, NEW i \in 1..Len(frames)
               PROVE  IF i < Len(frames)
                      THEN /\ Used(frames[i]) = Base(frames[i + 1]) - Base(frames[i])
                           /\ frames[i + 1].msg_state_gas = frames[i].left
                      ELSE phase \in {"auth", "run"} =>
                              Used(frames[i]) = WorldGrowth - Base(frames[i])
    BY DEF FramesPayGrowth, WorldGrowth
  <2>1. Len(frames) \in Nat /\ GoodStack(frames) /\ PhaseOK
    BY FrameFacts DEF PayInv, IndInv
  <2>2. CASE i < Len(frames)
    <3>1. i \in 1..(Len(frames) - 1)
      BY <2>1, <2>2
    <3>2. CallerOf(frames[i], frames[i + 1])
      BY <2>1, <3>1 DEF GoodStack
    <3>3. phase \in {"auth", "run"}
      <4>1. Len(frames) # 0 /\ Len(frames) # 1
        BY <2>1, <2>2
      <4>2. phase \in {"start", "auth", "run", "done"}
        BY DEF PayInv, IndInv, TypeOK
      <4> QED
        BY <2>1, <4>1, <4>2 DEF PhaseOK
    <3>4. Used(frames[i]) = Base(frames[i + 1]) - Base(frames[i])
      BY <3>1, <3>3 DEF PayInv, Pays
    <3> QED
      BY <2>2, <3>2, <3>4 DEF CallerOf
  <2>3. CASE ~(i < Len(frames))
    <3>1. i = Len(frames)
      BY <2>1, <2>3
    <3> QED
      BY <2>3, <3>1 DEF PayInv, Pays
  <2> QED
    BY <2>2, <2>3
<1> QED
  BY <1>1, PayInvariance, PTL

(* The state gas the transaction is billed for is exactly the price of the *)
(* state it leaves behind; transition() asserts it is not negative.        *)
THEOREM BillPaysGrowth == Spec => []StateGasPaysGrowth
<1>1. PayInv => StateGasPaysGrowth
  BY DEF PayInv
<1> QED
  BY <1>1, PayInvariance, PTL
=============================================================================
