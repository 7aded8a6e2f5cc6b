---------------------------- MODULE NestedCalls ----------------------------
(***************************************************************************)
(* What the host promises its callers about nested calls: a call that      *)
(* fails leaves the world exactly as it was at the call's checkpoint, with *)
(* the one exception that a touch of the RIPEMD-160 precompile survives.   *)
(* The world is what a program, or the end of the transaction, can observe *)
(* of the accounts; this module says nothing of how it is restored.        *)
(***************************************************************************)
EXTENDS Integers, Sequences, Revision

CONSTANTS Addr, Rev, RIPEMD

VARIABLES
    world,    \* the observable state: a function from Addr to records
    log,      \* the logs emitted so far
    saved,    \* the worlds and logs at the checkpoints of the open calls
    status    \* the outcome of the call that returned last

avars == <<world, log, saved, status>>

TouchIsSticky == Rev >= SPURIOUS_DRAGON /\ Rev < PARIS

EmptyInWorld(w) == w.nonce = 0 /\ w.balance = 0 /\ w.has_code = FALSE

\* The world w with the RIPEMD-160 account touched.
TouchRipemd(w) ==
    IF EmptyInWorld(w[RIPEMD])
    THEN [w EXCEPT ![RIPEMD].exists = TRUE, ![RIPEMD].erase_if_empty = TRUE]
    ELSE w

\* What happens to the world between the caller's last step and the
\* checkpoint: the callee may be warmed, the creator's nonce is bumped.
\* Neither is undone when the call fails.
Prologue(w, warmed, creators) ==
    [a \in Addr |->
        [w[a] EXCEPT !.warm = @ \/ a \in warmed,
                     !.nonce = IF a \in creators THEN @ + 1 ELSE @]]

AInit == saved = << >> /\ status = "none" /\ log = << >>

\* Inside a call anything may happen to the world, but not to what is saved.
Work == saved # << >> /\ UNCHANGED <<saved, status>>

\* No call is open: the start and the end of a transaction.
Outside == saved = << >> /\ saved' = << >>

Enter ==
    /\ saved # << >>
    /\ \E warmed, creators \in {{}} \cup {{a} : a \in Addr} :
         saved' = Append(saved, [world |-> Prologue(world, warmed, creators),
                                 log |-> log])
    /\ UNCHANGED status

\* The first call of a transaction: its prologue is the transaction's own.
EnterTop ==
    /\ saved = << >>
    /\ Len(saved') = 1
    /\ status' = "none"

Succeed ==
    /\ saved # << >>
    /\ saved' = SubSeq(saved, 1, Len(saved) - 1)
    /\ status' = "success"

Fail ==
    /\ saved # << >>
    /\ LET cp == saved[Len(saved)]
       IN  /\ world' = cp.world \/ (TouchIsSticky /\ world' = TouchRipemd(cp.world))
           /\ log' = cp.log
    /\ saved' = SubSeq(saved, 1, Len(saved) - 1)
    /\ status' = "failure"

ANext == Outside \/ Work \/ Enter \/ EnterTop \/ Succeed \/ Fail

ASpec == AInit /\ [][ANext]_avars
=============================================================================
