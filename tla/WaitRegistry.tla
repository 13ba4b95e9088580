------------------------------ MODULE WaitRegistry ------------------------------
(***************************************************************************)
(* The registry of suspended WAIT_REG_MEM packets                          *)
(* (src/src/graphics/guest_gpu/waitRegistry.cpp): the guest labels that    *)
(* submissions wait for, and a latch per waiter that a producer sets.      *)
(*                                                                         *)
(* Compare function, reference and mask of a waiter matter only through    *)
(* the label values that TestWaitRegMemValue accepts, so a waiter carries  *)
(* that set.  The operators map a set of waiters to the next one; the      *)
(* command processor of GuestGpu applies them.                             *)
(***************************************************************************)
EXTENDS Integers

CONSTANTS Labels,   \* guest addresses used as labels
          Values,   \* the values a label can hold
          NoValue   \* no producer wrote the label yet: produced_valid = false

WaitRegistryAssumption == NoValue \notin Values

VARIABLES memory,   \* guest memory at the labels
          waiters,  \* the registered waiters
          frame     \* m_frame_id

Waiter == [address : Labels, accepts : SUBSET Values, latched : BOOLEAN,
           last_produced : Values \cup {NoValue}, produced_frame : Nat]

\* The entry a wait for label a with condition c uses; equal waits of two
\* queues share it.
WaiterOf(ws, a, c) == {w \in ws : w.address = a /\ w.accepts = c}

NewWaiter(a, c) == [address |-> a, accepts |-> c, latched |-> FALSE,
                    last_produced |-> NoValue, produced_frame |-> frame]

\* Register: a re-poll finds its old entry and clears the latch.
AfterRegister(ws, a, c) ==
    LET old == WaiterOf(ws, a, c)
    IN  IF old = {} THEN ws \cup {NewWaiter(a, c)}
        ELSE (ws \ old) \cup {[w EXCEPT !.latched = FALSE] : w \in old}

\* CollectSatisfied returns and removes these, whoever waits for them.
Satisfied(ws) == {w \in ws : w.latched \/ memory[w.address] \in w.accepts}

\* RecordProduced: every waiter of the label notes the value, and the ones it
\* satisfies are latched.  The frame test compares produced_frame with the
\* frame it was just set to, so it never fails.
AfterProduced(ws, a, v) ==
    {IF w.address = a
       THEN [w EXCEPT !.last_produced = v, !.produced_frame = frame,
                      !.latched = @ \/ v \in w.accepts]
       ELSE w : w \in ws}

\* What CollectDeadlockBroken may return and remove, once old enough.
Breakable(ws) == {w \in ws : /\ ~w.latched
                             /\ w.last_produced \in w.accepts
                             /\ w.produced_frame = frame}
=============================================================================
