------------------------------- MODULE EventFlag -------------------------------
(***************************************************************************)
(* The event flag of src/src/kernel/eventFlag.cpp (KernelEventFlagPrivate).*)
(*                                                                         *)
(* m_mutex is held except while a thread sleeps: a waiter on m_cond_var, a *)
(* caller that finds the flag cancelled or that drains the waiters in its  *)
(* 10 us naps.  So a call is a sequence of sections, each one action.      *)
(* A wait without a timeout looks again every 10 ms even if nobody signals *)
(* it (Common::CondVar::Wait polls); a timed one sleeps until it is        *)
(* signalled or its time is over.                                          *)
(***************************************************************************)
EXTENDS Integers, FiniteSets

CONSTANTS Threads,
          Bits, Patterns,     \* bits of a flag, the patterns the calls use
          MaxCalls            \* bound: calls begun

EventFlagAssumption ==
    /\ Patterns \subseteq (SUBSET Bits \ {{}})
    /\ MaxCalls \in Nat

VARIABLES single,     \* SCE_KERNEL_EVF_ATTR_SINGLE
          bits,       \* m_bits
          status,     \* m_status, "Freed" once the destructor is through
          thread,     \* the call each thread is in
          signalled,  \* sleeping threads that m_cond_var has signalled
          owed,       \* history: whom a Cancel or the destructor must release
          calls

flagVars == <<single, bits, status, thread, signalled, owed, calls>>

Idle == [pc |-> "idle", result |-> "none"]
Returned(result) == [Idle EXCEPT !.result = result]

Waits == [pc : {"sleep"}, pattern : Patterns, mode : {"And", "Or"},
          clear : {"None", "All", "Bits"}, timed : BOOLEAN, late : BOOLEAN]
Spins == [pc : {"spin"}, op : {"Set", "Clear", "Cancel", "Delete"}, pattern : Patterns]
Drains == [pc : {"drain"}, to : {"Set", "Freed"}]

Init ==
    /\ single \in BOOLEAN /\ bits \in SUBSET Bits /\ status = "Set"
    /\ thread = [t \in Threads |-> Idle]
    /\ signalled = {} /\ owed = {} /\ calls = 0

Sleeping == {t \in Threads : thread[t].pc = "sleep"}    \* m_waiting_threads
Calling(op) == \E t \in Threads : thread[t].pc = "spin" /\ thread[t].op = op

Met(w) == IF w.mode = "And" THEN w.pattern \subseteq bits ELSE w.pattern \cap bits # {}
Left(w) == CASE w.clear = "All" -> {} [] w.clear = "Bits" -> bits \ w.pattern
             [] OTHER -> bits

\* The head of the loop in Wait: met, then out of time, then asleep (again).
Looks(t, w) ==
    CASE Met(w) -> thread' = [thread EXCEPT ![t] = Returned("Ok")] /\ bits' = Left(w)
      [] ~Met(w) /\ w.late ->
           thread' = [thread EXCEPT ![t] = Returned("TimedOut")] /\ UNCHANGED bits
      [] OTHER -> thread' = [thread EXCEPT ![t] = w] /\ UNCHANGED bits

\* Guests do not begin calls on a flag that is being deleted, and do not delete
\* one that others set or cancel: such a call would never return.
MayBegin(t) ==
    /\ thread[t].pc = "idle" /\ calls < MaxCalls /\ calls' = calls + 1
    /\ status \in {"Set", "Canceled"} /\ ~Calling("Delete")

\* Wait, and Poll: a wait whose time is over at once.
Wait(t, w) ==
    /\ MayBegin(t) /\ (w.late => w.timed)
    /\ IF single /\ Sleeping # {}
       THEN thread' = [thread EXCEPT ![t] = Returned("AlreadyWaiting")] /\ UNCHANGED bits
       ELSE Looks(t, w)
    /\ UNCHANGED <<status, signalled, owed>>

\* A waiter gets m_mutex back: signalled, polling, or at the end of its time.
Wakes(t, late) ==
    LET w == thread[t]
    IN /\ w.pc = "sleep" /\ (late => w.timed)
       /\ t \in signalled \/ ~w.timed \/ late
       /\ signalled' = signalled \ {t}
       /\ IF status = "Set"
          THEN Looks(t, [w EXCEPT !.late = late]) /\ UNCHANGED owed
          ELSE /\ thread' = [thread EXCEPT ![t] = Returned(status)]
               /\ owed' = owed \ {t} /\ UNCHANGED bits
       /\ UNCHANGED <<status, calls>>

Begin(t, call) ==
    /\ MayBegin(t)
    /\ call.op = "Delete" => \A u \in Threads : thread[u].pc \in {"idle", "sleep"}
    /\ thread' = [thread EXCEPT ![t] = call]
    /\ UNCHANGED <<bits, status, signalled, owed>>

Signals_One == IF Sleeping = {} THEN {} ELSE {CHOOSE t \in Sleeping : TRUE}
Signals == Sleeping

\* Set, Clear, Cancel and the destructor, once the status is Set.
Proceeds(t) ==
    LET p == thread[t].pattern
    IN /\ thread[t].pc = "spin" /\ status = "Set"
       /\ \/ /\ thread[t].op = "Set"
             /\ bits' = bits \cup p /\ signalled' = signalled \cup Signals
             /\ thread' = [thread EXCEPT ![t] = Idle] /\ UNCHANGED <<status, owed>>
          \/ /\ thread[t].op = "Clear"
             /\ bits' = bits \cap p
             /\ thread' = [thread EXCEPT ![t] = Idle] /\ UNCHANGED <<status, signalled, owed>>
          \/ /\ thread[t].op = "Cancel"
             /\ status' = "Canceled" /\ bits' = p
             /\ signalled' = signalled \cup Signals /\ owed' = Sleeping
             /\ thread' = [thread EXCEPT ![t] = [pc |-> "drain", to |-> "Set"]]
          \/ /\ thread[t].op = "Delete"
             /\ status' = "Deleted"
             /\ signalled' = signalled \cup Signals /\ owed' = Sleeping
             /\ thread' = [thread EXCEPT ![t] = [pc |-> "drain", to |-> "Freed"]]
             /\ UNCHANGED bits
       /\ UNCHANGED calls

\* The second loop of Cancel and of the destructor.
After_Kept(to) == IF to = "Set" THEN "Canceled" ELSE to
After(to) == to
EndsDrain(t) ==
    /\ thread[t].pc = "drain" /\ Sleeping = {}
    /\ status' = After(thread[t].to)
    /\ thread' = [thread EXCEPT ![t] = Idle]
    /\ UNCHANGED <<bits, signalled, owed, calls>>

InCall(t) == (\E late \in BOOLEAN : Wakes(t, late)) \/ Proceeds(t) \/ EndsDrain(t)
Next ==
    /\ UNCHANGED single
    /\ \E t \in Threads :
          \/ \E w \in Waits : Wait(t, w)
          \/ \E call \in Spins : Begin(t, call)
          \/ InCall(t)

Fairness == \A t \in Threads : WF_flagVars(InCall(t) /\ UNCHANGED single)
Spec == Init /\ [][Next]_flagVars /\ Fairness
-----------------------------------------------------------------------------
\* No wakeup is lost: a thread that sleeps and has not been signalled sleeps for
\* bits that are not there, so a timed waiter never sleeps through a Set (Wait
\* tests, then sleeps, and Set, Cancel and the destructor signal all).
NoneOverlooked ==
    \A t \in Sleeping : status = "Set" /\ Met(thread[t]) => t \in signalled

\* Whoever sleeps when Cancel or the destructor strikes is told so, never that
\* its bits came or its time is over, and only then does the flag go on or is
\* freed: nobody is left inside a freed flag.
CancelReleases ==
    /\ owed \subseteq Sleeping
    /\ status \in {"Set", "Freed"} => owed = {}
    /\ status = "Freed" => Sleeping = {}

FlagSound == NoneOverlooked /\ CancelReleases

\* Every Set, Clear, Cancel and Delete returns, although they wait for each
\* other and for the waiters to leave: a wait that begins while a Cancel drains
\* was not signalled and holds all of them up until it polls or its time is over.
CallsEnd ==
    \A t \in Threads : thread[t].pc \in {"spin", "drain"} ~> thread[t].pc = "idle"
=============================================================================
