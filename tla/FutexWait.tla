------------------------------- MODULE FutexWait -------------------------------
(***************************************************************************)
(* Waiting on an address on Linux: WaitLinux and WakeLinux of              *)
(* src/src/kernel/syncOnAddress.cpp over the host's futex.  The guest      *)
(* thread parks for slices of 10 ms (SIGNAL_POLL_MICROS) so that it can    *)
(* handle guest signals in between, and is in no queue of the host then.   *)
(* One address, whose word every waiter expects to be 0.                   *)
(***************************************************************************)
EXTENDS Integers, Sequences, SequencesExt

CONSTANTS Threads,
          Slices    \* bound: the slices a deadline leaves room for

VARIABLES word,      \* the guest's word: 0, or 1 once it is changed
          parked,    \* the host's queue of the futex, oldest first
          thread,    \* idle, reads the word, parked, woken, polls signals
          time,      \* slices left until the deadline
          result,
          missed     \* history: threads waiting, with time left, that a wake-all passed over

futexVars == <<word, parked, thread, time, result, missed>>

Init ==
    /\ word = 0 /\ parked = <<>> /\ missed = {}
    /\ thread = [t \in Threads |-> "idle"] /\ time = [t \in Threads |-> Slices]
    /\ result = [t \in Threads |-> "none"]

To(t, pc) == thread' = [thread EXCEPT ![t] = pc]
Returns(t, r) == To(t, "idle") /\ result' = [result EXCEPT ![t] = r]

WaitBegin(t) ==
    /\ thread[t] = "idle" /\ result[t] = "none" /\ To(t, "read")
    /\ UNCHANGED <<word, parked, time, result, missed>>

\* The top of the loop: the word, and the time that is left.
Reads(t) ==
    /\ thread[t] = "read"
    /\ IF word # 0 THEN Returns(t, "OK") ELSE To(t, "call") /\ UNCHANGED result
    /\ UNCHANGED <<word, parked, time, missed>>

\* FUTEX_WAIT compares the word and enqueues the thread in one step.
Parks(t) ==
    /\ thread[t] = "call"
    /\ IF word # 0 THEN Returns(t, "OK") /\ UNCHANGED parked
       ELSE To(t, "parked") /\ parked' = Append(parked, t) /\ UNCHANGED result
    /\ UNCHANGED <<word, time, missed>>

\* A slice ends (ETIMEDOUT, EINTR) and the thread leaves the host's queue.
SliceEnds(t) ==
    /\ thread[t] = "parked" /\ To(t, "polls") /\ parked' = Remove(parked, t)
    /\ time' = [time EXCEPT ![t] = @ - 1]
    /\ UNCHANGED <<word, result, missed>>

\* Signals were polled: the deadline may be over, or the next slice begins.
Polled(t) ==
    /\ thread[t] = "polls"
    /\ IF time[t] > 0 THEN To(t, "read") /\ UNCHANGED result
       ELSE Returns(t, IF word = 0 THEN "ETIMEDOUT" ELSE "OK")
    /\ UNCHANGED <<word, parked, time, missed>>

Woken(t) ==
    /\ thread[t] = "woken" /\ Returns(t, "OK")
    /\ UNCHANGED <<word, parked, time, missed>>

Store == word' = 1 - word /\ UNCHANGED <<parked, thread, time, result, missed>>

\* WakeLinux with at least as many as wait: a wake-all.
WakeAll ==
    /\ thread' = [t \in Threads |-> IF t \in Range(parked) THEN "woken" ELSE thread[t]]
    /\ parked' = <<>>
    /\ missed' = missed \cup {t \in Threads : thread[t] = "polls" /\ time[t] > 0}
    /\ UNCHANGED <<word, time, result>>

Next ==
    \/ Store \/ WakeAll
    \/ \E t \in Threads : WaitBegin(t) \/ Reads(t) \/ Parks(t) \/ SliceEnds(t) \/ Polled(t) \/ Woken(t)

Spec == Init /\ [][Next]_futexVars
-----------------------------------------------------------------------------
\* "explicitly woken waiters return success" (tests/SyncOnAddressTests.cpp): a
\* thread that has parked in Wait, and whose time is not over, when a wake-all is
\* called does not time out.
WokenReturnSuccess == \A t \in missed : result[t] # "ETIMEDOUT"
=============================================================================
