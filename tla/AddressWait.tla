------------------------------ MODULE AddressWait ------------------------------
(***************************************************************************)
(* What waiting on an address promises its guest threads, whichever way    *)
(* src/src/kernel/syncOnAddress.cpp provides it (kernel/syncOnAddress.h):  *)
(* a wake releases the threads that wait, the longest waiting first, and a *)
(* released thread returns OK.  A thread waits before it compares the word;*)
(* one that finds another value ends its wait.                             *)
(***************************************************************************)
EXTENDS Integers, SequencesExt

CONSTANTS Threads, Addresses, Values,
          Counts    \* threads that a wake releases at most

VARIABLES word,      \* the guest's words
          waiting,   \* the threads that wait on each address, oldest first
          released,  \* those of them that a wake has released
          result     \* what the last wait of each thread returned

waitVars == <<word, waiting, released, result>>

Init ==
    /\ word \in [Addresses -> Values]
    /\ waiting = [a \in Addresses |-> <<>>] /\ released = {}
    /\ result = [t \in Threads |-> "none"]

WaitsOn(t, a) == t \in ToSet(waiting[a])

Store(a, v) == word' = [word EXCEPT ![a] = v] /\ UNCHANGED <<waiting, released, result>>

Wait(t, a) ==
    /\ \A b \in Addresses : ~WaitsOn(t, b)
    /\ waiting' = [waiting EXCEPT ![a] = Append(@, t)]
    /\ result' = [result EXCEPT ![t] = "none"]
    /\ UNCHANGED <<word, released>>

\* The first n of the waiting threads that were not released before.
First(n, s) == IF n < Len(s) THEN SubSeq(s, 1, n) ELSE s
Wake(a, n) ==
    /\ released' = released \cup ToSet(First(n, SelectSeq(waiting[a], LAMBDA t : t \notin released)))
    /\ UNCHANGED <<word, waiting, result>>

\* A wait may end without a wake (the word was another, or changed), but a
\* thread that was released never reports a timeout.
Return(t, a, r) ==
    /\ WaitsOn(t, a) /\ r \in {"OK", "ETIMEDOUT"}
    /\ t \in released => r = "OK"
    /\ waiting' = [waiting EXCEPT ![a] = RemoveFirst(@, t)]
    /\ released' = released \ {t}
    /\ result' = [result EXCEPT ![t] = r]
    /\ UNCHANGED word

Next ==
    \E a \in Addresses :
       \/ \E v \in Values : Store(a, v)
       \/ \E n \in Counts : Wake(a, n)
       \/ \E t \in Threads : Wait(t, a) \/ \E r \in {"OK", "ETIMEDOUT"} : Return(t, a, r)

Spec == Init /\ [][Next]_waitVars
=============================================================================
