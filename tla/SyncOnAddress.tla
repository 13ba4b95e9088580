----------------------------- MODULE SyncOnAddress -----------------------------
(***************************************************************************)
(* Waiting on an address, src/src/kernel/syncOnAddress.cpp, in its         *)
(* portable form: a registry of entries, one for each address that is      *)
(* waited on, with a mutex each (PortableAddressRegistry).                 *)
(*                                                                         *)
(* A thread keeps the shared_ptr of its entry, which may no longer be the  *)
(* registry's; entries therefore have identities of their own.  Between    *)
(* two actions of this module a thread holds neither mutex.                *)
(***************************************************************************)
EXTENDS Integers, SequencesExt

CONSTANTS Threads, Addresses, Values,
          Entries, NoEntry,    \* objects that make_shared returns
          Counts,              \* threads that a wake releases at most
          MaxCalls             \* bound: waits begun

SyncOnAddressAssumption ==
    NoEntry \notin Entries /\ Counts \subseteq Nat \ {0} /\ MaxCalls \in Nat

VARIABLES word,       \* the guest's words
          registry,   \* registry.entries
          waiters,    \* of each entry, oldest first
          woken,      \* threads whose PortableWaiter has wake_requested
          thread,     \* the wait each thread is in
          result,     \* what its last wait returned
          calls

addressVars == <<word, registry, waiters, woken, thread, result, calls>>

Idle == [pc |-> "idle"]

Init ==
    /\ word \in [Addresses -> Values]
    /\ registry = [a \in Addresses |-> NoEntry]
    /\ waiters = [e \in Entries |-> <<>>] /\ woken = {}
    /\ thread = [t \in Threads |-> Idle]
    /\ result = [t \in Threads |-> "none"] /\ calls = 0

Held(e) ==   \* some thread has the entry's shared_ptr, or the registry has
    \/ \E a \in Addresses : registry[a] = e
    \/ \E t \in Threads : thread[t].pc # "idle" /\ thread[t].entry = e

Store(a, v) ==
    /\ word[a] # v /\ word' = [word EXCEPT ![a] = v]
    /\ UNCHANGED <<registry, waiters, woken, thread, result, calls>>

\* RegisterPortableWaiter: both mutexes, the entry's is kept for the comparison.
Register(t, a, expected, timed) ==
    /\ thread[t] = Idle /\ calls < MaxCalls /\ calls' = calls + 1
    /\ \E e \in Entries :
          /\ IF registry[a] = NoEntry THEN ~Held(e) ELSE registry[a] = e
          /\ registry' = [registry EXCEPT ![a] = e]
          /\ waiters' = [waiters EXCEPT ![e] = Append(@, t)]
          /\ thread' = [thread EXCEPT ![t] = [pc |-> "wait", addr |-> a, entry |-> e,
                                              expected |-> expected, timed |-> timed]]
    /\ result' = [result EXCEPT ![t] = "none"]
    /\ UNCHANGED <<word, woken>>

Leaving(t) == [pc |-> "unregister", addr |-> thread[t].addr, entry |-> thread[t].entry,
               expected |-> thread[t].expected, timed |-> thread[t].timed]

\* The first half of UnregisterPortableWaiter, under the entry's mutex.
Leaves(t, r) ==
    LET e == thread[t].entry
    IN /\ waiters' = [waiters EXCEPT ![e] = RemoveFirst(@, t)]
       /\ woken' = woken \ {t}
       /\ result' = [result EXCEPT ![t] = r]
       /\ thread' = [thread EXCEPT ![t] = IF Len(waiters[e]) > 1 THEN Idle
                                          ELSE Leaving(t)]
       /\ UNCHANGED <<word, registry, calls>>

\* A pass of the loop in WaitPortable; it sleeps for 10 ms at most.
Released(t) == word[thread[t].addr] # thread[t].expected \/ t \in woken
Returns(t) == thread[t].pc = "wait" /\ Released(t) /\ Leaves(t, "OK")
MayTimeOut_Woken(t) == word[thread[t].addr] = thread[t].expected
MayTimeOut(t) == ~Released(t)
TimesOut(t) ==
    /\ thread[t].pc = "wait" /\ thread[t].timed /\ MayTimeOut(t)
    /\ Leaves(t, "ETIMEDOUT")

\* The second half: the entry goes if it is still the registry's and empty.
MayErase_Unchecked(a, e) == registry[a] = e
MayErase(a, e) == registry[a] = e /\ waiters[e] = <<>>
Unregister(t) ==
    LET a == thread[t].addr
    IN /\ thread[t].pc = "unregister"
       /\ registry' = IF MayErase(a, thread[t].entry)
                      THEN [registry EXCEPT ![a] = NoEntry] ELSE registry
       /\ thread' = [thread EXCEPT ![t] = Idle]
       /\ UNCHANGED <<word, waiters, woken, result, calls>>

\* WakePortable: the registry's mutex is kept until the entry's is taken.
Wake(a, count) ==
    LET asleep == SelectSeq(waiters[registry[a]], LAMBDA t : t \notin woken)
    IN /\ registry[a] # NoEntry /\ asleep # <<>>
       /\ woken' = woken \cup
              ToSet(IF count < Len(asleep) THEN SubSeq(asleep, 1, count) ELSE asleep)
       /\ UNCHANGED <<word, registry, waiters, thread, result, calls>>

InWait(t) == Returns(t) \/ Unregister(t)
Next ==
    \/ \E a \in Addresses :
          \/ \E v \in Values : Store(a, v)
          \/ \E count \in Counts : Wake(a, count)
          \/ \E t \in Threads, v \in Values, timed \in BOOLEAN : Register(t, a, v, timed)
    \/ \E t \in Threads : InWait(t) \/ TimesOut(t)

Spec == Init /\ [][Next]_addressVars
-----------------------------------------------------------------------------
\* Whoever waits on an address is in the entry that a wake will find there, and
\* nobody is left in an entry that nobody can find: an entry that was emptied
\* and joined again before its last waiter got the registry's mutex stays.
Reachable ==
    /\ \A t \in Threads : thread[t].pc = "wait" =>
          /\ registry[thread[t].addr] = thread[t].entry
          /\ t \in ToSet(waiters[thread[t].entry])
    /\ \A a \in Addresses : registry[a] # NoEntry /\ waiters[registry[a]] = <<>> =>
          \E t \in Threads : thread[t].pc = "unregister" /\ thread[t].entry = registry[a]

\* The registry provides what waiting on an address promises (AddressWait).
WaitingOn(a) == IF registry[a] = NoEntry THEN <<>> ELSE waiters[registry[a]]
Promise == INSTANCE AddressWait WITH waiting <- [a \in Addresses |-> WaitingOn(a)],
                                     released <- woken
KeepsPromise == Promise!Spec
=============================================================================
