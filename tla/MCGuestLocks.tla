----------------------------- MODULE MCGuestLocks -----------------------------
(***************************************************************************)
(* The guest's read/write lock, event flag and waits on addresses for TLC, *)
(* one after the other: a behaviour uses the part it begins with.          *)
(***************************************************************************)
EXTENDS PthreadRwlock, Sequences

CONSTANTS Bits, Patterns, MaxFlagCalls,
          Addresses, Values, Entries, NoEntry, Counts, MaxWaits

VARIABLES part,
          single, bits, status, flagThread, signalled, owed, flagCalls,
          word, registry, waiters, woken, thread, result, waits

Flag == INSTANCE EventFlag WITH MaxCalls <- MaxFlagCalls,
                               thread <- flagThread, calls <- flagCalls
Address == INSTANCE SyncOnAddress WITH MaxCalls <- MaxWaits, calls <- waits

ASSUME Flag!EventFlagAssumption /\ Address!SyncOnAddressAssumption

flagVars == <<single, bits, status, flagThread, signalled, owed, flagCalls>>
addressVars == <<word, registry, waiters, woken, thread, result, waits>>
allVars == <<part, vars, flagVars, addressVars>>

MCInit ==
    /\ part \in {"rwlock", "flag", "address"}
    /\ Init /\ Flag!Init /\ Address!Init
    /\ part # "flag" => bits = {} /\ ~single
    /\ part # "address" => \A a \in Addresses : word[a] = 0

RwlockStep == part = "rwlock" /\ Next /\ UNCHANGED <<part, flagVars, addressVars>>
FlagStep == part = "flag" /\ Flag!Next /\ UNCHANGED <<part, vars, addressVars>>
AddressStep == part = "address" /\ Address!Next /\ UNCHANGED <<part, vars, flagVars>>

MCSpec == /\ MCInit /\ [][RwlockStep \/ FlagStep \/ AddressStep]_allVars
          /\ Fairness /\ Flag!Fairness

FlagSound == Flag!FlagSound
FlagCallsEnd == Flag!CallsEnd
Reachable == Address!Reachable
KeepsPromise == Address!KeepsPromise
=============================================================================
