-------------------------- MODULE MCGuestThreads_proofs --------------------------
(***************************************************************************)
(* Proofs about the components that MCGuestThreads.tla runs: pthread_once, *)
(* thread-specific data, mutexes and condition variables, and fibers, each *)
(* for any number of threads and any bounds.                               *)
(***************************************************************************)
EXTENDS MCGuestThreads, ListLemmas, WellFoundedInduction

-----------------------------------------------------------------------------
(* Fibers: only a repair can give a fiber to two threads. *)

FibersAssumption == NoOne \notin FiberObjects

FiberOrNone == FiberObjects \cup {NoOne}
Pcs == {"guest", "entered", "waits", "judges", "repairs", "repaired", "landed", "ends",
        "unowns", "restates"}
Aiming == {"entered", "waits", "judges", "repairs", "repaired"}
OnThread == [pc : Pcs, stack : FiberOrNone, current : FiberOrNone, pending : FiberOrNone,
             target : FiberOrNone, resumes : BOOLEAN]

FiberTypeOK ==
    /\ state \in [FiberObjects -> {"idle", "running", "terminated"}]
    /\ saved \in [FiberObjects -> BOOLEAN]
    /\ on \in [FiberThreads -> OnThread]
    /\ \A t \in FiberThreads : on[t].pc \in Aiming => on[t].target \in FiberObjects
    /\ repaired \in BOOLEAN

Has(t, f) == \/ on[t].stack = f \/ on[t].pending = f
             \/ on[t].pc = "entered" /\ on[t].target = f

\* Where a thread is: a fiber it leaves is another one than the one it is on.
Placed(t) ==
    /\ on[t].pc \in Aiming \cup {"guest", "ends", "restates"} =>
          on[t].current = on[t].stack
    /\ on[t].pc # "landed" => on[t].pending = NoOne
    /\ on[t].pending # NoOne => on[t].pending # on[t].stack
    /\ on[t].pc = "entered" => on[t].target # on[t].stack
    /\ on[t].pc \in {"waits", "judges", "repairs", "repaired", "ends"} => on[t].stack # NoOne

\* What a thread has is running; only its end makes it TERMINATED under the thread.
Running(t) ==
    \A f \in FiberObjects : Has(t, f) =>
       state[f] = (IF on[t].pc = "ends" THEN "terminated" ELSE "running")

Alone == \A t, u \in FiberThreads, f \in FiberObjects : Has(t, f) /\ Has(u, f) => t = u
NotStale == \A f \in FiberObjects : state[f] = "running" => \E t \in FiberThreads : Has(t, f)

Taken == /\ \A t \in FiberThreads : Placed(t) /\ Running(t)
         /\ Alone /\ NotStale

FiberIInv == FiberTypeOK /\ (repaired \/ Taken)

\* The initial state has it (FiberInit: no thread is on a fiber).
LEMMA InitTaken == ASSUME FibersAssumption PROVE FiberInit => FiberIInv
  <1> SUFFICES ASSUME FiberInit PROVE FiberIInv
    OBVIOUS
  <1>1. FiberTypeOK
    BY DEF FiberInit, FiberTypeOK, OnThread, FiberOrNone, Pcs, Aiming
  <1>2. \A t \in FiberThreads : /\ on[t].pc = "guest" /\ on[t].stack = NoOne
                               /\ on[t].pending = NoOne /\ on[t].current = NoOne
    BY DEF FiberInit
  <1>3. \A f \in FiberObjects : state[f] = "idle" /\ f # NoOne
    BY DEF FiberInit, FibersAssumption
  <1>4. \A t \in FiberThreads, f \in FiberObjects : ~Has(t, f)
    BY <1>2, <1>3 DEF Has
  <1> QED
    BY <1>1, <1>2, <1>3, <1>4 DEF FiberIInv, Taken, Placed, Running, Alone, NotStale, Aiming

\* What the thread and the others are after a step.
After(t, pc, stack, cur, pending, target, resumes) ==
    /\ on' \in [FiberThreads -> OnThread]
    /\ on'[t].pc = pc /\ on'[t].stack = stack /\ on'[t].current = cur
    /\ on'[t].pending = pending /\ on'[t].target = target /\ on'[t].resumes = resumes
    /\ \A u \in FiberThreads : u # t => on'[u] = on[u]

LEMMA MovesChange ==
    ASSUME FiberTypeOK, NEW t \in FiberThreads, NEW pc \in Pcs, NEW stack \in FiberOrNone,
           NEW cur \in FiberOrNone, NEW pending \in FiberOrNone, NEW target \in FiberOrNone,
           NEW resumes \in BOOLEAN, on' = Moves(t, pc, stack, cur, pending, target, resumes)
    PROVE  After(t, pc, stack, cur, pending, target, resumes)
  <1> DEFINE r == [pc |-> pc, stack |-> stack, current |-> cur, pending |-> pending,
                   target |-> target, resumes |-> resumes]
  <1>1. r \in OnThread
    BY DEF OnThread
  <1>2. on' = [on EXCEPT ![t] = r]
    BY DEF Moves
  <1>3. on \in [FiberThreads -> OnThread]
    BY DEF FiberTypeOK
  <1>4. /\ r.pc = pc /\ r.stack = stack /\ r.current = cur
        /\ r.pending = pending /\ r.target = target /\ r.resumes = resumes
    OBVIOUS
  <1> HIDE DEF r
  <1> QED
    BY <1>1, <1>2, <1>3, <1>4 DEF After

LEMMA FiberFields ==
    ASSUME FiberTypeOK, NEW t \in FiberThreads
    PROVE  /\ on[t].pc \in Pcs /\ on[t].stack \in FiberOrNone /\ on[t].current \in FiberOrNone
           /\ on[t].pending \in FiberOrNone /\ on[t].target \in FiberOrNone
           /\ on[t].resumes \in BOOLEAN
  <1>1. on[t] \in OnThread
    BY DEF FiberTypeOK
  <1> QED
    BY <1>1 DEF OnThread

LEMMA GoesChange ==
    ASSUME FiberTypeOK, NEW t \in FiberThreads, NEW pc \in Pcs, NEW target \in FiberOrNone,
           on' = Goes(t, pc, target)
    PROVE  After(t, pc, on[t].stack, on[t].current, on[t].pending, target, on[t].resumes)
  BY FiberFields, MovesChange DEF Goes

LEMMA SameKeeps == ASSUME FiberIInv, UNCHANGED <<state, saved, on, repaired>> PROVE FiberIInv'
  BY DEF FiberIInv, FiberTypeOK, Taken, Placed, Running, Alone, NotStale, Has

\* A thread that stays where it is, waits or goes on, disturbs nobody
\* (FiberWaitAndEnterRunning, and the end of a resumption).
LEMMA StaysKeeps ==
    ASSUME FibersAssumption, FiberIInv, NEW t \in FiberThreads, NEW pc, NEW target,
           on' = Goes(t, pc, target), UNCHANGED <<state, saved, repaired>>,
           on[t].pc \in {"guest", "waits", "judges", "repairs", "repaired", "restates"},
           \/ pc = "guest" /\ target = NoOne
           \/ /\ pc \in {"waits", "judges", "repairs"} /\ target \in FiberObjects
              /\ \/ on[t].pc \in {"waits", "judges", "repaired"}
                 \/ on[t].pc = "guest" /\ on[t].current # NoOne
    PROVE  FiberIInv'
  <1>1. FiberTypeOK
    BY DEF FiberIInv
  <1>2. After(t, pc, on[t].stack, on[t].current, on[t].pending, target, on[t].resumes)
    <2>1. pc \in Pcs /\ target \in FiberOrNone
      BY DEF Pcs, FiberOrNone
    <2> QED
      BY <1>1, <2>1, GoesChange
  <1>3. FiberTypeOK'
    BY <1>1, <1>2 DEF FiberTypeOK, Aiming, After
  <1>4. Taken => Taken'
    BY <1>1, <1>2 DEF Taken, Placed, Running, Alone, NotStale, Has, Aiming, FibersAssumption, After
  <1> QED
    BY <1>3, <1>4 DEF FiberIInv

\* The exchange of the state in FiberRun and FiberSwitch.
LEMMA TakesKeeps ==
    ASSUME FibersAssumption, FiberIInv, NEW t \in FiberThreads, NEW f \in FiberObjects, Takes(t, f),
           state[f] = "idle", on[t].pc \in {"guest", "waits"}, UNCHANGED <<saved, repaired>>
    PROVE  FiberIInv'
  <1>1. FiberTypeOK
    BY DEF FiberIInv
  <1>2. After(t, "entered", on[t].stack, on[t].current, on[t].pending, f, on[t].resumes)
    <2>1. f \in FiberOrNone /\ on[t].pc \in Pcs
      BY <1>1, FiberFields DEF FiberTypeOK, Aiming, FiberOrNone, Takes
    <2>2. /\ "entered" \in Pcs /\ on[t].stack \in FiberOrNone /\ on[t].current \in FiberOrNone
          /\ on[t].pending \in FiberOrNone /\ f \in FiberOrNone /\ on[t].resumes \in BOOLEAN
      BY <1>1, <2>1, FiberFields DEF FiberOrNone, Pcs
    <2>3. on' = Goes(t, "entered", f)
      BY DEF Takes
    <2> QED
      BY <1>1, <2>2, <2>3, GoesChange
  <1>3. FiberTypeOK'
    BY <1>1, <1>2, FiberFields DEF FiberTypeOK, Aiming, FiberOrNone, After, Takes
  <1>4. ASSUME Taken PROVE Taken'
    <2>1. \A u \in FiberThreads : Placed(u)'
      BY <1>1, <1>2, <1>4, FiberFields
         DEF Taken, Placed, Running, Has, Aiming, After, FibersAssumption, Takes
    <2>2. \A g \in FiberObjects : Has(t, g)' <=> (on[t].stack = g \/ g = f)
      BY <1>1, <1>2, <1>4, FiberFields DEF Taken, Placed, Has, Aiming, After, FibersAssumption, Takes
    <2>3. \A u \in FiberThreads, g \in FiberObjects : u # t => (Has(u, g)' <=> Has(u, g))
      BY <1>2 DEF After, Has
    <2>4. \A u \in FiberThreads : Running(u)'
      BY <1>1, <1>2, <1>4, <2>2, <2>3, FiberFields
         DEF Taken, Placed, Running, Alone, Has, Aiming, After, FibersAssumption, FiberTypeOK, Takes
    <2>5. Alone'
      BY <1>1, <1>2, <1>4, <2>2, <2>3 DEF Taken, Running, Alone, Has, Takes
    <2>6. NotStale'
      BY <1>1, <1>2, <1>4, <2>2, <2>3, FiberFields
         DEF Taken, Placed, Running, NotStale, Has, Aiming, FibersAssumption, FiberTypeOK, Takes
    <2> QED
      BY <2>1, <2>4, <2>5, <2>6 DEF Taken
  <1> QED
    BY <1>3, <1>4 DEF FiberIInv, Takes

\* The way to the stack of the fiber that was taken.
LEMMA JumpsKeeps ==
    ASSUME FibersAssumption, FiberIInv, NEW t \in FiberThreads, Jumps(t)
    PROVE  FiberIInv'
  <1>1. FiberTypeOK
    BY DEF FiberIInv
  <1>2. After(t, "landed", on[t].target, on[t].current, on[t].current, NoOne, saved[on[t].target])
    <2>1. on[t].target \in FiberObjects /\ saved[on[t].target] \in BOOLEAN
      BY <1>1, FiberFields DEF FiberTypeOK, Aiming, FiberOrNone, Jumps, Leaving, Saves
    <2>2. /\ "landed" \in Pcs /\ on[t].target \in FiberOrNone /\ on[t].current \in FiberOrNone
          /\ on[t].current \in FiberOrNone /\ NoOne \in FiberOrNone /\ saved[on[t].target] \in BOOLEAN
      BY <1>1, <2>1, FiberFields DEF FiberOrNone, Pcs
    <2>3. on' = Moves(t, "landed", on[t].target, on[t].current, on[t].current, NoOne, saved[on[t].target])
      BY DEF Jumps, Leaving, Saves
    <2> QED
      BY <1>1, <2>2, <2>3, MovesChange
  <1>3. FiberTypeOK'
    BY <1>1, <1>2, FiberFields DEF FiberTypeOK, Aiming, FiberOrNone, After, Jumps, Saves
  <1>4. ASSUME Taken PROVE Taken'
    <2>1. \A u \in FiberThreads : Placed(u)'
      <3>1. Placed(t)'
        BY <1>2, <1>4 DEF Taken, Placed, Aiming, After, FibersAssumption, Jumps, Leaving, Saves
      <3>2. ASSUME NEW u \in FiberThreads, u # t PROVE Placed(u)'
        <4>1. on'[u] = on[u] /\ Placed(u)
          BY <1>2, <1>4, <3>2 DEF Taken, After
        <4> QED
          BY <4>1 DEF Placed
      <3> QED
        BY <3>1, <3>2
    <2>2. \A g \in FiberObjects : Has(t, g)' <=> Has(t, g)
      BY <1>1, <1>2, <1>4, FiberFields DEF Taken, Placed, Has, Aiming, After, FibersAssumption, Jumps, Leaving, Saves
    <2>3. \A u \in FiberThreads, g \in FiberObjects : u # t => (Has(u, g)' <=> Has(u, g))
      BY <1>2 DEF After, Has
    <2>4. \A u \in FiberThreads : Running(u)'
      BY <1>2, <1>4, <2>2, <2>3 DEF Taken, Running, After, Jumps, Leaving, Saves
    <2>5. Alone'
      BY <1>1, <1>2, <1>4, <2>2, <2>3 DEF Taken, Running, Alone, Jumps, Saves
    <2>6. NotStale'
      BY <1>1, <1>2, <1>4, <2>2, <2>3, FiberFields
         DEF Taken, Placed, Running, NotStale, Aiming, FibersAssumption, FiberTypeOK, Jumps, Leaving, Saves
    <2> QED
      BY <2>1, <2>4, <2>5, <2>6 DEF Taken
  <1> QED
    BY <1>3, <1>4 DEF FiberIInv, Jumps, Saves

\* FiberReturnToThread.
LEMMA ReturnsKeeps ==
    ASSUME FibersAssumption, FiberIInv, NEW t \in FiberThreads, ReturnToThread(t)
    PROVE  FiberIInv'
  <1>1. FiberTypeOK
    BY DEF FiberIInv
  <1>2. After(t, "landed", NoOne, on[t].current, on[t].current, NoOne, FALSE)
    <2>1. on[t].current \in FiberObjects
      BY <1>1, FiberFields DEF FiberTypeOK, Aiming, FiberOrNone, ReturnToThread, Saves
    <2>2. /\ "landed" \in Pcs /\ NoOne \in FiberOrNone /\ on[t].current \in FiberOrNone
          /\ on[t].current \in FiberOrNone /\ NoOne \in FiberOrNone /\ FALSE \in BOOLEAN
      BY <1>1, <2>1, FiberFields DEF FiberOrNone, Pcs
    <2>3. on' = Moves(t, "landed", NoOne, on[t].current, on[t].current, NoOne, FALSE)
      BY DEF ReturnToThread, Saves
    <2> QED
      BY <1>1, <2>2, <2>3, MovesChange
  <1>3. FiberTypeOK'
    BY <1>1, <1>2, FiberFields DEF FiberTypeOK, Aiming, FiberOrNone, After, ReturnToThread, Saves
  <1>4. ASSUME Taken PROVE Taken'
    <2>1. \A u \in FiberThreads : Placed(u)'
      BY <1>2, <1>4 DEF Taken, Placed, Aiming, After, FibersAssumption, ReturnToThread, Saves
    <2>2. \A g \in FiberObjects : Has(t, g)' <=> Has(t, g)
      BY <1>1, <1>2, <1>4, FiberFields DEF Taken, Placed, Has, Aiming, After, FibersAssumption, ReturnToThread, Saves
    <2>3. \A u \in FiberThreads, g \in FiberObjects : u # t => (Has(u, g)' <=> Has(u, g))
      BY <1>2 DEF After, Has
    <2>4. \A u \in FiberThreads : Running(u)'
      BY <1>2, <1>4, <2>2, <2>3 DEF Taken, Running, After, ReturnToThread, Saves
    <2>5. Alone'
      BY <1>1, <1>2, <1>4, <2>2, <2>3 DEF Taken, Running, Alone, ReturnToThread, Saves
    <2>6. NotStale'
      BY <1>1, <1>2, <1>4, <2>2, <2>3, FiberFields
         DEF Taken, Placed, Running, NotStale, Aiming, FibersAssumption, FiberTypeOK, ReturnToThread, Saves
    <2> QED
      BY <2>1, <2>4, <2>5, <2>6 DEF Taken
  <1> QED
    BY <1>3, <1>4 DEF FiberIInv, ReturnToThread, Saves

\* The end of a fiber.
LEMMA EntryKeeps ==
    ASSUME FibersAssumption, FiberIInv, NEW t \in FiberThreads, EntryReturns(t)
    PROVE  FiberIInv'
  <1>1. FiberTypeOK
    BY DEF FiberIInv
  <1>2. After(t, "ends", on[t].stack, on[t].current, on[t].pending, NoOne, on[t].resumes)
    <2>1. on[t].current \in FiberObjects
      BY <1>1, FiberFields DEF FiberTypeOK, Aiming, FiberOrNone, EntryReturns
    <2>2. /\ "ends" \in Pcs /\ on[t].stack \in FiberOrNone /\ on[t].current \in FiberOrNone
          /\ on[t].pending \in FiberOrNone /\ NoOne \in FiberOrNone /\ on[t].resumes \in BOOLEAN
      BY <1>1, <2>1, FiberFields DEF FiberOrNone, Pcs
    <2>3. on' = Goes(t, "ends", NoOne)
      BY DEF EntryReturns
    <2> QED
      BY <1>1, <2>2, <2>3, GoesChange
  <1>3. FiberTypeOK'
    BY <1>1, <1>2, FiberFields DEF FiberTypeOK, Aiming, FiberOrNone, After, EntryReturns
  <1>4. ASSUME Taken PROVE Taken'
    <2>1. \A u \in FiberThreads : Placed(u)'
      BY <1>2, <1>4 DEF Taken, Placed, Aiming, After, FibersAssumption, EntryReturns
    <2>2. \A g \in FiberObjects : Has(t, g)' <=> Has(t, g)
      BY <1>1, <1>2, <1>4, FiberFields DEF Taken, Placed, Has, Aiming, After, FibersAssumption, EntryReturns
    <2>3. \A u \in FiberThreads, g \in FiberObjects : u # t => (Has(u, g)' <=> Has(u, g))
      BY <1>2 DEF After, Has
    <2>4. \A u \in FiberThreads : Running(u)'
      BY <1>1, <1>2, <1>4, <2>2, <2>3, FiberFields
         DEF Taken, Placed, Running, Alone, Has, Aiming, After, FibersAssumption, FiberTypeOK, EntryReturns
    <2>5. Alone'
      BY <1>1, <1>2, <1>4, <2>2, <2>3 DEF Taken, Running, Alone, Has, EntryReturns
    <2>6. NotStale'
      BY <1>1, <1>2, <1>4, <2>2, <2>3, FiberFields
         DEF Taken, Placed, Running, NotStale, Has, Aiming, FibersAssumption, FiberTypeOK, EntryReturns
    <2> QED
      BY <2>1, <2>4, <2>5, <2>6 DEF Taken
  <1> QED
    BY <1>3, <1>4 DEF FiberIInv, EntryReturns

\* The way back from a fiber that has ended.
LEMMA EndsKeeps ==
    ASSUME FibersAssumption, FiberIInv, NEW t \in FiberThreads, Ends(t)
    PROVE  FiberIInv'
  <1>1. FiberTypeOK
    BY DEF FiberIInv
  <1>2. After(t, "landed", NoOne, NoOne, NoOne, NoOne, FALSE)
    <2>1. on[t].current \in FiberOrNone
      BY <1>1, FiberFields DEF FiberTypeOK, Aiming, FiberOrNone, Ends
    <2>2. /\ "landed" \in Pcs /\ NoOne \in FiberOrNone /\ NoOne \in FiberOrNone
          /\ NoOne \in FiberOrNone /\ NoOne \in FiberOrNone /\ FALSE \in BOOLEAN
      BY <1>1, <2>1, FiberFields DEF FiberOrNone, Pcs
    <2>3. on' = Moves(t, "landed", NoOne, NoOne, NoOne, NoOne, FALSE)
      BY DEF Ends
    <2> QED
      BY <1>1, <2>2, <2>3, MovesChange
  <1>3. FiberTypeOK'
    BY <1>1, <1>2, FiberFields DEF FiberTypeOK, Aiming, FiberOrNone, After, Ends
  <1>4. ASSUME Taken PROVE Taken'
    <2>1. \A u \in FiberThreads : Placed(u)'
      BY <1>2, <1>4 DEF Taken, Placed, Aiming, After, FibersAssumption, Ends
    <2>2. \A g \in FiberObjects : Has(t, g)' <=> FALSE
      BY <1>1, <1>2, <1>4, FiberFields DEF Taken, Placed, Has, Aiming, After, FibersAssumption, Ends
    <2>3. \A u \in FiberThreads, g \in FiberObjects : u # t => (Has(u, g)' <=> Has(u, g))
      BY <1>2 DEF After, Has
    <2>4. \A u \in FiberThreads : Running(u)'
      BY <1>2, <1>4, <2>2, <2>3 DEF Taken, Running, After, Ends
    <2>5. Alone'
      BY <1>1, <1>2, <1>4, <2>2, <2>3 DEF Taken, Running, Alone, Ends
    <2>6. NotStale'
      BY <1>1, <1>2, <1>4, <2>2, <2>3, FiberFields
         DEF Taken, Placed, Running, NotStale, Aiming, FibersAssumption, FiberTypeOK, Ends
    <2> QED
      BY <2>1, <2>4, <2>5, <2>6 DEF Taken
  <1> QED
    BY <1>3, <1>4 DEF FiberIInv, Ends

\* FiberCommitDeferredIdle: the thread is off the stack it left.
LEMMA CommitKeeps ==
    ASSUME FibersAssumption, FiberIInv, NEW t \in FiberThreads, Commit(t)
    PROVE  FiberIInv'
  <1>1. FiberTypeOK
    BY DEF FiberIInv
  <1>2. After(t, "unowns", on[t].stack, on[t].current, NoOne, on[t].pending, on[t].resumes)
    <2>1. on[t].pending \in FiberObjects
      BY <1>1, FiberFields DEF FiberTypeOK, Aiming, FiberOrNone, Commit
    <2>2. /\ "unowns" \in Pcs /\ on[t].stack \in FiberOrNone /\ on[t].current \in FiberOrNone
          /\ NoOne \in FiberOrNone /\ on[t].pending \in FiberOrNone /\ on[t].resumes \in BOOLEAN
      BY <1>1, <2>1, FiberFields DEF FiberOrNone, Pcs
    <2>3. on' = Moves(t, "unowns", on[t].stack, on[t].current, NoOne, on[t].pending, on[t].resumes)
      BY DEF Commit
    <2> QED
      BY <1>1, <2>2, <2>3, MovesChange
  <1>3. FiberTypeOK'
    BY <1>1, <1>2, FiberFields DEF FiberTypeOK, Aiming, FiberOrNone, After, Commit
  <1>4. ASSUME Taken PROVE Taken'
    <2>1. \A u \in FiberThreads : Placed(u)'
      BY <1>2, <1>4 DEF Taken, Placed, Aiming, After, FibersAssumption, Commit
    <2>2. \A g \in FiberObjects : Has(t, g)' <=> on[t].stack = g
      BY <1>1, <1>2, <1>4, FiberFields DEF Taken, Placed, Has, Aiming, After, FibersAssumption, Commit
    <2>3. \A u \in FiberThreads, g \in FiberObjects : u # t => (Has(u, g)' <=> Has(u, g))
      BY <1>2 DEF After, Has
    <2>4. \A u \in FiberThreads : Running(u)'
      <3>1. /\ on[t].pc = "landed" /\ on[t].pending \in FiberObjects /\ Has(t, on[t].pending)
            /\ on[t].pending # on[t].stack /\ on'[t].pc = "unowns"
            /\ \A g \in FiberObjects : g # on[t].pending => state'[g] = state[g]
        BY <1>1, <1>2, <1>4, FiberFields DEF Taken, Placed, Has, After, FiberTypeOK, FiberOrNone, Commit
      <3>2. \A g \in FiberObjects : Has(t, g)' => Has(t, g) /\ g # on[t].pending
        BY <2>2, <3>1 DEF Has
      <3>3. ASSUME NEW u \in FiberThreads, u # t PROVE Running(u)'
        <4>1. on'[u] = on[u] /\ Running(u)
          BY <1>2, <1>4, <3>3 DEF Taken, After
        <4>2. \A g \in FiberObjects : Has(u, g)' => Has(u, g) /\ g # on[t].pending
          BY <1>4, <2>3, <3>1, <3>3 DEF Taken, Alone
        <4> QED
          BY <3>1, <4>1, <4>2 DEF Running
      <3>4. Running(t)'
        BY <1>4, <3>1, <3>2 DEF Taken, Running
      <3> QED
        BY <3>3, <3>4
    <2>5. Alone'
      BY <1>1, <1>2, <1>4, <2>2, <2>3 DEF Taken, Running, Alone, Has, Commit
    <2>6. NotStale'
      BY <1>1, <1>2, <1>4, <2>2, <2>3, FiberFields
         DEF Taken, Placed, Running, NotStale, Has, Aiming, FibersAssumption, FiberTypeOK, Commit
    <2> QED
      BY <2>1, <2>4, <2>5, <2>6 DEF Taken
  <1> QED
    BY <1>3, <1>4 DEF FiberIInv, Commit

\* FiberClearOwner of the fiber that was left.
LEMMA UnownsKeeps ==
    ASSUME FibersAssumption, FiberIInv, NEW t \in FiberThreads, Unowns(t)
    PROVE  FiberIInv'
  <1>1. FiberTypeOK
    BY DEF FiberIInv
  <1>2. After(t, "landed", on[t].stack, on[t].current, on[t].pending, NoOne, on[t].resumes)
    <2>1. on[t].pending \in FiberOrNone
      BY <1>1, FiberFields DEF FiberTypeOK, Aiming, FiberOrNone, Unowns
    <2>2. /\ "landed" \in Pcs /\ on[t].stack \in FiberOrNone /\ on[t].current \in FiberOrNone
          /\ on[t].pending \in FiberOrNone /\ NoOne \in FiberOrNone /\ on[t].resumes \in BOOLEAN
      BY <1>1, <2>1, FiberFields DEF FiberOrNone, Pcs
    <2>3. on' = Goes(t, "landed", NoOne)
      BY DEF Unowns
    <2> QED
      BY <1>1, <2>2, <2>3, GoesChange
  <1>3. FiberTypeOK'
    BY <1>1, <1>2, FiberFields DEF FiberTypeOK, Aiming, FiberOrNone, After, Unowns
  <1>4. ASSUME Taken PROVE Taken'
    <2>1. \A u \in FiberThreads : Placed(u)'
      BY <1>2, <1>4 DEF Taken, Placed, Aiming, After, FibersAssumption, Unowns
    <2>2. \A g \in FiberObjects : Has(t, g)' <=> Has(t, g)
      BY <1>1, <1>2, <1>4, FiberFields DEF Taken, Placed, Has, Aiming, After, FibersAssumption, Unowns
    <2>3. \A u \in FiberThreads, g \in FiberObjects : u # t => (Has(u, g)' <=> Has(u, g))
      BY <1>2 DEF After, Has
    <2>4. \A u \in FiberThreads : Running(u)'
      BY <1>1, <1>2, <1>4, <2>2, <2>3, FiberFields
         DEF Taken, Placed, Running, Alone, Has, Aiming, After, FibersAssumption, FiberTypeOK, Unowns
    <2>5. Alone'
      BY <1>1, <1>2, <1>4, <2>2, <2>3 DEF Taken, Running, Alone, Has, Unowns
    <2>6. NotStale'
      BY <1>1, <1>2, <1>4, <2>2, <2>3, FiberFields
         DEF Taken, Placed, Running, NotStale, Has, Aiming, FibersAssumption, FiberTypeOK, Unowns
    <2> QED
      BY <2>1, <2>4, <2>5, <2>6 DEF Taken
  <1> QED
    BY <1>3, <1>4 DEF FiberIInv, Unowns

\* FiberSetCurrentFiber; a fiber that goes on is RUNNING already.
LEMMA LandsKeeps ==
    ASSUME FibersAssumption, FiberIInv, NEW t \in FiberThreads, Lands(t)
    PROVE  FiberIInv'
  <1>1. FiberTypeOK
    BY DEF FiberIInv
  <1>2. After(t, IF on[t].resumes THEN "restates" ELSE "guest", on[t].stack, on[t].stack, NoOne, NoOne, on[t].resumes)
    <2>1. on[t].pending = NoOne
      BY <1>1, FiberFields DEF FiberTypeOK, Aiming, FiberOrNone, Lands
    <2>2. /\ (IF on[t].resumes THEN "restates" ELSE "guest") \in Pcs /\ on[t].stack \in FiberOrNone /\ on[t].stack \in FiberOrNone
          /\ NoOne \in FiberOrNone /\ NoOne \in FiberOrNone /\ on[t].resumes \in BOOLEAN
      BY <1>1, <2>1, FiberFields DEF FiberOrNone, Pcs
    <2>3. on' = Moves(t, IF on[t].resumes THEN "restates" ELSE "guest", on[t].stack, on[t].stack, NoOne, NoOne, on[t].resumes)
      BY DEF Lands
    <2> QED
      BY <1>1, <2>2, <2>3, MovesChange
  <1>3. FiberTypeOK'
    BY <1>1, <1>2, FiberFields DEF FiberTypeOK, Aiming, FiberOrNone, After, Lands
  <1>4. ASSUME Taken PROVE Taken'
    <2>1. \A u \in FiberThreads : Placed(u)'
      BY <1>2, <1>4 DEF Taken, Placed, Aiming, After, FibersAssumption, Lands
    <2>2. \A g \in FiberObjects : Has(t, g)' <=> Has(t, g)
      BY <1>1, <1>2, <1>4, FiberFields DEF Taken, Placed, Has, Aiming, After, FibersAssumption, Lands
    <2>3. \A u \in FiberThreads, g \in FiberObjects : u # t => (Has(u, g)' <=> Has(u, g))
      BY <1>2 DEF After, Has
    <2>4. ASSUME NEW u \in FiberThreads PROVE Running(u)'
      <3>0. on[t].pc = "landed" /\ on'[t].pc # "ends"
        BY <1>2 DEF After, Lands
      <3>1. \A g \in FiberObjects : state'[g] = state[g]
        <4>1. ASSUME NEW g \in FiberObjects, g = on[t].stack PROVE state[g] = "running"
          BY <1>4, <3>0, <4>1 DEF Taken, Running, Has
        <4> QED
          BY <1>1, <4>1 DEF Lands, FiberTypeOK
      <3>2. u # t => on'[u].pc = on[u].pc
        BY <1>2 DEF After
      <3>3. ASSUME NEW g \in FiberObjects, Has(u, g)'
            PROVE  Has(u, g) /\ (on'[u].pc = "ends" <=> on[u].pc = "ends")
        BY <2>2, <2>3, <3>0, <3>2, <3>3
      <3> QED
        BY <1>4, <3>1, <3>3 DEF Taken, Running
    <2>5. Alone'
      BY <1>1, <1>2, <1>4, <2>2, <2>3 DEF Taken, Running, Alone, Has, Lands
    <2>6. NotStale'
      BY <1>1, <1>2, <1>4, <2>2, <2>3, FiberFields
         DEF Taken, Placed, Running, NotStale, Has, Aiming, FibersAssumption, FiberTypeOK, Lands
    <2> QED
      BY <2>1, <2>4, <2>5, <2>6 DEF Taken
  <1> QED
    BY <1>3, <1>4 DEF FiberIInv, Lands

\* Every step keeps it (the calls of a fiber and the steps of a thread in them).
LEMMA StepTaken == ASSUME FibersAssumption PROVE FiberIInv /\ [FiberNext]_fiberVars => FiberIInv'
  <1> SUFFICES ASSUME FiberIInv, [FiberNext]_fiberVars PROVE FiberIInv'
    OBVIOUS
  <1>0. FiberTypeOK
    BY DEF FiberIInv
  <1>1. ASSUME NEW f \in FiberObjects, Initialize(f) \/ Finalize(f) PROVE FiberIInv'
    <2>1. FiberTypeOK'
      BY <1>0, <1>1 DEF Initialize, Finalize, FiberTypeOK
    <2>2. UNCHANGED <<on, repaired>> /\ \A g \in FiberObjects : g # f => state'[g] = state[g]
      BY <1>0, <1>1 DEF Initialize, Finalize, FiberTypeOK
    <2>3. CASE Initialize(f) /\ Taken
      BY <1>0, <2>1, <2>2, <2>3 DEF Initialize, FiberIInv, FiberTypeOK, Taken, Placed, Running, Alone,
                                    NotStale, Has, Aiming, FibersAssumption
    <2>4. CASE Finalize(f) /\ Taken
      BY <1>0, <2>1, <2>2, <2>4 DEF Finalize, FiberIInv, FiberTypeOK, Taken, Placed, Running, Alone,
                                    NotStale, Has, Aiming, FibersAssumption
    <2> QED
      BY <1>1, <2>1, <2>2, <2>3, <2>4 DEF FiberIInv
  <1>2. ASSUME NEW t \in FiberThreads, NEW f \in FiberObjects, Run(t, f) PROVE FiberIInv'
    BY <1>2, TakesKeeps, SameKeeps DEF Run
  <1>3. ASSUME NEW t \in FiberThreads, NEW f \in FiberObjects, Switch(t, f) PROVE FiberIInv'
    <2>1. CASE Takes(t, f) /\ state[f] = "idle"
      BY <1>3, <2>1, TakesKeeps DEF Switch
    <2>2. CASE on' = Goes(t, "waits", f) /\ UNCHANGED state
      BY <1>3, <2>2, StaysKeeps DEF Switch
    <2>3. CASE UNCHANGED <<state, on>>
      BY <1>3, <2>3, SameKeeps DEF Switch
    <2> QED
      BY <1>3, <2>1, <2>2, <2>3 DEF Switch
  <1>4. ASSUME NEW t \in FiberThreads, WaitEnds(t) PROVE FiberIInv'
    <2>1. on[t].target \in FiberObjects /\ on[t].pc = "waits"
      BY <1>0, <1>4 DEF WaitEnds, FiberTypeOK, Aiming
    <2>2. CASE state[on[t].target] = "idle" /\ Takes(t, on[t].target)
      BY <1>4, <2>1, <2>2, TakesKeeps DEF WaitEnds
    <2>3. CASE on' = GoesOn(t) /\ UNCHANGED state
      BY <1>4, <2>1, <2>3, StaysKeeps DEF WaitEnds, GoesOn
    <2> QED
      BY <1>4, <2>2, <2>3 DEF WaitEnds
  <1>5. ASSUME NEW t \in FiberThreads, TimeOver(t) PROVE FiberIInv'
    <2>1. on[t].target \in FiberObjects /\ on[t].pc = "waits"
      BY <1>0, <1>5 DEF TimeOver, FiberTypeOK, Aiming
    <2>2. on' = Goes(t, "judges", on[t].target) \/ on' = Goes(t, "guest", NoOne)
      BY <1>5 DEF TimeOver, GoesOn
    <2> QED
      BY <1>5, <2>1, <2>2, StaysKeeps DEF TimeOver
  <1>6. ASSUME NEW t \in FiberThreads, Judges(t) PROVE FiberIInv'
    <2>1. on[t].target \in FiberObjects /\ on[t].pc = "judges"
      BY <1>0, <1>6 DEF Judges, FiberTypeOK, Aiming
    <2>2. on' = Goes(t, "repairs", on[t].target) \/ on' = Goes(t, "guest", NoOne)
      BY <1>6 DEF Judges, GoesOn
    <2> QED
      BY <1>6, <2>1, <2>2, StaysKeeps DEF Judges
  <1>7. ASSUME NEW t \in FiberThreads, Repair(t) PROVE FiberIInv'
    <2>1. on[t].target \in FiberObjects /\ on[t].pc = "repairs"
      BY <1>0, <1>7 DEF Repair, FiberTypeOK, Aiming
    <2>2. CASE on' = GoesOn(t) /\ UNCHANGED <<state, repaired>>
      BY <1>7, <2>1, <2>2, StaysKeeps DEF Repair, GoesOn
    <2>3. CASE /\ state' = [state EXCEPT ![on[t].target] = "idle"]
               /\ on' = Goes(t, "repaired", on[t].target) /\ repaired' = TRUE
      <3>1. After(t, "repaired", on[t].stack, on[t].current, on[t].pending, on[t].target,
                  on[t].resumes)
        BY <1>0, <2>1, <2>3, GoesChange DEF FiberOrNone, Pcs
      <3>2. FiberTypeOK'
        BY <1>0, <1>7, <2>1, <2>3, <3>1 DEF FiberTypeOK, Repair, After, Aiming
      <3> QED
        BY <2>3, <3>2 DEF FiberIInv
    <2> QED
      BY <1>7, <2>2, <2>3 DEF Repair
  <1>8. ASSUME NEW t \in FiberThreads, RepairEnds(t) PROVE FiberIInv'
    <2>1. on[t].target \in FiberObjects /\ on[t].pc = "repaired"
      BY <1>0, <1>8 DEF RepairEnds, FiberTypeOK, Aiming
    <2> QED
      BY <1>8, <2>1, StaysKeeps DEF RepairEnds
  <1>9. ASSUME NEW t \in FiberThreads, Restates(t) PROVE FiberIInv'
    BY <1>9, StaysKeeps DEF Restates, GoesOn
  <1>10. CASE UNCHANGED fiberVars
    BY <1>10, SameKeeps DEF fiberVars
  <1> QED
    BY <1>1, <1>2, <1>3, <1>4, <1>5, <1>6, <1>7, <1>8, <1>9, <1>10, JumpsKeeps, ReturnsKeeps,
       EntryKeeps, EndsKeeps, CommitKeeps, UnownsKeeps, LandsKeeps DEF FiberNext

\* One thread has each RUNNING fiber and none an IDLE one, as long as no repair
\* took one (Run, Switch, ReturnToThread, FiberCommitDeferredIdle).
THEOREM FibersCorrect == ASSUME FibersAssumption PROVE FiberSpec => []FibersSound
  <1>1. FiberIInv => FibersSound
    BY DEF FiberIInv, Taken, Running, Alone, NotStale, Has, FibersSound, OneHolder, Holders, FiberTypeOK,
           OnThread, FiberOrNone, FibersAssumption
  <1> QED
    BY <1>1, InitTaken, StepTaken, PTL DEF FiberSpec
-----------------------------------------------------------------------------
(* pthread_once: who is where, in each state of the control. *)

OncePlaces == {"out", "routine", "ran", "waiting", "returned"}

\* One thread runs the routine, as long as the control is in progress or marked;
\* before, nobody has come, and after, nobody runs it.
OnceInv ==
    /\ inOnce \in [Threads -> OncePlaces] /\ ran \in Nat /\ finished \in Nat
    /\ once \in {"NEEDS_INIT", "IN_PROGRESS", "WAIT", "DONE_INIT"}
    /\ once = "NEEDS_INIT" => ran = 0 /\ finished = 0 /\ \A t \in Threads : inOnce[t] = "out"
    /\ once \in {"IN_PROGRESS", "WAIT"} =>
          /\ ran = 1
          /\ \E t \in Threads :
                /\ inOnce[t] \in {"routine", "ran"}
                /\ finished = IF inOnce[t] = "ran" THEN 1 ELSE 0
                /\ \A u \in Threads : u # t => inOnce[u] \in {"out", "waiting"}
    /\ once = "DONE_INIT" => /\ ran = 1 /\ finished = 1
                             /\ \A t \in Threads : inOnce[t] \in {"out", "waiting", "returned"}

\* A look at the control, by a call or after a wait.
LEMMA OnceLook ==
    ASSUME OnceInv, NEW t \in Threads, inOnce[t] \in {"out", "waiting", "returned"},
           Once!Look(t), finished' = finished
    PROVE  OnceInv'
  <1>1. CASE once = "NEEDS_INIT"
    <2>1. /\ once' = "IN_PROGRESS" /\ ran' = 1 /\ finished' = 0
          /\ inOnce' = [inOnce EXCEPT ![t] = "routine"]
      BY <1>1 DEF OnceInv, Once!Look, Once!Goto
    <2> QED
      BY <1>1, <2>1 DEF OnceInv, OncePlaces
  <1>2. CASE once \in {"IN_PROGRESS", "WAIT"}
    <2>1. once' = "WAIT" /\ ran' = ran /\ inOnce' = [inOnce EXCEPT ![t] = "waiting"]
      BY <1>2 DEF OnceInv, Once!Look, Once!Goto
    <2> QED
      BY <1>2, <2>1 DEF OnceInv, OncePlaces
  <1>3. CASE once = "DONE_INIT"
    <2>1. once' = once /\ ran' = ran /\ inOnce' = [inOnce EXCEPT ![t] = "returned"]
      BY <1>3 DEF OnceInv, Once!Look, Once!Goto
    <2> QED
      BY <1>3, <2>1 DEF OnceInv, OncePlaces
  <1> QED
    BY <1>1, <1>2, <1>3 DEF OnceInv

LEMMA OnceKeeps == OnceInv /\ [Once!Next]_(Once!vars) => OnceInv'
  <1> SUFFICES ASSUME OnceInv, [Once!Next]_(Once!vars) PROVE OnceInv'
    OBVIOUS
  <1>1. ASSUME NEW t \in Threads, Once!Call(t) PROVE OnceInv'
    BY <1>1, OnceLook DEF Once!Call
  <1>2. ASSUME NEW t \in Threads, Once!WaitEnds(t) PROVE OnceInv'
    BY <1>2, OnceLook DEF Once!WaitEnds
  <1>3. ASSUME NEW t \in Threads, Once!RoutineEnds(t) PROVE OnceInv'
    BY <1>3 DEF Once!RoutineEnds, Once!Goto, OnceInv, OncePlaces
  <1>4. ASSUME NEW t \in Threads, Once!Done(t) PROVE OnceInv'
    BY <1>4 DEF Once!Done, Once!AfterRoutine, Once!Goto, OnceInv, OncePlaces
  <1>5. CASE UNCHANGED Once!vars
    BY <1>5 DEF Once!vars, OnceInv
  <1> QED
    BY <1>1, <1>2, <1>3, <1>4, <1>5 DEF Once!Next

\* The routine runs once and no call returns before it has ended (pthread_once).
THEOREM OnceCorrect == Once!Spec => []Once!OnceSound
  <1>1. Once!Init => OnceInv
    BY DEF Once!Init, OnceInv, OncePlaces
  <1>2. OnceInv => Once!OnceSound
    BY DEF OnceInv, Once!OnceSound
  <1> QED
    BY <1>1, <1>2, OnceKeeps, PTL DEF Once!Spec
-----------------------------------------------------------------------------
(* Thread-specific data: every value that was set is in one place at most,   *)
(* and comes from a key with the destructor it was set under.                *)

AKey == [used : BOOLEAN, destructor : Nat, values : [KeyThreads -> Nat \cup {NoData}]]
AnEnding == [at : {"running", "collect", "calling", "ended", "exhausted"}, iter : Nat,
             list : SUBSET (Nat \X Nat)]
Setting == [under : Nat, by : KeyThreads]

DataTypes ==
    /\ key \in [Data!Keys -> AKey] /\ ending \in [KeyThreads -> AnEnding]
    /\ made \in Nat /\ set \in Seq(Setting)
    /\ destroyed \in Seq([data : Nat, destructor : Nat, by : KeyThreads])

\* A thread's values under a key, those it still has to destroy, and those that
\* were destroyed, each with the key it was set under.
DataOrigin ==
    /\ \A k \in Data!Keys, t \in KeyThreads : key[k].values[t] # NoData =>
          /\ key[k].values[t] \in 1 .. Len(set)
          /\ set[key[k].values[t]] = [under |-> key[k].destructor, by |-> t]
    /\ \A t \in KeyThreads : \A d \in ending[t].list :
          d[2] \in 1 .. Len(set) /\ set[d[2]] = [under |-> d[1], by |-> t]
    /\ \A i \in 1 .. Len(destroyed) :
          /\ destroyed[i].data \in 1 .. Len(set)
          /\ set[destroyed[i].data] = [under |-> destroyed[i].destructor, by |-> destroyed[i].by]

\* No value is in two of these places.
DataOnce ==
    /\ \A k, l \in Data!Keys, t \in KeyThreads :
          key[k].values[t] # NoData /\ key[k].values[t] = key[l].values[t] => k = l
    /\ \A k \in Data!Keys, t \in KeyThreads : \A d \in ending[t].list :
          key[k].values[t] # NoData => d[2] # key[k].values[t]
    /\ \A i \in 1 .. Len(destroyed) :
          /\ \A k \in Data!Keys, t \in KeyThreads :
                key[k].values[t] # NoData => destroyed[i].data # key[k].values[t]
          /\ \A t \in KeyThreads : \A d \in ending[t].list : destroyed[i].data # d[2]
    /\ \A i, j \in 1 .. Len(destroyed) : destroyed[i].data = destroyed[j].data => i = j

DataInv == DataTypes /\ DataOrigin /\ DataOnce /\ Data!NothingLeft

\* A nonempty set of numbers has a least one.
LEMMA LeastNumber ==
    ASSUME NEW S \in SUBSET Nat, S # {}
    PROVE  \E n \in S : \A m \in S : n <= m
  <1>1. \A m, n \in Nat : m < n => <<m, n>> \in OpToRel(<, Nat)
    BY DEF OpToRel
  <1>2. PICK n \in S : \A m \in S : ~(<<m, n>> \in OpToRel(<, Nat))
    BY NatLessThanWellFounded, WFMin
  <1>3. \A m \in S : ~(m < n)
    BY <1>1, <1>2
  <1> QED
    BY <1>3

LEMMA DataInit == Data!Init => DataInv
  <1> SUFFICES ASSUME Data!Init PROVE DataInv
    OBVIOUS
  <1>1. /\ \A k \in Data!Keys : key[k].destructor = 0 /\ \A t \in KeyThreads : key[k].values[t] = NoData
        /\ \A t \in KeyThreads : ending[t].list = {} /\ ending[t].at = "running"
        /\ destroyed = <<>> /\ set = <<>>
    BY DEF Data!Init, Data!Key, Data!Nothing, Data!Ending
  <1>2. DataTypes
    BY DEF Data!Init, Data!Key, Data!Nothing, Data!Ending, DataTypes, AKey, AnEnding
  <1> QED
    BY <1>1, <1>2 DEF DataInv, DataOrigin, DataOnce, Data!NothingLeft

\* The fields of the records.
LEMMA DataFields ==
    ASSUME DataTypes
    PROVE  /\ \A k \in Data!Keys :
                 /\ key[k].used \in BOOLEAN /\ key[k].destructor \in Nat
                 /\ key[k].values \in [KeyThreads -> Nat \cup {NoData}]
           /\ \A t \in KeyThreads :
                 /\ ending[t].at \in {"running", "collect", "calling", "ended", "exhausted"}
                 /\ ending[t].iter \in Nat /\ ending[t].list \subseteq Nat \X Nat
  <1>1. \A k \in Data!Keys : key[k] \in AKey
    BY DEF DataTypes
  <1>2. \A t \in KeyThreads : ending[t] \in AnEnding
    BY DEF DataTypes
  <1> QED
    BY <1>1, <1>2 DEF AKey, AnEnding

\* What a key is after its values are forgotten: Create and Delete.
LEMMA DataForgets ==
    ASSUME DataInv, NEW k \in Data!Keys, NEW used \in BOOLEAN, NEW destructor \in Nat,
           key' = [key EXCEPT ![k] = Data!Key(used, destructor, Data!Nothing)],
           made' \in Nat, UNCHANGED <<ending, set, destroyed>>
    PROVE  DataInv'
  <1>1. Data!Key(used, destructor, Data!Nothing) \in AKey
    BY DEF Data!Key, Data!Nothing, AKey
  <1>2. DataTypes'
    BY <1>1 DEF DataInv, DataTypes
  <1>3. /\ \A t \in KeyThreads : key'[k].values[t] = NoData
        /\ \A l \in Data!Keys : l # k => key'[l] = key[l]
    BY DEF DataInv, DataTypes, Data!Key, Data!Nothing
  <1>4. DataOrigin'
    BY <1>3 DEF DataInv, DataOrigin
  <1>5. DataOnce'
    BY <1>3 DEF DataInv, DataOnce
  <1>6. Data!NothingLeft'
    BY <1>3 DEF DataInv, Data!NothingLeft, Data!Collected
  <1> QED
    BY <1>2, <1>4, <1>5, <1>6 DEF DataInv

LEMMA DataSets ==
    ASSUME DataInv, NEW t \in KeyThreads, NEW k \in Data!Keys, Data!Set(t, k)
    PROVE  DataInv'
  <1> DEFINE n == Len(set) + 1
             place == [under |-> key[k].destructor, by |-> t]
  <1>1. DataTypes /\ DataOrigin /\ DataOnce /\ Data!NothingLeft /\ n \in Nat
    BY DEF DataInv, DataTypes
  <1>2. /\ key' = [key EXCEPT ![k] = Data!With(k, t, n)] /\ set' = Append(set, place)
        /\ ending' = ending /\ destroyed' = destroyed /\ made' = made
        /\ ending[t].at \in {"running", "calling"}
    BY DEF Data!Set, Data!Fresh, Data!MayCall
  <1>3. /\ Data!With(k, t, n) \in AKey
        /\ Data!With(k, t, n).destructor = key[k].destructor
        /\ Data!With(k, t, n).used = key[k].used
        /\ Data!With(k, t, n).values[t] = n
        /\ \A u \in KeyThreads : u # t => Data!With(k, t, n).values[u] = key[k].values[u]
    BY <1>1, DataFields DEF Data!With, Data!Key, AKey
  <1>4. place \in Setting
    BY <1>1, DataFields DEF Setting
  <1>5. /\ Len(set') = n /\ set'[n] = place /\ \A d \in 1 .. Len(set) : set'[d] = set[d]
        /\ n \notin 1 .. Len(set) /\ \A d \in 1 .. Len(set) : d \in 1 .. n
    BY <1>1, <1>2, <1>4 DEF DataTypes
  <1>6. DataTypes'
    BY <1>1, <1>2, <1>3, <1>4 DEF DataTypes
  <1>7. /\ \A l \in Data!Keys : key'[l].destructor = key[l].destructor
        /\ \A l \in Data!Keys, u \in KeyThreads :
              key'[l].values[u] = IF l = k /\ u = t THEN n ELSE key[l].values[u]
    BY <1>1, <1>2, <1>3 DEF DataTypes
  <1> HIDE DEF n, place
  <1>8. DataOrigin'
    <2>1. ASSUME NEW l \in Data!Keys, NEW u \in KeyThreads, key'[l].values[u] # NoData
          PROVE  /\ key'[l].values[u] \in 1 .. Len(set')
                 /\ set'[key'[l].values[u]] = [under |-> key'[l].destructor, by |-> u]
      <3>1. CASE l = k /\ u = t
        BY <1>1, <1>5, <1>7, <3>1 DEF place, n
      <3>2. CASE ~(l = k /\ u = t)
        BY <1>1, <1>5, <1>7, <2>1, <3>2 DEF DataOrigin
      <3> QED
        BY <3>1, <3>2
    <2> QED
      BY <1>1, <1>2, <1>5, <2>1 DEF DataOrigin
  <1>9. DataOnce'
    <2>1. ASSUME NEW l \in Data!Keys, NEW u \in KeyThreads, key[l].values[u] # NoData
          PROVE  key[l].values[u] # n
      <3>1. key[l].values[u] \in 1 .. Len(set)
        BY <1>1, <2>1 DEF DataOrigin
      <3> QED
        BY <1>5, <3>1
    <2>2. ASSUME NEW u \in KeyThreads, NEW d \in ending[u].list PROVE d[2] # n
      <3>1. d[2] \in 1 .. Len(set)
        BY <1>1 DEF DataOrigin
      <3> QED
        BY <1>5, <3>1
    <2>3. ASSUME NEW i \in 1 .. Len(destroyed) PROVE destroyed[i].data # n
      <3>1. destroyed[i].data \in 1 .. Len(set)
        BY <1>1 DEF DataOrigin
      <3> QED
        BY <1>5, <3>1
    <2> QED
      BY <1>1, <1>2, <1>7, <2>1, <2>2, <2>3 DEF DataOnce
  <1>10. Data!NothingLeft'
    <2>1. ASSUME NEW u \in KeyThreads, ending'[u].at = "ended" PROVE Data!Collected(u)' = {}
      <3>1. u # t
        BY <1>2, <2>1
      <3>2. \A l \in Data!Keys : key'[l].used = key[l].used
        BY <1>1, <1>2, <1>3 DEF DataTypes
      <3> QED
        BY <1>1, <1>2, <1>7, <2>1, <3>1, <3>2 DEF Data!NothingLeft, Data!Collected
    <2> QED
      BY <2>1 DEF Data!NothingLeft
  <1> QED
    BY <1>6, <1>8, <1>9, <1>10 DEF DataInv

\* A thread that begins to end, or whose last iteration is over, keeps its list or
\* gives it up, and no value moves.
LEMMA DataDrops ==
    ASSUME DataInv, NEW t \in KeyThreads, NEW at, NEW list \in SUBSET ending[t].list,
           at \in {"collect", "exhausted"},
           ending' = [ending EXCEPT ![t] = Data!Ending(at, ending[t].iter, list)],
           \/ key' = key
           \/ key' = [k \in Data!Keys |-> Data!With(k, t, NoData)],
           UNCHANGED <<made, set, destroyed>>
    PROVE  DataInv'
  <1>1. DataTypes /\ DataOrigin /\ DataOnce /\ Data!NothingLeft
    BY DEF DataInv
  <1>2. Data!Ending(at, ending[t].iter, list) \in AnEnding
    BY <1>1, DataFields DEF Data!Ending, AnEnding
  <1>3. /\ \A u \in KeyThreads : ending'[u].list \subseteq ending[u].list
        /\ \A u \in KeyThreads : u # t => ending'[u] = ending[u]
        /\ ending'[t].at # "ended"
    BY <1>1 DEF DataTypes, Data!Ending
  <1>4. \A k \in Data!Keys : Data!With(k, t, NoData) \in AKey
    BY <1>1, DataFields DEF Data!With, Data!Key, AKey
  <1>5. DataTypes'
    BY <1>1, <1>2, <1>4 DEF DataTypes
  <1>6. \A k \in Data!Keys :
           /\ key'[k].used = key[k].used /\ key'[k].destructor = key[k].destructor
           /\ \A u \in KeyThreads : key'[k].values[u] \in {key[k].values[u], NoData}
    BY <1>1, DataFields DEF Data!With, Data!Key
  <1>7. DataOrigin'
    BY <1>1, <1>3, <1>6 DEF DataOrigin
  <1>8. DataOnce'
    BY <1>1, <1>3, <1>6 DEF DataOnce
  <1>9. Data!NothingLeft'
    <2>1. ASSUME NEW u \in KeyThreads, ending'[u].at = "ended" PROVE Data!Collected(u)' = {}
      <3>1. ending[u].at = "ended"
        BY <1>3, <2>1
      <3>2. \A k \in Data!Keys : k \in Data!Collected(u)' => k \in Data!Collected(u)
        BY <1>6 DEF Data!Collected
      <3>3. Data!Collected(u)' \subseteq Data!Keys
        BY DEF Data!Collected
      <3> QED
        BY <1>1, <3>1, <3>2, <3>3 DEF Data!NothingLeft
    <2> QED
      BY <2>1 DEF Data!NothingLeft
  <1> QED
    BY <1>5, <1>7, <1>8, <1>9 DEF DataInv

\* A pass of Destruct: the values with a destructor move to the thread's list.
LEMMA DataCollects ==
    ASSUME DataInv, NEW t \in KeyThreads, Data!Collect(t)
    PROVE  DataInv'
  <1>1. DataTypes /\ DataOrigin /\ DataOnce /\ Data!NothingLeft
    BY DEF DataInv
  <1>2. CASE ending[t].iter = DestructorIterations
    <2>1. /\ key' = [k \in Data!Keys |-> Data!With(k, t, NoData)]
          /\ ending' = [ending EXCEPT ![t] = Data!Ending("exhausted", ending[t].iter, {})]
          /\ UNCHANGED <<made, set, destroyed>>
      BY <1>2 DEF Data!Collect
    <2>2. {} \in SUBSET ending[t].list
      OBVIOUS
    <2>3. key' = key \/ key' = [k \in Data!Keys |-> Data!With(k, t, NoData)]
      BY <2>1
    <2> QED
      BY <2>1, <2>2, <2>3, DataDrops
  <1>3. CASE ending[t].iter # DestructorIterations
    <2> DEFINE C == Data!Collected(t)
               list == {<<key[k].destructor, key[k].values[t]>> : k \in C}
               after == IF C = {} THEN Data!Ending("ended", ending[t].iter, {})
                        ELSE Data!Ending("calling", ending[t].iter + 1, list)
    <2>1. /\ key' = [k \in Data!Keys |-> IF k \in C THEN Data!With(k, t, NoData) ELSE key[k]]
          /\ ending' = [ending EXCEPT ![t] = after]
          /\ UNCHANGED <<made, set, destroyed>>
      BY <1>3 DEF Data!Collect, Data!TakenFrom
    <2>2. \A k \in C : /\ k \in Data!Keys /\ key[k].values[t] # NoData
                       /\ key[k].values[t] \in 1 .. Len(set) /\ key[k].destructor \in Nat
                       /\ set[key[k].values[t]] = [under |-> key[k].destructor, by |-> t]
      BY <1>1, DataFields DEF Data!Collected, DataOrigin
    <2>3. list \subseteq Nat \X Nat
      <3>1. 1 .. Len(set) \subseteq Nat
        BY <1>1 DEF DataTypes
      <3>2. \A k \in C : <<key[k].destructor, key[k].values[t]>> \in Nat \X Nat
        BY <2>2, <3>1
      <3> QED
        BY <3>2
    <2>4. after \in AnEnding
      BY <1>1, <2>3, DataFields DEF Data!Ending, AnEnding
    <2>5. /\ \A u \in KeyThreads : u # t => ending'[u] = ending[u]
          /\ ending'[t].list = list /\ (ending'[t].at = "ended" => C = {})
      <3>1. after.list = list /\ (after.at = "ended" => C = {})
        BY DEF Data!Ending
      <3> QED
        BY <1>1, <2>1, <3>1 DEF DataTypes
    <2> HIDE DEF after
    <2>6. \A k \in Data!Keys : Data!With(k, t, NoData) \in AKey
      BY <1>1, DataFields DEF Data!With, Data!Key, AKey
    <2>7. DataTypes'
      BY <1>1, <2>1, <2>4, <2>6 DEF DataTypes
    <2>8. \A k \in Data!Keys :
             /\ key'[k].used = key[k].used /\ key'[k].destructor = key[k].destructor
             /\ \A u \in KeyThreads :
                   key'[k].values[u] = IF u = t /\ k \in C THEN NoData ELSE key[k].values[u]
      BY <1>1, <2>1, DataFields DEF Data!With, Data!Key
    <2>9. \A d \in list : \E k \in C : d = <<key[k].destructor, key[k].values[t]>>
      OBVIOUS
    <2> HIDE DEF C, list
    <2>10. DataOrigin'
      <3>1. ASSUME NEW d \in list
            PROVE  d[2] \in 1 .. Len(set) /\ set[d[2]] = [under |-> d[1], by |-> t]
        <4>1. PICK k \in C : d = <<key[k].destructor, key[k].values[t]>>
          BY <2>9
        <4> QED
          BY <2>2, <4>1
      <3> QED
        BY <1>1, <2>1, <2>5, <2>8, <3>1 DEF DataOrigin
    <2>11. DataOnce'
      <3>1. \A k, l \in Data!Keys, u \in KeyThreads :
               key'[k].values[u] # NoData /\ key'[k].values[u] = key'[l].values[u] => k = l
        BY <1>1, <2>8 DEF DataOnce
      <3>2. ASSUME NEW k \in Data!Keys, NEW u \in KeyThreads, NEW d \in ending'[u].list,
                   key'[k].values[u] # NoData
            PROVE  d[2] # key'[k].values[u]
        <4>1. CASE u = t
          <5>1. PICK l \in C : d = <<key[l].destructor, key[l].values[t]>>
            BY <2>5, <2>9, <4>1
          <5>2. k \notin C /\ key'[k].values[u] = key[k].values[t]
            BY <2>8, <3>2, <4>1
          <5> QED
            BY <1>1, <2>2, <3>2, <4>1, <5>1, <5>2 DEF DataOnce
        <4>2. CASE u # t
          BY <1>1, <2>5, <2>8, <3>2, <4>2 DEF DataOnce
        <4> QED
          BY <4>1, <4>2
      <3>3. ASSUME NEW i \in 1 .. Len(destroyed), NEW u \in KeyThreads, NEW d \in ending'[u].list
            PROVE  destroyed[i].data # d[2]
        <4>1. CASE u = t
          <5>1. PICK l \in C : d = <<key[l].destructor, key[l].values[t]>>
            BY <2>5, <2>9, <3>3, <4>1
          <5> QED
            BY <1>1, <2>2, <5>1 DEF DataOnce
        <4>2. CASE u # t
          BY <1>1, <2>5, <3>3, <4>2 DEF DataOnce
        <4> QED
          BY <4>1, <4>2
      <3>4. \A i \in 1 .. Len(destroyed), k \in Data!Keys, u \in KeyThreads :
               key'[k].values[u] # NoData => destroyed[i].data # key'[k].values[u]
        BY <1>1, <2>8 DEF DataOnce
      <3> QED
        BY <1>1, <2>1, <3>1, <3>2, <3>3, <3>4 DEF DataOnce
    <2>12. Data!NothingLeft'
      <3>1. ASSUME NEW u \in KeyThreads, ending'[u].at = "ended" PROVE Data!Collected(u)' = {}
        <4>1. Data!Collected(u) = {}
          BY <1>1, <2>5, <3>1 DEF Data!NothingLeft, C
        <4>2. \A k \in Data!Keys : k \in Data!Collected(u)' => k \in Data!Collected(u)
          BY <2>8 DEF Data!Collected
        <4>3. Data!Collected(u)' \subseteq Data!Keys
          BY DEF Data!Collected
        <4> QED
          BY <4>1, <4>2, <4>3
      <3> QED
        BY <3>1 DEF Data!NothingLeft
    <2> QED
      BY <2>7, <2>10, <2>11, <2>12 DEF DataInv
  <1> QED
    BY <1>2, <1>3

\* A destructor's call moves its value from the list to those destroyed.
LEMMA DataDestroys ==
    ASSUME DataInv, NEW t \in KeyThreads, Data!CallDestructor(t)
    PROVE  DataInv'
  <1>1. DataTypes /\ DataOrigin /\ DataOnce /\ Data!NothingLeft
    BY DEF DataInv
  <1>2. PICK d \in ending[t].list :
           /\ destroyed' = Append(destroyed, [data |-> d[2], destructor |-> d[1], by |-> t])
           /\ ending' = [ending EXCEPT ![t] =
                 Data!Ending(IF ending[t].list = {d} THEN "collect" ELSE "calling",
                             ending[t].iter, ending[t].list \ {d})]
    BY DEF Data!CallDestructor
  <1> DEFINE n == Len(destroyed) + 1
             call == [data |-> d[2], destructor |-> d[1], by |-> t]
  <1>3. /\ d \in Nat \X Nat /\ d[2] \in 1 .. Len(set) /\ set[d[2]] = [under |-> d[1], by |-> t]
    BY <1>1, DataFields DEF DataOrigin
  <1>4. UNCHANGED <<key, made, set>>
    BY DEF Data!CallDestructor
  <1>5. call \in [data : Nat, destructor : Nat, by : KeyThreads]
    BY <1>3
  <1>6. /\ Len(destroyed) \in Nat /\ Len(destroyed') = n /\ destroyed'[n] = call
        /\ \A i \in 1 .. Len(destroyed) : destroyed'[i] = destroyed[i]
        /\ \A i \in 1 .. n : i \in 1 .. Len(destroyed) \/ i = n
        /\ n \notin 1 .. Len(destroyed)
    BY <1>1, <1>2, <1>5 DEF DataTypes
  <1>7. DataTypes'
    <2>1. Data!Ending(IF ending[t].list = {d} THEN "collect" ELSE "calling",
                      ending[t].iter, ending[t].list \ {d}) \in AnEnding
      BY <1>1, DataFields DEF Data!Ending, AnEnding
    <2> QED
      BY <1>1, <1>2, <1>4, <1>5, <2>1 DEF DataTypes
  <1>8. /\ ending'[t].list = ending[t].list \ {d} /\ ending'[t].at # "ended"
        /\ \A u \in KeyThreads : u # t => ending'[u] = ending[u]
    BY <1>1, <1>2 DEF DataTypes, Data!Ending
  <1> HIDE DEF n
  <1>9. DataOrigin'
    <2>1. \A u \in KeyThreads : \A e \in ending'[u].list : e \in ending[u].list
      BY <1>8
    <2>2. \A i \in 1 .. n :
             /\ destroyed'[i].data \in 1 .. Len(set)
             /\ set[destroyed'[i].data] = [under |-> destroyed'[i].destructor, by |-> destroyed'[i].by]
      BY <1>1, <1>3, <1>6 DEF DataOrigin
    <2> QED
      BY <1>1, <1>4, <1>6, <2>1, <2>2 DEF DataOrigin
  <1>10. DataOnce'
    <2>1. ASSUME NEW u \in KeyThreads, NEW e \in ending'[u].list PROVE e \in ending[u].list /\ e[2] # d[2]
      <3>1. e \in ending[u].list
        BY <1>8, <2>1
      <3>2. set[e[2]] = [under |-> e[1], by |-> u] /\ e \in Nat \X Nat
        BY <1>1, <3>1, DataFields DEF DataOrigin
      <3>3. e[2] = d[2] => u = t /\ e = d
        <4>1. e[2] = d[2] => [under |-> e[1], by |-> u] = [under |-> d[1], by |-> t]
          BY <1>3, <3>2
        <4>2. e[2] = d[2] => u = t /\ e[1] = d[1]
          BY <4>1
        <4> QED
          BY <1>3, <3>2, <4>2
      <3> QED
        BY <1>8, <2>1, <3>1, <3>3
    <2>2. ASSUME NEW i \in 1 .. Len(destroyed) PROVE destroyed[i].data # d[2]
      BY <1>1 DEF DataOnce
    <2>3. ASSUME NEW k \in Data!Keys, NEW u \in KeyThreads, key[k].values[u] # NoData
          PROVE  d[2] # key[k].values[u]
      <3>1. CASE u = t
        BY <1>1, <2>3, <3>1 DEF DataOnce
      <3>2. CASE u # t
        <4>1. set[key[k].values[u]] = [under |-> key[k].destructor, by |-> u]
          BY <1>1, <2>3 DEF DataOrigin
        <4>2. d[2] = key[k].values[u] =>
                 [under |-> d[1], by |-> t] = [under |-> key[k].destructor, by |-> u]
          BY <1>3, <4>1
        <4> QED
          BY <3>2, <4>2
      <3> QED
        BY <3>1, <3>2
    <2>4. /\ \A i \in 1 .. n, k \in Data!Keys, u \in KeyThreads :
                key[k].values[u] # NoData => destroyed'[i].data # key[k].values[u]
          /\ \A i \in 1 .. n, u \in KeyThreads : \A e \in ending'[u].list : destroyed'[i].data # e[2]
      BY <1>1, <1>6, <2>1, <2>3 DEF DataOnce
    <2>5. \A i, j \in 1 .. n : destroyed'[i].data = destroyed'[j].data => i = j
      BY <1>1, <1>6, <2>2 DEF DataOnce
    <2> QED
      BY <1>1, <1>4, <1>6, <2>1, <2>4, <2>5 DEF DataOnce
  <1>11. Data!NothingLeft'
    BY <1>1, <1>4, <1>8 DEF Data!NothingLeft, Data!Collected
  <1> QED
    BY <1>7, <1>9, <1>10, <1>11 DEF DataInv

LEMMA DataKeeps == DataInv /\ [Data!Next]_(Data!vars) => DataInv'
  <1> SUFFICES ASSUME DataInv, [Data!Next]_(Data!vars) PROVE DataInv'
    OBVIOUS
  <1>0. DataTypes
    BY DEF DataInv
  <1>1. ASSUME NEW t \in KeyThreads, NEW with \in BOOLEAN, Data!Create(t, with) PROVE DataInv'
    <2>1. PICK k \in Data!Keys : k = Data!FirstUnused
      <3>1. {k \in Data!Keys : ~key[k].used} # {} /\ Data!Keys \subseteq Nat
        BY <1>1 DEF Data!Create, Data!Keys
      <3>2. PICK l \in {k \in Data!Keys : ~key[k].used} :
               \A k \in {k \in Data!Keys : ~key[k].used} : l <= k
        BY <3>1, LeastNumber
      <3> QED
        BY <3>2 DEF Data!FirstUnused, Data!Min
    <2> DEFINE destructor == IF with THEN made + 1 ELSE 0
    <2>2. destructor \in Nat /\ TRUE \in BOOLEAN /\ made' \in Nat
      BY <1>0, <1>1 DEF Data!Create, DataTypes
    <2>3. key' = [key EXCEPT ![k] = Data!Key(TRUE, destructor, Data!Nothing)]
      BY <1>1, <2>1 DEF Data!Create, Data!Cleared
    <2>4. UNCHANGED <<ending, set, destroyed>>
      BY <1>1 DEF Data!Create
    <2> QED
      BY <2>2, <2>3, <2>4, DataForgets
  <1>2. ASSUME NEW t \in KeyThreads, NEW k \in Data!Keys, Data!Delete(t, k) PROVE DataInv'
    BY <1>0, <1>2, DataForgets DEF Data!Delete, Data!Cleared, DataTypes
  <1>3. ASSUME NEW t \in KeyThreads, Data!ThreadEnds(t) PROVE DataInv'
    BY <1>3, DataDrops DEF Data!ThreadEnds
  <1>4. CASE UNCHANGED Data!vars
    BY <1>4 DEF Data!vars, DataInv, DataTypes, DataOrigin, DataOnce, Data!NothingLeft, Data!Collected
  <1> QED
    BY <1>1, <1>2, <1>3, <1>4, DataSets, DataCollects, DataDestroys DEF Data!Next

\* Values are destroyed once, by their thread and their key's destructor, and a
\* thread that has ended leaves none behind; the routine of pthread_once runs once
\* and nobody is back before it has ended.
THEOREM KeysAndOnceCorrect == Data!Spec /\ Once!Spec => []KeysAndOnceSound
  <1>1. DataInv => Data!KeysSound
    <2> SUFFICES ASSUME DataInv PROVE Data!KeysSound
      OBVIOUS
    <2>1. Data!TypeOK
      BY DataFields DEF DataInv, DataOrigin, Data!TypeOK
    <2>2. Data!DestroyedRightly
      BY DEF DataInv, DataOrigin, DataOnce, Data!DestroyedRightly
    <2> QED
      BY <2>1, <2>2 DEF DataInv, Data!KeysSound
  <1>2. Data!Spec => []Data!KeysSound
    BY <1>1, DataInit, DataKeeps, PTL DEF Data!Spec
  <1>3. Data!KeysSound /\ Once!OnceSound <=> KeysAndOnceSound
    BY DEF KeysAndOnceSound
  <1> QED
    BY <1>2, <1>3, OnceCorrect, PTL
-----------------------------------------------------------------------------
(* Mutexes and condition variables.  The lists of waiters are followed from  *)
(* wait to wakeup, the levels of a mutex across a wait.                       *)

\* A wait has given its mutex back.
GaveBack(t) == wait[t].phase \in {"check", "asleep", "relock"}

\* Levels are kept by the mutex, or by the wait that gave them back.
Level(t, m) == depth[t][m] = IF GaveBack(t) /\ wait[t].mutex = m THEN wait[t].recurse
                             ELSE IF mutexOwner[m] = t THEN count[m] ELSE 0

Giving(t) == /\ GaveBack(t) => mutexOwner[wait[t].mutex] # t /\ wait[t].recurse >= 1
             /\ wait[t].phase = "unlock" => mutexOwner[wait[t].mutex] = t

CondLevels ==
    /\ \A m \in Mutexes : mutexOwner[m] = None <=> count[m] = 0
    /\ \A t \in Threads : Giving(t) /\ \A m \in Mutexes : Level(t, m)

\* Who holds cond.m, and what a wait has seen of the sequences.
Holding(t) == \A c \in Conds :
    cond_lock[c] = t <=> wait[t].phase \in {"unlock", "check"} /\ wait[t].cond = c

Seen(t) == Cond!InWait(t) =>
    /\ wait[t].sequence <= sequence[wait[t].cond]
    /\ wait[t].thread_sequence <= cond_sequence[t]
    /\ wait[t].expiry = "now" => wait[t].phase # "asleep" /\ ~Cond!Ready(t)

CondLocks == \A t \in Threads : Holding(t) /\ Seen(t)

\* Who has a wakeup and has not returned it.
Awake(t) == \/ Cond!InWait(t) /\ Cond!Ready(t)
            \/ wait[t].phase = "relock" /\ wait[t].ok

WokenThreads == {t \in Threads : Awake(t)}

CondInv == /\ Cond!TypeOK /\ CondLevels /\ CondLocks /\ Cond!WaitersExact
           /\ wakes = oks + Cardinality(WokenThreads)

\* The instance has the operators of the lists, too.
LEMMA CondLists ==
    ASSUME NEW s, NEW t
    PROVE  /\ Cond!RemoveFirst(s, t) = RemoveFirst(s, t)
           /\ Cond!ToSet(s) = ToSet(s) /\ (Cond!IsInjective(s) <=> IsInjective(s))
  BY DEF Cond!RemoveFirst, Cond!RemoveAt, Cond!SelectInSeq, Cond!Min, Cond!ToSet, Cond!IsInjective,
         RemoveFirst, RemoveAt, SelectInSeq, Min, ToSet, IsInjective

LEMMA CondSets ==
    ASSUME NEW S
    PROVE  (Cond!IsFiniteSet(S) <=> IsFiniteSet(S)) /\ Cond!Cardinality(S) = Cardinality(S)
  <1>1. Cond!IsFiniteSet(S) <=> IsFiniteSet(S)
    BY DEF Cond!IsFiniteSet, IsFiniteSet
  <1>2. Cond!Cardinality(S) = Cardinality(S)
    BY DEF Cond!Cardinality, Cardinality
  <1> QED
    BY <1>1, <1>2

\* The fields of a call.
LEMMA CondFields ==
    ASSUME Cond!TypeOK, NEW t \in Threads
    PROVE  /\ wait[t].phase \in {"none", "unlock", "check", "asleep", "relock"}
           /\ wait[t].cond \in Conds /\ wait[t].mutex \in Mutexes
           /\ wait[t].expiry \in {"never", "now", "later", "past"} /\ wait[t].ok \in BOOLEAN
           /\ wait[t].sequence \in Nat /\ wait[t].thread_sequence \in Nat /\ wait[t].recurse \in Nat
           /\ sequence[wait[t].cond] \in Nat /\ cond_sequence[t] \in Nat
  BY DEF Cond!TypeOK, Cond!Call

\* What the steps of a wait change in its call.
Same(x, y) == /\ x.cond = y.cond /\ x.mutex = y.mutex
              /\ x.sequence = y.sequence /\ x.thread_sequence = y.thread_sequence

Edited(w, t, phase, expiry, recurse, ok) ==
    /\ w \in [Threads -> Cond!Call] /\ Same(w[t], wait[t])
    /\ w[t].phase = phase /\ w[t].expiry = expiry /\ w[t].recurse = recurse /\ w[t].ok = ok
    /\ \A u \in Threads : u # t => w[u] = wait[u]

LEMMA CondEdits ==
    ASSUME Cond!TypeOK, NEW t \in Threads, NEW w, NEW n \in Nat, NEW o \in BOOLEAN,
           NEW p \in {"check", "asleep", "relock"}
    PROVE  /\ w = [wait EXCEPT ![t].phase = p]
                 => Edited(w, t, p, wait[t].expiry, wait[t].recurse, wait[t].ok)
           /\ w = [wait EXCEPT ![t].expiry = "past"]
                 => Edited(w, t, wait[t].phase, "past", wait[t].recurse, wait[t].ok)
           /\ w = [wait EXCEPT ![t].phase = p, ![t].recurse = n]
                 => Edited(w, t, p, wait[t].expiry, n, wait[t].ok)
           /\ w = [wait EXCEPT ![t].phase = p, ![t].ok = o]
                 => Edited(w, t, p, wait[t].expiry, wait[t].recurse, o)
  <1>1. wait \in [Threads -> Cond!Call]
    BY DEF Cond!TypeOK
  <1>2. ASSUME w = [wait EXCEPT ![t].phase = p]
        PROVE  Edited(w, t, p, wait[t].expiry, wait[t].recurse, wait[t].ok)
    BY <1>1, <1>2 DEF Cond!Call, Same, Edited
  <1>3. ASSUME w = [wait EXCEPT ![t].expiry = "past"]
        PROVE  Edited(w, t, wait[t].phase, "past", wait[t].recurse, wait[t].ok)
    BY <1>1, <1>3 DEF Cond!Call, Same, Edited
  <1>4. ASSUME w = [wait EXCEPT ![t].phase = p, ![t].recurse = n]
        PROVE  Edited(w, t, p, wait[t].expiry, n, wait[t].ok)
    BY <1>1, <1>4 DEF Cond!Call, Same, Edited
  <1>5. ASSUME w = [wait EXCEPT ![t].phase = p, ![t].ok = o]
        PROVE  Edited(w, t, p, wait[t].expiry, wait[t].recurse, o)
    BY <1>1, <1>5 DEF Cond!Call, Same, Edited
  <1> QED
    BY <1>2, <1>3, <1>4, <1>5

LEMMA CondFirstCall ==
    ASSUME Cond!PthreadCondAssumption
    PROVE  /\ Cond!NoCall \in Cond!Call /\ Cond!NoCall.phase = "none" /\ Cond!NoCall.expiry = "never"
           /\ Cond!NoCall.ok = FALSE
  <1>1. (CHOOSE c \in Conds : TRUE) \in Conds /\ (CHOOSE m \in Mutexes : TRUE) \in Mutexes
    BY DEF Cond!PthreadCondAssumption
  <1> QED
    BY <1>1 DEF Cond!NoCall, Cond!Call

\* The threads with a wakeup are a finite set.
LEMMA CondFinite ==
    ASSUME Cond!PthreadCondAssumption
    PROVE  IsFiniteSet(WokenThreads) /\ Cardinality(WokenThreads) \in Nat
  <1>1. WokenThreads \subseteq Threads
    BY DEF WokenThreads
  <1> QED
    BY <1>1, CondSets, FS_Subset, FS_CardinalityType DEF Cond!PthreadCondAssumption

LEMMA CondStarts == Cond!PthreadCondAssumption /\ Cond!Init => CondInv
  <1> SUFFICES ASSUME Cond!PthreadCondAssumption, Cond!Init PROVE CondInv
    OBVIOUS
  <1>1. \A t \in Threads : wait[t] = Cond!NoCall
    BY DEF Cond!Init
  <1>2. Cond!TypeOK
    BY <1>1, CondFirstCall DEF Cond!Init, Cond!TypeOK
  <1>3. CondLevels
    BY <1>1, CondFirstCall DEF Cond!Init, CondLevels, Level, Giving, GaveBack
  <1>4. CondLocks
    BY <1>1, CondFirstCall
    DEF Cond!Init, CondLocks, Holding, Seen, Cond!InWait, Cond!PthreadCondAssumption
  <1>5. Cond!WaitersExact
    <2>1. \A c \in Conds : waiters[c] = <<>> /\ Cond!ToSet(waiters[c]) = {}
      BY DEF Cond!Init, Cond!ToSet
    <2>2. \A c \in Conds : Cond!IsInjective(waiters[c])
      BY <2>1 DEF Cond!IsInjective
    <2>3. \A t \in Threads : ~Cond!InWait(t) /\ waiting_cond[t] \notin Conds
      BY <1>1, CondFirstCall DEF Cond!Init, Cond!InWait, Cond!PthreadCondAssumption
    <2> QED
      BY <2>1, <2>2, <2>3 DEF Cond!WaitersExact
  <1>6. WokenThreads = {}
    BY <1>1, CondFirstCall DEF WokenThreads, Awake, Cond!InWait
  <1> QED
    BY <1>2, <1>3, <1>4, <1>5, <1>6, FS_EmptySet DEF Cond!Init, CondInv

\* A step that leaves the lists, the sequences and what the waits are about alone.
LEMMA CondQuiet ==
    ASSUME CondInv, UNCHANGED Cond!condVars,
           \A u \in Threads :
              /\ wait'[u].cond = wait[u].cond /\ wait'[u].sequence = wait[u].sequence
              /\ wait'[u].thread_sequence = wait[u].thread_sequence /\ wait'[u].ok = wait[u].ok
              /\ wait'[u].phase = wait[u].phase \/ (Cond!InWait(u) /\ Cond!InWait(u)')
    PROVE  /\ \A u \in Threads : Cond!Ready(u)' <=> Cond!Ready(u)
           /\ \A u \in Threads : Cond!InWait(u)' <=> Cond!InWait(u)
           /\ Cond!WaitersExact' /\ WokenThreads' = WokenThreads
  <1>1. \A u \in Threads : Cond!Ready(u)' <=> Cond!Ready(u)
    BY DEF Cond!condVars, Cond!Ready
  <1>2. \A u \in Threads : Cond!InWait(u)' <=> Cond!InWait(u)
    BY DEF Cond!InWait
  <1>3. Cond!WaitersExact'
    BY <1>1, <1>2 DEF CondInv, Cond!WaitersExact, Cond!condVars
  <1>4. \A u \in Threads : Awake(u)' <=> Awake(u)
    BY <1>1, <1>2 DEF Awake, Cond!InWait
  <1> QED
    BY <1>1, <1>2, <1>3, <1>4 DEF WokenThreads

LEMMA CondCounts ==
    ASSUME Cond!TypeOK, NEW t \in Threads, calls' = calls \/ Cond!Counted(t)
    PROVE  calls' \in [Threads -> Nat]
  <1>1. calls \in [Threads -> Nat]
    BY DEF Cond!TypeOK
  <1> QED
    BY <1>1 DEF Cond!Counted

\* The others, when t takes or gives back a mutex or a lock of a variable.
LEMMA CondOthersLevels ==
    ASSUME CondLevels, Cond!TypeOK, Cond!PthreadCondAssumption,
           NEW t \in Threads, NEW m \in Mutexes,
           {mutexOwner[m], mutexOwner'[m]} \subseteq {None, t},
           \A l \in Mutexes : l # m => mutexOwner'[l] = mutexOwner[l] /\ count'[l] = count[l],
           \A u \in Threads : u # t =>
              wait'[u] = wait[u] /\ \A l \in Mutexes : depth'[u][l] = depth[u][l]
    PROVE  \A u \in Threads : u # t => Giving(u)' /\ \A l \in Mutexes : Level(u, l)'
  <1> SUFFICES ASSUME NEW u \in Threads, u # t
               PROVE  Giving(u)' /\ \A l \in Mutexes : Level(u, l)'
    OBVIOUS
  <1>1. /\ wait'[u] = wait[u] /\ wait[u].mutex \in Mutexes /\ u # None
        /\ mutexOwner[m] # u /\ mutexOwner'[m] # u
    BY CondFields DEF Cond!PthreadCondAssumption
  <1>2. Giving(u) /\ \A l \in Mutexes : Level(u, l)
    BY DEF CondLevels
  <1>3. GaveBack(u)' <=> GaveBack(u)
    BY <1>1 DEF GaveBack
  <1>4. Giving(u)'
    BY <1>1, <1>2, <1>3 DEF Giving
  <1>5. ASSUME NEW l \in Mutexes PROVE Level(u, l)'
    BY <1>1, <1>2, <1>3 DEF Level
  <1> QED
    BY <1>4, <1>5

LEMMA CondOthersLocks ==
    ASSUME CondLocks, Cond!PthreadCondAssumption, NEW t \in Threads, NEW c \in Conds,
           {cond_lock[c], cond_lock'[c]} \subseteq {None, t},
           \A d \in Conds : d # c => cond_lock'[d] = cond_lock[d],
           \A u \in Threads : u # t => wait'[u] = wait[u]
    PROVE  \A u \in Threads : u # t => Holding(u)'
  <1> SUFFICES ASSUME NEW u \in Threads, u # t PROVE Holding(u)'
    OBVIOUS
  <1>1. Holding(u) /\ wait'[u] = wait[u] /\ cond_lock[c] # u /\ cond_lock'[c] # u
    BY DEF CondLocks, Cond!PthreadCondAssumption
  <1> QED
    BY <1>1 DEF Holding

LEMMA CondMutexes ==
    ASSUME CondInv, Cond!PthreadCondAssumption, NEW t \in Threads, NEW m \in Mutexes,
           Cond!NativeMutexLock(t, m) \/ Cond!NativeMutexUnlock(t, m)
    PROVE  CondInv'
  <1>1. /\ Cond!TypeOK /\ CondLevels /\ CondLocks /\ Cond!WaitersExact
        /\ wakes = oks + Cardinality(WokenThreads)
    BY DEF CondInv
  <1>2. /\ UNCHANGED <<Cond!condVars, cond_lock, wait, wakes, oks>>
        /\ calls' = calls \/ Cond!Counted(t)
    BY DEF Cond!NativeMutexLock, Cond!NativeMutexUnlock
  <1>3. /\ Cond!WaitersExact' /\ WokenThreads' = WokenThreads
        /\ \A u \in Threads : Cond!Ready(u)' <=> Cond!Ready(u)
    BY <1>2, CondQuiet
  <1>4. CondLocks'
    BY <1>1, <1>2, <1>3 DEF CondLocks, Holding, Seen, Cond!InWait, Cond!condVars
  <1>5. /\ wait[t].phase = "none" /\ t # None
        /\ \A l \in Mutexes : depth[t][l] = IF mutexOwner[l] = t THEN count[l] ELSE 0
    BY <1>1 DEF Cond!NativeMutexLock, Cond!NativeMutexUnlock, Cond!Free, Cond!PthreadCondAssumption,
       CondLevels, Level, GaveBack
  <1>6. /\ mutexOwner[m] \in {None, t} /\ count[m] \in Nat /\ depth[t][m] = count[m]
        /\ mutexOwner[m] = None <=> count[m] = 0
    BY <1>1, <1>5 DEF Cond!NativeMutexLock, Cond!MayTake, Cond!NativeMutexUnlock, Cond!Owns, CondLevels,
       Cond!TypeOK
  <1> DEFINE n == count'[m]
  <1>7. /\ n \in Nat /\ mutexOwner' = [mutexOwner EXCEPT ![m] = IF n = 0 THEN None ELSE t]
        /\ count' = [count EXCEPT ![m] = n] /\ depth' = [depth EXCEPT ![t][m] = n]
    <2>1. CASE Cond!NativeMutexLock(t, m)
      <3>1. /\ mutexOwner' = [mutexOwner EXCEPT ![m] = t] /\ count' = [count EXCEPT ![m] = count[m] + 1]
            /\ depth' = [depth EXCEPT ![t][m] = depth[t][m] + 1]
        BY <2>1 DEF Cond!NativeMutexLock
      <3>2. n = count[m] + 1 /\ n \in Nat /\ n # 0 /\ n = depth[t][m] + 1
        BY <1>1, <1>6, <3>1 DEF Cond!TypeOK
      <3> HIDE DEF n
      <3> QED
        BY <3>1, <3>2
    <2>2. CASE Cond!NativeMutexUnlock(t, m)
      <3>1. /\ mutexOwner' = [mutexOwner EXCEPT ![m] = IF count[m] > 1 THEN t ELSE None]
            /\ count' = [count EXCEPT ![m] = count[m] - 1]
            /\ depth' = [depth EXCEPT ![t][m] = depth[t][m] - 1] /\ count[m] >= 1
        BY <1>5, <1>6, <2>2 DEF Cond!NativeMutexUnlock, Cond!Owns
      <3>2. n = count[m] - 1 /\ n \in Nat /\ (n = 0 <=> ~(count[m] > 1)) /\ n = depth[t][m] - 1
        BY <1>1, <1>6, <3>1 DEF Cond!TypeOK
      <3> HIDE DEF n
      <3>3. (IF count[m] > 1 THEN t ELSE None) = IF n = 0 THEN None ELSE t
        BY <3>2
      <3> QED
        BY <3>1, <3>2, <3>3
    <2> QED
      BY <2>1, <2>2
  <1> HIDE DEF n
  <1>8. /\ mutexOwner'[m] = (IF n = 0 THEN None ELSE t) /\ count'[m] = n /\ depth'[t][m] = n
        /\ \A l \in Mutexes : l # m => /\ mutexOwner'[l] = mutexOwner[l] /\ count'[l] = count[l]
                                       /\ depth'[t][l] = depth[t][l]
        /\ \A u \in Threads, l \in Mutexes : u # t => depth'[u][l] = depth[u][l]
    BY <1>1, <1>7 DEF Cond!TypeOK
  <1>9. Cond!TypeOK'
    <2>1. mutexOwner' \in [Mutexes -> Threads \cup {None}] /\ count' \in [Mutexes -> Nat]
      BY <1>1, <1>7 DEF Cond!TypeOK
    <2>2. depth' \in [Threads -> [Mutexes -> Nat]]
      BY <1>1, <1>7 DEF Cond!TypeOK
    <2> QED
      BY <1>1, <1>2, <2>1, <2>2, CondCounts DEF Cond!TypeOK, Cond!condVars
  <1>10. CondLevels'
    <2>1. \A u \in Threads : u # t => Giving(u)' /\ \A l \in Mutexes : Level(u, l)'
      BY <1>1, <1>2, <1>6, <1>8, CondOthersLevels
    <2>2. Giving(t)' /\ ~GaveBack(t)'
      BY <1>2, <1>5 DEF Giving, GaveBack
    <2>3. \A l \in Mutexes : Level(t, l)'
      BY <1>2, <1>5, <1>8, <2>2 DEF Level
    <2>4. \A l \in Mutexes : mutexOwner'[l] = None <=> count'[l] = 0
      BY <1>1, <1>5, <1>8 DEF CondLevels
    <2> QED
      BY <2>1, <2>2, <2>3, <2>4 DEF CondLevels
  <1> QED
    BY <1>1, <1>2, <1>3, <1>4, <1>9, <1>10 DEF CondInv

\* Inside a wait, before it is over: all levels are given back.
LEMMA CondUnlocks ==
    ASSUME CondInv, Cond!PthreadCondAssumption, NEW t \in Threads, Cond!WaitUnlock(t)
    PROVE  CondInv'
  <1>1. /\ Cond!TypeOK /\ CondLevels /\ CondLocks /\ Cond!WaitersExact
        /\ wakes = oks + Cardinality(WokenThreads)
    BY DEF CondInv
  <1> DEFINE m == wait[t].mutex
  <1>2. m \in Mutexes /\ t # None
    BY <1>1, CondFields DEF Cond!PthreadCondAssumption
  <1>3. /\ wait[t].phase = "unlock"
        /\ wait' = [wait EXCEPT ![t].phase = "check", ![t].recurse = count[m]]
        /\ mutexOwner' = [mutexOwner EXCEPT ![m] = None] /\ count' = [count EXCEPT ![m] = 0]
        /\ UNCHANGED <<Cond!condVars, cond_lock, calls, depth, wakes, oks>>
    BY DEF Cond!WaitUnlock, Cond!SavedCount, Cond!historyVars
  <1>4. mutexOwner[m] = t /\ count[m] \in Nat /\ count[m] >= 1
    BY <1>1, <1>2, <1>3 DEF CondLevels, Giving, Cond!TypeOK
  <1>5. Edited(wait', t, "check", wait[t].expiry, count[m], wait[t].ok)
    BY <1>1, <1>3, <1>4, CondEdits
  <1>6. Cond!TypeOK'
    <2>1. wait' \in [Threads -> Cond!Call]
      BY <1>5 DEF Edited
    <2>2. mutexOwner' \in [Mutexes -> Threads \cup {None}] /\ count' \in [Mutexes -> Nat]
      BY <1>1, <1>3 DEF Cond!TypeOK
    <2> QED
      BY <1>1, <1>3, <2>1, <2>2 DEF Cond!TypeOK, Cond!condVars
  <1>7. /\ mutexOwner'[m] = None /\ count'[m] = 0
        /\ \A l \in Mutexes : l # m => mutexOwner'[l] = mutexOwner[l] /\ count'[l] = count[l]
    BY <1>1, <1>2, <1>3 DEF Cond!TypeOK
  <1> HIDE DEF m
  <1>8. CondLevels'
    <2>1. \A u \in Threads : u # t => Giving(u)' /\ \A l \in Mutexes : Level(u, l)'
      BY <1>1, <1>2, <1>3, <1>4, <1>5, <1>7, CondOthersLevels DEF Edited
    <2>2. Giving(t)' /\ GaveBack(t)'
      BY <1>2, <1>4, <1>5, <1>7 DEF Giving, GaveBack, Edited, Same, m
    <2>3. \A l \in Mutexes : depth[t][l] = IF mutexOwner[l] = t THEN count[l] ELSE 0
      BY <1>1, <1>3 DEF CondLevels, Level, GaveBack
    <2>4. \A l \in Mutexes : Level(t, l)'
      BY <1>2, <1>3, <1>4, <1>5, <1>7, <2>2, <2>3 DEF Level, Edited, Same, m
    <2>5. \A l \in Mutexes : mutexOwner'[l] = None <=> count'[l] = 0
      BY <1>1, <1>7 DEF CondLevels
    <2> QED
      BY <2>1, <2>2, <2>4, <2>5 DEF CondLevels
  <1>9. /\ Cond!WaitersExact' /\ WokenThreads' = WokenThreads
        /\ \A u \in Threads : (Cond!Ready(u)' <=> Cond!Ready(u)) /\ (Cond!InWait(u)' <=> Cond!InWait(u))
    <2>1. \A u \in Threads : wait'[u] = wait[u] \/ u = t
      BY <1>5 DEF Edited
    <2> QED
      BY <1>3, <1>5, <2>1, CondQuiet DEF Cond!InWait, Edited, Same
  <1>10. CondLocks'
    <2>1. \A u \in Threads : Holding(u)'
      BY <1>1, <1>3, <1>5 DEF CondLocks, Holding, Edited, Same
    <2>2. \A u \in Threads : Seen(u)'
      BY <1>1, <1>3, <1>5, <1>9 DEF CondLocks, Seen, Cond!InWait, Cond!condVars, Edited, Same
    <2> QED
      BY <2>1, <2>2 DEF CondLocks
  <1> QED
    BY <1>1, <1>3, <1>6, <1>8, <1>9, <1>10 DEF CondInv

\* It sleeps, looks again, and its deadline passes.
LEMMA CondSleeps ==
    ASSUME CondInv, Cond!PthreadCondAssumption, NEW t \in Threads,
           Cond!WaitSleep(t) \/ Cond!WaitLook(t) \/ Cond!Deadline(t)
    PROVE  CondInv'
  <1>1. /\ Cond!TypeOK /\ CondLevels /\ CondLocks /\ Cond!WaitersExact
        /\ wakes = oks + Cardinality(WokenThreads)
    BY DEF CondInv
  <1> DEFINE c == wait[t].cond
             p == wait'[t].phase
  <1>2. c \in Conds /\ t # None
    BY <1>1, CondFields DEF Cond!PthreadCondAssumption
  <1>3. UNCHANGED <<mutexOwner, count, Cond!condVars, calls, depth, wakes, oks>>
    BY DEF Cond!WaitSleep, Cond!WaitLook, Cond!Deadline, Cond!historyVars, Cond!mutexVars
  <1>4. \/ /\ wait[t].phase = "check" /\ wait[t].expiry \in {"never", "later"}
           /\ Edited(wait', t, "asleep", wait[t].expiry, wait[t].recurse, wait[t].ok)
           /\ cond_lock' = [cond_lock EXCEPT ![c] = None]
        \/ /\ wait[t].phase = "asleep" /\ cond_lock[c] = None
           /\ Edited(wait', t, "check", wait[t].expiry, wait[t].recurse, wait[t].ok)
           /\ cond_lock' = [cond_lock EXCEPT ![c] = t]
        \/ /\ Edited(wait', t, wait[t].phase, "past", wait[t].recurse, wait[t].ok)
           /\ cond_lock' = cond_lock
    <2>1. CASE Cond!WaitSleep(t)
      BY <1>1, <2>1, CondEdits DEF Cond!WaitSleep
    <2>2. CASE Cond!WaitLook(t)
      BY <1>1, <2>2, CondEdits DEF Cond!WaitLook
    <2>3. CASE Cond!Deadline(t)
      BY <1>1, <2>3, CondEdits DEF Cond!Deadline
    <2> QED
      BY <2>1, <2>2, <2>3
  <1>5. /\ wait' \in [Threads -> Cond!Call]
        /\ wait'[t].recurse = wait[t].recurse /\ wait'[t].mutex = wait[t].mutex
        /\ wait'[t].cond = c /\ wait'[t].ok = wait[t].ok
        /\ wait'[t].sequence = wait[t].sequence /\ wait'[t].thread_sequence = wait[t].thread_sequence
        /\ \A u \in Threads : u # t => wait'[u] = wait[u]
    BY <1>4 DEF Edited, Same
  <1>6. \/ /\ wait[t].phase = "check" /\ p = "asleep" /\ wait[t].expiry \in {"never", "later"}
           /\ cond_lock' = [cond_lock EXCEPT ![c] = None] /\ wait'[t].expiry = wait[t].expiry
        \/ /\ wait[t].phase = "asleep" /\ p = "check" /\ cond_lock[c] = None
           /\ cond_lock' = [cond_lock EXCEPT ![c] = t] /\ wait'[t].expiry = wait[t].expiry
        \/ p = wait[t].phase /\ cond_lock' = cond_lock /\ wait'[t].expiry = "past"
    BY <1>4 DEF Edited
  <1>7. Cond!TypeOK'
    <2>1. wait' \in [Threads -> Cond!Call]
      BY <1>5
    <2>2. cond_lock' \in [Conds -> Threads \cup {None}]
      BY <1>1, <1>6 DEF Cond!TypeOK
    <2> QED
      BY <1>1, <1>3, <2>1, <2>2 DEF Cond!TypeOK, Cond!condVars
  <1>8. CondLevels'
    <2>1. GaveBack(t)' <=> GaveBack(t)
      BY <1>6 DEF GaveBack
    <2>2. p = "unlock" => wait[t].phase = "unlock"
      BY <1>6
    <2>3. \A u \in Threads : GaveBack(u)' <=> GaveBack(u)
      BY <1>5, <2>1 DEF GaveBack
    <2>4. \A u \in Threads, l \in Mutexes : Level(u, l)'
      BY <1>1, <1>3, <1>5, <2>3 DEF CondLevels, Level
    <2>5. \A u \in Threads : Giving(u)'
      BY <1>1, <1>3, <1>5, <2>2, <2>3 DEF CondLevels, Giving
    <2> QED
      BY <1>1, <1>3, <2>4, <2>5 DEF CondLevels
  <1>9. /\ Cond!WaitersExact' /\ WokenThreads' = WokenThreads
        /\ \A u \in Threads : (Cond!Ready(u)' <=> Cond!Ready(u)) /\ (Cond!InWait(u)' <=> Cond!InWait(u))
    BY <1>3, <1>5, <1>6, CondQuiet DEF Cond!InWait
  <1>10. CondLocks'
    <2>1. Holding(t) /\ Seen(t)
      BY <1>1 DEF CondLocks
    <2>2. /\ {cond_lock[c], cond_lock'[c]} \subseteq {None, t} \/ cond_lock' = cond_lock
          /\ \A d \in Conds : d # c => cond_lock'[d] = cond_lock[d]
      <3>1. wait[t].phase = "check" => cond_lock[c] = t
        BY <1>2, <2>1 DEF Holding
      <3> QED
        BY <1>1, <1>2, <1>6, <3>1 DEF Cond!TypeOK
    <2>3. \A u \in Threads : u # t => Holding(u)'
      <3>1. CASE cond_lock' = cond_lock
        BY <1>1, <1>5, <3>1 DEF CondLocks, Holding
      <3>2. CASE {cond_lock[c], cond_lock'[c]} \subseteq {None, t}
        BY <1>1, <1>2, <1>5, <2>2, <3>2, CondOthersLocks
      <3> QED
        BY <2>2, <3>1, <3>2
    <2>4. Holding(t)'
      <3>1. CASE cond_lock' = cond_lock /\ p = wait[t].phase
        BY <1>5, <2>1, <3>1 DEF Holding
      <3>2. CASE p \in {"asleep", "check"} /\ cond_lock' = [cond_lock EXCEPT ![c] = IF p = "check" THEN t ELSE None]
        <4>1. /\ cond_lock'[c] = t <=> p = "check"
              /\ \A d \in Conds : d # c => cond_lock'[d] # t
          BY <1>1, <1>2, <2>1, <3>2 DEF Holding, Cond!TypeOK
        <4> QED
          BY <1>2, <1>5, <3>2, <4>1 DEF Holding
      <3> QED
        BY <1>6, <3>1, <3>2
    <2>5. \A u \in Threads : Seen(u)'
      BY <1>1, <1>3, <1>5, <1>6, <1>9 DEF CondLocks, Seen, Cond!InWait, Cond!condVars
    <2> QED
      BY <2>3, <2>4, <2>5 DEF CondLocks
  <1> QED
    BY <1>1, <1>3, <1>7, <1>8, <1>9, <1>10 DEF CondInv

\* WaitersExact, list by list.
Exact(t, c) == /\ t \in ToSet(waiters[c]) <=> Cond!InWait(t) /\ wait[t].cond = c /\ ~Cond!Ready(t)
               /\ t \in ToSet(waiters[c]) <=> waiting_cond[t] = c

LEMMA CondExact ==
    ASSUME Cond!WaitersExact
    PROVE  /\ \A c \in Conds : IsInjective(waiters[c])
           /\ \A t \in Threads, c \in Conds : Exact(t, c)
  BY CondLists DEF Cond!WaitersExact, Exact

LEMMA CondExactNext ==
    ASSUME \A c \in Conds : IsInjective(waiters'[c]),
           \A t \in Threads, c \in Conds : Exact(t, c)'
    PROVE  Cond!WaitersExact'
  BY CondLists DEF Cond!WaitersExact, Exact

\* A wait begins: it registers under cond.m and keeps it.
LEMMA CondBegins ==
    ASSUME CondInv, Cond!PthreadCondAssumption, NEW t \in Threads, NEW c \in Conds, NEW m \in Mutexes,
           NEW e \in {"never", "now", "later"}, Cond!WaitBegin(t, c, m, e)
    PROVE  CondInv'
  <1>1. /\ Cond!TypeOK /\ CondLevels /\ CondLocks /\ Cond!WaitersExact
        /\ wakes = oks + Cardinality(WokenThreads)
    BY DEF CondInv
  <1> DEFINE call == [Cond!NoCall EXCEPT !.phase = "unlock", !.cond = c, !.mutex = m, !.expiry = e,
                         !.sequence = sequence[c], !.thread_sequence = cond_sequence[t]]
  <1>2. /\ wait[t].phase = "none" /\ t # None /\ mutexOwner[m] = t /\ cond_lock[c] = None
        /\ cond_lock' = [cond_lock EXCEPT ![c] = t]
        /\ waiters' = [waiters EXCEPT ![c] = Append(@, t)]
        /\ waiting_cond' = [waiting_cond EXCEPT ![t] = c]
        /\ wait' = [wait EXCEPT ![t] = call]
        /\ UNCHANGED <<mutexOwner, count, sequence, cond_sequence, depth, wakes, oks>>
    BY DEF Cond!WaitBegin, Cond!Free, Cond!Owns, Cond!PthreadCondAssumption, Cond!mutexVars,
       Cond!historyVars
  <1>3. /\ call \in Cond!Call /\ call.phase = "unlock" /\ call.cond = c /\ call.mutex = m
        /\ call.expiry = e /\ call.sequence = sequence[c] /\ call.thread_sequence = cond_sequence[t]
        /\ sequence[c] \in Nat /\ cond_sequence[t] \in Nat
    BY <1>1, CondFirstCall DEF Cond!Call, Cond!TypeOK
  <1> HIDE DEF call
  <1>4. wait'[t] = call /\ \A u \in Threads : u # t => wait'[u] = wait[u]
    BY <1>1, <1>2 DEF Cond!TypeOK
  <1>5. Cond!TypeOK'
    <2>1. wait' \in [Threads -> Cond!Call]
      BY <1>1, <1>2, <1>3 DEF Cond!TypeOK
    <2>2. cond_lock' \in [Conds -> Threads \cup {None}] /\ waiting_cond' \in [Threads -> Conds \cup {None}]
      BY <1>1, <1>2 DEF Cond!TypeOK
    <2>3. waiters' \in [Conds -> Seq(Threads)]
      BY <1>1, <1>2 DEF Cond!TypeOK
    <2>4. calls' \in [Threads -> Nat]
      BY <1>1, CondCounts DEF Cond!WaitBegin
    <2> QED
      BY <1>1, <1>2, <2>1, <2>2, <2>3, <2>4 DEF Cond!TypeOK
  <1>6. CondLevels'
    <2>1. \A u \in Threads : GaveBack(u)' <=> GaveBack(u)
      BY <1>2, <1>3, <1>4 DEF GaveBack
    <2>2. ~GaveBack(t)
      BY <1>2 DEF GaveBack
    <2>3. \A u \in Threads, l \in Mutexes : Level(u, l)'
      BY <1>1, <1>2, <1>4, <2>1, <2>2 DEF CondLevels, Level
    <2>4. \A u \in Threads : Giving(u)'
      BY <1>1, <1>2, <1>3, <1>4, <2>1, <2>2 DEF CondLevels, Giving
    <2> QED
      BY <1>1, <1>2, <2>3, <2>4 DEF CondLevels
  <1>7. ~Cond!Ready(t)' /\ Cond!InWait(t)' /\ ~Cond!InWait(t)
    BY <1>2, <1>3, <1>4 DEF Cond!Ready, Cond!InWait
  <1>8. \A u \in Threads : u # t => (Cond!Ready(u)' <=> Cond!Ready(u)) /\ (Cond!InWait(u)' <=> Cond!InWait(u))
    BY <1>2, <1>4 DEF Cond!Ready, Cond!InWait
  <1>9. CondLocks'
    <2>1. cond_lock'[c] = t /\ \A d \in Conds : d # c => cond_lock'[d] = cond_lock[d]
      BY <1>1, <1>2 DEF Cond!TypeOK
    <2>2. \A u \in Threads : u # t => Holding(u)'
      BY <1>1, <1>2, <1>4, <2>1, CondOthersLocks
    <2>3. Holding(t)'
      BY <1>1, <1>2, <1>3, <1>4, <2>1 DEF CondLocks, Holding
    <2>4. \A u \in Threads : u # t => Seen(u)'
      BY <1>1, <1>2, <1>4, <1>8 DEF CondLocks, Seen
    <2>5. Seen(t)'
      BY <1>2, <1>3, <1>4, <1>7 DEF Seen
    <2> QED
      BY <2>2, <2>3, <2>4, <2>5 DEF CondLocks
  <1>10. Cond!WaitersExact'
    <2>1. /\ \A d \in Conds : IsInjective(waiters[d])
          /\ \A u \in Threads, d \in Conds : Exact(u, d)
      BY <1>1, CondExact
    <2>2. waiters[c] \in Seq(Threads) /\ t \in Threads \ ToSet(waiters[c])
      BY <1>1, <1>7, <2>1 DEF Cond!TypeOK, Exact
    <2>3. /\ IsInjective(waiters'[c]) /\ ToSet(waiters'[c]) = ToSet(waiters[c]) \cup {t}
          /\ \A d \in Conds : d # c => waiters'[d] = waiters[d]
      BY <1>1, <1>2, <2>1, <2>2, Appended DEF Cond!TypeOK
    <2>4. waiting_cond'[t] = c /\ \A u \in Threads : u # t => waiting_cond'[u] = waiting_cond[u]
      BY <1>1, <1>2 DEF Cond!TypeOK
    <2>5. \A u \in Threads, d \in Conds : u # t => Exact(u, d)'
      BY <1>4, <1>8, <2>1, <2>3, <2>4 DEF Exact
    <2>6. \A d \in Conds : d # c => t \notin ToSet(waiters[d])
      BY <1>7, <2>1 DEF Exact
    <2>7. \A d \in Conds : Exact(t, d)'
      BY <1>3, <1>4, <1>7, <2>3, <2>4, <2>6 DEF Exact
    <2> QED
      BY <2>1, <2>3, <2>5, <2>7, CondExactNext
  <1>11. WokenThreads' = WokenThreads
    <2>1. \A u \in Threads : Awake(u)' <=> Awake(u)
      BY <1>2, <1>3, <1>4, <1>7, <1>8 DEF Awake
    <2> QED
      BY <2>1 DEF WokenThreads
  <1> QED
    BY <1>1, <1>2, <1>5, <1>6, <1>9, <1>10, <1>11 DEF CondInv

\* The list without a thread that may not be in it.
LEMMA CondRemoves ==
    ASSUME Cond!TypeOK, NEW c \in Conds, IsInjective(waiters[c]), NEW t \in Threads,
           waiters' = [waiters EXCEPT ![c] = Cond!RemoveFirst(@, t)]
    PROVE  /\ waiters' \in [Conds -> Seq(Threads)] /\ IsInjective(waiters'[c])
           /\ ToSet(waiters'[c]) = ToSet(waiters[c]) \ {t}
           /\ \A d \in Conds : d # c => waiters'[d] = waiters[d]
  <1>1. waiters \in [Conds -> Seq(Threads)] /\ waiters[c] \in Seq(Threads)
    BY DEF Cond!TypeOK
  <1> DEFINE w == RemoveFirst(waiters[c], t)
  <1>2. w \in Seq(Threads) /\ IsInjective(w) /\ ToSet(w) = ToSet(waiters[c]) \ {t}
    <2>1. CASE t \in ToSet(waiters[c])
      BY <1>1, <2>1, RemoveFirstProperties
    <2>2. CASE t \notin ToSet(waiters[c])
      BY <1>1, <2>2, RemoveFirstAbsent
    <2> QED
      BY <2>1, <2>2
  <1>3. waiters' = [waiters EXCEPT ![c] = w]
    BY CondLists
  <1> HIDE DEF w
  <1> QED
    BY <1>1, <1>2, <1>3

\* A wait is over, and leaves the list unless a wakeup took it from there.
LEMMA CondFinishes ==
    ASSUME CondInv, Cond!PthreadCondAssumption, NEW t \in Threads, Cond!WaitFinish(t)
    PROVE  CondInv'
  <1>1. /\ Cond!TypeOK /\ CondLevels /\ CondLocks /\ Cond!WaitersExact
        /\ wakes = oks + Cardinality(WokenThreads)
    BY DEF CondInv
  <1> DEFINE c == wait[t].cond
  <1>2. /\ wait[t].phase = "check"
        /\ wait' = [wait EXCEPT ![t].phase = "relock", ![t].ok = Cond!Outcome(t)]
        /\ waiters' = [waiters EXCEPT ![c] = Cond!RemoveFirst(@, t)]
        /\ waiting_cond' = [waiting_cond EXCEPT ![t] =
              IF t \in Cond!ToSet(waiters[c]) /\ waiting_cond[t] = c THEN None ELSE waiting_cond[t]]
        /\ cond_lock' = [cond_lock EXCEPT ![c] = None]
        /\ UNCHANGED <<mutexOwner, count, sequence, cond_sequence, calls, depth, wakes, oks>>
    BY DEF Cond!WaitFinish, Cond!RemoveWaiter, Cond!mutexVars, Cond!historyVars
  <1>3. c \in Conds /\ t # None
    BY <1>1, CondFields DEF Cond!PthreadCondAssumption
  <1>4. Cond!Outcome(t) \in BOOLEAN /\ (Cond!Outcome(t) <=> Cond!Ready(t))
    BY <1>1, <1>2 DEF Cond!Outcome, CondLocks, Seen, Cond!InWait
  <1>5. Edited(wait', t, "relock", wait[t].expiry, wait[t].recurse, Cond!Outcome(t))
    BY <1>1, <1>2, <1>4, CondEdits
  <1>6. /\ wait'[t].phase = "relock" /\ wait'[t].recurse = wait[t].recurse
        /\ wait'[t].mutex = wait[t].mutex /\ wait'[t].cond = c /\ (wait'[t].ok <=> Cond!Ready(t))
        /\ wait' \in [Threads -> Cond!Call]
        /\ \A u \in Threads : u # t => wait'[u] = wait[u]
    BY <1>4, <1>5 DEF Edited, Same
  <1>7. /\ \A d \in Conds : IsInjective(waiters[d])
        /\ \A u \in Threads, d \in Conds : Exact(u, d)
    BY <1>1, CondExact
  <1>8. /\ waiters' \in [Conds -> Seq(Threads)] /\ IsInjective(waiters'[c])
        /\ ToSet(waiters'[c]) = ToSet(waiters[c]) \ {t}
        /\ \A d \in Conds : d # c => waiters'[d] = waiters[d]
    BY <1>1, <1>2, <1>3, <1>7, CondRemoves
  <1>9. /\ waiting_cond' \in [Threads -> Conds \cup {None}] /\ waiting_cond'[t] \notin Conds
        /\ \A u \in Threads : u # t => waiting_cond'[u] = waiting_cond[u]
    <2>1. waiting_cond \in [Threads -> Conds \cup {None}] /\ None \notin Conds
      BY <1>1 DEF Cond!TypeOK, Cond!PthreadCondAssumption
    <2>2. Cond!ToSet(waiters[c]) = ToSet(waiters[c])
      BY CondLists
    <2>3. \A d \in Conds : waiting_cond[t] = d => d = c /\ t \in Cond!ToSet(waiters[c])
      BY <1>7, <2>2 DEF Exact
    <2> QED
      BY <1>2, <2>1, <2>3
  <1> HIDE DEF c
  <1>10. Cond!TypeOK'
    <2>1. cond_lock' \in [Conds -> Threads \cup {None}]
      BY <1>1, <1>2 DEF Cond!TypeOK
    <2> QED
      BY <1>1, <1>2, <1>6, <1>8, <1>9, <2>1 DEF Cond!TypeOK
  <1>11. CondLevels'
    <2>1. \A u \in Threads : GaveBack(u)' <=> GaveBack(u)
      BY <1>2, <1>6 DEF GaveBack
    <2>2. \A u \in Threads, l \in Mutexes : Level(u, l)'
      BY <1>1, <1>2, <1>6, <2>1 DEF CondLevels, Level
    <2>3. \A u \in Threads : Giving(u)'
      BY <1>1, <1>2, <1>6, <2>1 DEF CondLevels, Giving
    <2> QED
      BY <1>1, <1>2, <2>2, <2>3 DEF CondLevels
  <1>12. \A u \in Threads : u # t => (Cond!Ready(u)' <=> Cond!Ready(u)) /\ (Cond!InWait(u)' <=> Cond!InWait(u))
    BY <1>2, <1>6 DEF Cond!Ready, Cond!InWait
  <1>13. ~Cond!InWait(t)' /\ Cond!InWait(t)
    BY <1>2, <1>6 DEF Cond!InWait
  <1>14. CondLocks'
    <2>1. Holding(t) /\ cond_lock[c] = t
      BY <1>1, <1>2, <1>3 DEF CondLocks, Holding, c
    <2>2. cond_lock'[c] = None /\ \A d \in Conds : d # c => cond_lock'[d] = cond_lock[d]
      BY <1>1, <1>2, <1>3 DEF Cond!TypeOK
    <2>3. \A u \in Threads : u # t => Holding(u)'
      BY <1>1, <1>3, <1>6, <2>1, <2>2, CondOthersLocks
    <2>4. Holding(t)'
      BY <1>2, <1>3, <1>6, <2>1, <2>2 DEF Holding, c
    <2>5. \A u \in Threads : Seen(u)'
      BY <1>1, <1>2, <1>6, <1>12, <1>13 DEF CondLocks, Seen
    <2> QED
      BY <2>3, <2>4, <2>5 DEF CondLocks
  <1>15. Cond!WaitersExact'
    <2>1. \A u \in Threads, d \in Conds : u # t => Exact(u, d)'
      BY <1>6, <1>7, <1>8, <1>9, <1>12 DEF Exact
    <2>2. \A d \in Conds : t \notin ToSet(waiters'[d])
      BY <1>7, <1>8 DEF Exact, c
    <2>3. \A d \in Conds : Exact(t, d)'
      BY <1>9, <1>13, <2>2 DEF Exact
    <2> QED
      BY <1>7, <1>8, <2>1, <2>3, CondExactNext
  <1>16. WokenThreads' = WokenThreads
    <2>1. Awake(t)' <=> Awake(t)
      BY <1>2, <1>6, <1>13 DEF Awake
    <2>2. \A u \in Threads : Awake(u)' <=> Awake(u)
      BY <1>6, <1>12, <2>1 DEF Awake
    <2> QED
      BY <2>2 DEF WokenThreads
  <1> QED
    BY <1>1, <1>2, <1>10, <1>11, <1>14, <1>15, <1>16 DEF CondInv

\* The wait takes its mutex again, with all levels, and returns.
LEMMA CondRelocks ==
    ASSUME CondInv, Cond!PthreadCondAssumption, NEW t \in Threads, Cond!WaitRelock(t)
    PROVE  CondInv'
  <1>1. /\ Cond!TypeOK /\ CondLevels /\ CondLocks /\ Cond!WaitersExact
        /\ wakes = oks + Cardinality(WokenThreads)
    BY DEF CondInv
  <1> DEFINE m == wait[t].mutex
             n == wait[t].recurse
  <1>2. /\ wait[t].phase = "relock" /\ mutexOwner[m] = None
        /\ mutexOwner' = [mutexOwner EXCEPT ![m] = t] /\ count' = [count EXCEPT ![m] = n]
        /\ oks' = oks + (IF wait[t].ok THEN 1 ELSE 0)
        /\ wait' = [wait EXCEPT ![t] = Cond!NoCall]
        /\ UNCHANGED <<Cond!condVars, cond_lock, calls, depth, wakes>>
    BY DEF Cond!WaitRelock
  <1>3. /\ m \in Mutexes /\ n \in Nat /\ t # None /\ n >= 1 /\ wait[t].ok \in BOOLEAN /\ oks \in Nat
        /\ \A l \in Mutexes : depth[t][l] = IF l = m THEN n ELSE IF mutexOwner[l] = t THEN count[l] ELSE 0
    BY <1>1, <1>2, CondFields DEF Cond!PthreadCondAssumption, CondLevels, Giving, Level, GaveBack, Cond!TypeOK
  <1>4. /\ mutexOwner'[m] = t /\ count'[m] = n
        /\ \A l \in Mutexes : l # m => mutexOwner'[l] = mutexOwner[l] /\ count'[l] = count[l]
    BY <1>1, <1>2, <1>3 DEF Cond!TypeOK
  <1>5. /\ wait'[t] = Cond!NoCall /\ wait'[t].phase = "none"
        /\ \A u \in Threads : u # t => wait'[u] = wait[u]
    BY <1>1, <1>2, CondFirstCall DEF Cond!TypeOK
  <1>6. Cond!TypeOK'
    <2>1. wait' \in [Threads -> Cond!Call]
      BY <1>1, <1>2, CondFirstCall DEF Cond!TypeOK
    <2>2. mutexOwner' \in [Mutexes -> Threads \cup {None}] /\ count' \in [Mutexes -> Nat] /\ oks' \in Nat
      BY <1>1, <1>2, <1>3 DEF Cond!TypeOK
    <2> QED
      BY <1>1, <1>2, <2>1, <2>2 DEF Cond!TypeOK, Cond!condVars
  <1> HIDE DEF m, n
  <1>7. CondLevels'
    <2>1. \A u \in Threads : u # t => Giving(u)' /\ \A l \in Mutexes : Level(u, l)'
      BY <1>1, <1>2, <1>3, <1>4, <1>5, CondOthersLevels
    <2>2. ~GaveBack(t)' /\ Giving(t)'
      BY <1>5 DEF GaveBack, Giving
    <2>3. \A l \in Mutexes : Level(t, l)'
      BY <1>2, <1>3, <1>4, <2>2 DEF Level
    <2>4. \A l \in Mutexes : mutexOwner'[l] = None <=> count'[l] = 0
      BY <1>1, <1>3, <1>4 DEF CondLevels
    <2> QED
      BY <2>1, <2>2, <2>3, <2>4 DEF CondLevels
  <1>8. \A u \in Threads : u # t => (Cond!Ready(u)' <=> Cond!Ready(u)) /\ (Cond!InWait(u)' <=> Cond!InWait(u))
    BY <1>2, <1>5 DEF Cond!Ready, Cond!InWait, Cond!condVars
  <1>9. ~Cond!InWait(t)' /\ ~Cond!InWait(t)
    BY <1>2, <1>5 DEF Cond!InWait
  <1>10. CondLocks'
    <2>1. \A u \in Threads : Holding(u)'
      BY <1>1, <1>2, <1>5 DEF CondLocks, Holding
    <2>2. \A u \in Threads : Seen(u)'
      BY <1>1, <1>2, <1>5, <1>8, <1>9 DEF CondLocks, Seen, Cond!condVars
    <2> QED
      BY <2>1, <2>2 DEF CondLocks
  <1>11. Cond!WaitersExact'
    <2>1. waiters' = waiters /\ waiting_cond' = waiting_cond
      BY <1>2 DEF Cond!condVars
    <2>2. /\ \A d \in Conds : IsInjective(waiters[d])
          /\ \A u \in Threads, d \in Conds : Exact(u, d)
      BY <1>1, CondExact
    <2>3. \A u \in Threads, d \in Conds : u # t => Exact(u, d)'
      BY <1>5, <1>8, <2>1, <2>2 DEF Exact
    <2>4. \A d \in Conds : Exact(t, d)'
      BY <1>9, <2>1, <2>2 DEF Exact
    <2> QED
      BY <2>1, <2>2, <2>3, <2>4, CondExactNext
  <1>12. /\ \A u \in Threads : u # t => (Awake(u)' <=> Awake(u))
         /\ ~Awake(t)' /\ (Awake(t) <=> wait[t].ok)
    BY <1>2, <1>5, <1>8, <1>9 DEF Awake
  <1>13. WokenThreads' = WokenThreads \ {t}
    BY <1>12 DEF WokenThreads
  <1>14. Cardinality(WokenThreads') = Cardinality(WokenThreads) - (IF wait[t].ok THEN 1 ELSE 0)
    <2>1. t \in WokenThreads <=> wait[t].ok
      BY <1>12 DEF WokenThreads
    <2>2. IsFiniteSet(WokenThreads) /\ Cardinality(WokenThreads) \in Nat
      BY CondFinite
    <2>3. Cardinality(WokenThreads \ {t}) = IF t \in WokenThreads THEN Cardinality(WokenThreads) - 1
                                            ELSE Cardinality(WokenThreads)
      BY <2>2, FS_RemoveElement
    <2> QED
      BY <1>13, <2>1, <2>2, <2>3
  <1>15. wakes' = oks' + Cardinality(WokenThreads')
    BY <1>1, <1>2, <1>3, <1>14, CondFinite
  <1> QED
    BY <1>6, <1>7, <1>10, <1>11, <1>15 DEF CondInv

\* Some waiters are woken: they leave the list and are ready.
LEMMA CondWakes ==
    ASSUME CondInv, Cond!PthreadCondAssumption, NEW c \in Conds, cond_lock[c] = None,
           NEW W \in SUBSET ToSet(waiters[c]),
           waiters' \in [Conds -> Seq(Threads)], IsInjective(waiters'[c]),
           ToSet(waiters'[c]) = ToSet(waiters[c]) \ W,
           \A d \in Conds : d # c => waiters'[d] = waiters[d],
           Cond!ClearWaiting(c, W),
           \A u \in Threads : Cond!InWait(u) => (Cond!Ready(u)' <=> Cond!Ready(u) \/ u \in W),
           sequence' \in [Conds -> Nat], cond_sequence' \in [Threads -> Nat],
           \A d \in Conds : sequence'[d] >= sequence[d],
           \A u \in Threads : cond_sequence'[u] >= cond_sequence[u],
           calls' \in [Threads -> Nat], wakes' = wakes + Cardinality(W),
           UNCHANGED <<mutexOwner, count, cond_lock, wait, depth, oks>>
    PROVE  CondInv'
  <1>1. /\ Cond!TypeOK /\ CondLevels /\ CondLocks /\ Cond!WaitersExact
        /\ wakes = oks + Cardinality(WokenThreads)
    BY DEF CondInv
  <1>2. /\ \A d \in Conds : IsInjective(waiters[d])
        /\ \A u \in Threads, d \in Conds : Exact(u, d)
    BY <1>1, CondExact
  <1>3. \A u \in W : /\ u \in Threads /\ Cond!InWait(u) /\ wait[u].cond = c /\ ~Cond!Ready(u)
                     /\ waiting_cond[u] = c
    <2>1. waiters[c] \in Seq(Threads)
      BY <1>1 DEF Cond!TypeOK
    <2>2. ToSet(waiters[c]) \subseteq Threads
      BY <2>1 DEF ToSet
    <2> QED
      BY <1>2, <2>2 DEF Exact
  <1>4. /\ waiting_cond' \in [Threads -> Conds \cup {None}]
        /\ \A u \in W : waiting_cond'[u] = None
        /\ \A u \in Threads \ W : waiting_cond'[u] = waiting_cond[u]
    BY <1>1, <1>3 DEF Cond!TypeOK, Cond!ClearWaiting
  <1>5. \A u \in Threads : Cond!InWait(u)' <=> Cond!InWait(u)
    BY DEF Cond!InWait
  <1>6. IsFiniteSet(W) /\ Cardinality(W) \in Nat
    <2>1. IsFiniteSet(Threads) /\ W \subseteq Threads
      BY <1>3, CondSets DEF Cond!PthreadCondAssumption
    <2> QED
      BY <2>1, FS_Subset, FS_CardinalityType
  <1>7. Cond!TypeOK'
    <2>1. wakes' \in Nat
      BY <1>1, <1>6 DEF Cond!TypeOK
    <2> QED
      BY <1>1, <1>4, <2>1 DEF Cond!TypeOK
  <1>8. CondLevels'
    BY <1>1 DEF CondLevels, Level, Giving, GaveBack
  <1>9. CondLocks'
    <2>1. \A u \in Threads : Holding(u)'
      BY <1>1 DEF CondLocks, Holding
    <2>2. ASSUME NEW u \in Threads, Cond!InWait(u) PROVE Seen(u)'
      <3>1. Seen(u) /\ Holding(u) /\ wait[u].cond \in Conds
        BY <1>1, CondFields DEF CondLocks
      <3>2. /\ wait[u].sequence <= sequence'[wait[u].cond]
            /\ wait[u].thread_sequence <= cond_sequence'[u]
        <4> DEFINE d == wait[u].cond
        <4>1. wait[u].sequence <= sequence[d] /\ wait[u].thread_sequence <= cond_sequence[u]
          BY <2>2, <3>1 DEF Seen
        <4>2. /\ wait[u].sequence \in Nat /\ wait[u].thread_sequence \in Nat
              /\ sequence[d] \in Nat /\ cond_sequence[u] \in Nat
          BY <1>1, CondFields
        <4>3. d \in Conds /\ sequence'[d] \in Nat /\ cond_sequence'[u] \in Nat
          BY <3>1
        <4> HIDE DEF d
        <4>4. sequence'[d] >= sequence[d] /\ cond_sequence'[u] >= cond_sequence[u]
          BY <4>3
        <4>5. wait[u].sequence <= sequence'[d] /\ wait[u].thread_sequence <= cond_sequence'[u]
          BY <4>1, <4>2, <4>3, <4>4
        <4> QED
          BY <4>5 DEF d
      <3>3. wait[u].expiry = "now" => wait[u].phase # "asleep" /\ ~Cond!Ready(u)'
        <4>1. SUFFICES ASSUME wait[u].expiry = "now" PROVE wait[u].phase # "asleep" /\ ~Cond!Ready(u)'
          OBVIOUS
        <4>2. wait[u].phase \in {"unlock", "check"} /\ ~Cond!Ready(u)
          BY <2>2, <3>1, <4>1 DEF Seen, Cond!InWait
        <4>3. cond_lock[wait[u].cond] = u /\ u # None
          BY <3>1, <4>2 DEF Holding, Cond!PthreadCondAssumption
        <4>4. u \notin W
          BY <1>3, <4>3
        <4> QED
          BY <2>2, <4>2, <4>4
      <3> QED
        BY <3>2, <3>3 DEF Seen
    <2>3. \A u \in Threads : Seen(u)'
      BY <1>5, <2>2 DEF Seen
    <2> QED
      BY <2>1, <2>3 DEF CondLocks
  <1>10. Cond!WaitersExact'
    <2>1. \A d \in Conds : IsInjective(waiters'[d])
      BY <1>2
    <2>2. ASSUME NEW u \in Threads, NEW d \in Conds PROVE Exact(u, d)'
      <3>1. CASE u \in W
        <4>1. u \notin ToSet(waiters'[d])
          BY <1>2, <1>3, <3>1 DEF Exact
        <4>2. Cond!Ready(u)' /\ waiting_cond'[u] # d
          BY <1>3, <1>4, <3>1 DEF Cond!PthreadCondAssumption
        <4> QED
          BY <4>1, <4>2 DEF Exact
      <3>2. CASE u \notin W
        <4>1. u \in ToSet(waiters'[d]) <=> u \in ToSet(waiters[d])
          BY <3>2
        <4>2. Exact(u, d) /\ waiting_cond'[u] = waiting_cond[u]
          BY <1>2, <1>4, <3>2
        <4>3. Cond!InWait(u) => (Cond!Ready(u)' <=> Cond!Ready(u))
          BY <3>2
        <4> QED
          BY <1>5, <4>1, <4>2, <4>3 DEF Exact
      <3> QED
        BY <3>1, <3>2
    <2> QED
      BY <2>1, <2>2, CondExactNext
  <1>11. WokenThreads' = WokenThreads \cup W /\ WokenThreads \cap W = {}
    <2>1. ASSUME NEW u \in Threads PROVE Awake(u)' <=> Awake(u) \/ u \in W
      BY <1>3, <1>5 DEF Awake
    <2>2. \A u \in W : ~Awake(u)
      BY <1>3 DEF Awake, Cond!InWait
    <2> QED
      BY <1>3, <2>1, <2>2 DEF WokenThreads
  <1>12. Cardinality(WokenThreads') = Cardinality(WokenThreads) + Cardinality(W)
    <2>1. IsFiniteSet(WokenThreads) /\ Cardinality(WokenThreads) \in Nat
      BY CondFinite
    <2>2. Cardinality(WokenThreads \cup W)
             = Cardinality(WokenThreads) + Cardinality(W) - Cardinality(WokenThreads \cap W)
      BY <1>6, <2>1, FS_Union
    <2>3. Cardinality(WokenThreads \cap W) = 0
      BY <1>11, FS_EmptySet
    <2> QED
      BY <1>6, <1>11, <2>1, <2>2, <2>3
  <1>13. wakes' = oks' + Cardinality(WokenThreads')
    BY <1>1, <1>6, <1>12, CondFinite DEF Cond!TypeOK
  <1> QED
    BY <1>7, <1>8, <1>9, <1>10, <1>13 DEF CondInv

\* PthreadCondSignal and PthreadCondSignalto wake one, PthreadCondBroadcast all.
LEMMA CondSignals ==
    ASSUME CondInv, Cond!PthreadCondAssumption, NEW t \in Threads, NEW c \in Conds, NEW v,
           Cond!Counted(t), Cond!CondWakeWaiter(c, v)
    PROVE  CondInv'
  <1>1. /\ Cond!TypeOK /\ Cond!WaitersExact /\ calls' \in [Threads -> Nat]
    BY CondCounts DEF CondInv
  <1>2. /\ cond_lock[c] = None /\ v \in ToSet(waiters[c])
        /\ waiters' = [waiters EXCEPT ![c] = Cond!RemoveFirst(@, v)]
        /\ Cond!ClearWaiting(c, {v})
        /\ cond_sequence' = [cond_sequence EXCEPT ![v] = @ + 1] /\ wakes' = wakes + 1
        /\ UNCHANGED <<mutexOwner, count, sequence, cond_lock, wait, depth, oks>>
    BY CondLists DEF Cond!CondWakeWaiter, Cond!Locked, Cond!mutexVars
  <1>3. /\ \A d \in Conds : IsInjective(waiters[d])
        /\ \A u \in Threads, d \in Conds : Exact(u, d)
    BY <1>1, CondExact
  <1>4. v \in Threads
    <2>1. waiters[c] \in Seq(Threads)
      BY <1>1 DEF Cond!TypeOK
    <2> QED
      BY <1>2, <2>1 DEF ToSet
  <1>5. /\ waiters' \in [Conds -> Seq(Threads)] /\ IsInjective(waiters'[c])
        /\ ToSet(waiters'[c]) = ToSet(waiters[c]) \ {v}
        /\ \A d \in Conds : d # c => waiters'[d] = waiters[d]
    BY <1>1, <1>2, <1>3, <1>4, CondRemoves
  <1>6. /\ cond_sequence' \in [Threads -> Nat] /\ cond_sequence'[v] = cond_sequence[v] + 1
        /\ \A u \in Threads : u # v => cond_sequence'[u] = cond_sequence[u]
        /\ \A u \in Threads : cond_sequence[u] \in Nat
    BY <1>1, <1>2, <1>4 DEF Cond!TypeOK
  <1>7. ASSUME NEW u \in Threads, Cond!InWait(u)
        PROVE  Cond!Ready(u)' <=> Cond!Ready(u) \/ u \in {v}
    <2>1. CASE u = v
      <3>1. wait[v].thread_sequence = cond_sequence[v]
        BY <1>2, <1>3, <1>4 DEF Exact, Cond!Ready
      <3>2. cond_sequence'[v] # wait[v].thread_sequence
        BY <1>4, <1>6, <3>1
      <3> QED
        BY <1>2, <2>1, <3>2 DEF Cond!Ready
    <2>2. CASE u # v
      BY <1>2, <1>6, <2>2 DEF Cond!Ready
    <2> QED
      BY <2>1, <2>2
  <1>8. Cardinality({v}) = 1 /\ {v} \in SUBSET ToSet(waiters[c])
    BY <1>2, FS_Singleton
  <1>9. /\ sequence' \in [Conds -> Nat] /\ \A d \in Conds : sequence'[d] >= sequence[d]
        /\ \A u \in Threads : cond_sequence'[u] >= cond_sequence[u]
    BY <1>1, <1>2, <1>6 DEF Cond!TypeOK
  <1>10. wakes' = wakes + Cardinality({v})
    BY <1>2, <1>8
  <1> QED
    BY <1>1, <1>2, <1>5, <1>6, <1>7, <1>8, <1>9, <1>10, CondWakes

LEMMA CondBroadcasts ==
    ASSUME CondInv, Cond!PthreadCondAssumption, NEW t \in Threads, NEW c \in Conds,
           Cond!PthreadCondBroadcast(t, c)
    PROVE  CondInv'
  <1> DEFINE W == ToSet(waiters[c])
  <1>1. /\ Cond!TypeOK /\ Cond!WaitersExact /\ CondLocks /\ calls' \in [Threads -> Nat]
    BY CondCounts DEF CondInv, Cond!PthreadCondBroadcast
  <1>2. /\ cond_lock[c] = None
        /\ sequence' = [sequence EXCEPT ![c] = @ + 1] /\ waiters' = [waiters EXCEPT ![c] = <<>>]
        /\ Cond!ClearWaiting(c, W) /\ wakes' = wakes + Len(waiters[c])
        /\ UNCHANGED <<mutexOwner, count, cond_lock, cond_sequence, wait, depth, oks>>
    BY CondLists DEF Cond!PthreadCondBroadcast, Cond!Locked, Cond!Cleared, Cond!mutexVars
  <1>3. /\ \A d \in Conds : IsInjective(waiters[d])
        /\ \A u \in Threads, d \in Conds : Exact(u, d)
    BY <1>1, CondExact
  <1>4. /\ waiters' \in [Conds -> Seq(Threads)] /\ waiters'[c] = <<>>
        /\ \A d \in Conds : d # c => waiters'[d] = waiters[d]
    <2>1. waiters \in [Conds -> Seq(Threads)] /\ <<>> \in Seq(Threads)
      BY <1>1 DEF Cond!TypeOK
    <2> QED
      BY <1>2, <2>1
  <1>5. IsInjective(waiters'[c]) /\ ToSet(waiters'[c]) = W \ W
    BY <1>4 DEF IsInjective, ToSet
  <1>6. /\ sequence' \in [Conds -> Nat] /\ sequence'[c] = sequence[c] + 1
        /\ \A d \in Conds : d # c => sequence'[d] = sequence[d]
        /\ \A d \in Conds : sequence[d] \in Nat
    BY <1>1, <1>2 DEF Cond!TypeOK
  <1>7. ASSUME NEW u \in Threads, Cond!InWait(u)
        PROVE  Cond!Ready(u)' <=> Cond!Ready(u) \/ u \in W
    <2>1. wait[u].cond \in Conds /\ wait[u].sequence \in Nat
      BY <1>1, CondFields
    <2>2. CASE wait[u].cond = c
      <3>1. wait[u].sequence # sequence'[wait[u].cond]
        BY <1>1, <1>6, <1>7, <2>1, <2>2 DEF CondLocks, Seen
      <3>2. Cond!Ready(u)'
        BY <1>2, <3>1 DEF Cond!Ready
      <3> QED
        BY <1>3, <1>7, <2>2, <3>2 DEF Exact
    <2>3. CASE wait[u].cond # c
      <3>1. Cond!Ready(u)' <=> Cond!Ready(u)
        BY <1>2, <1>6, <2>1, <2>3 DEF Cond!Ready
      <3> QED
        BY <1>3, <2>3, <3>1 DEF Exact
    <2> QED
      BY <2>2, <2>3
  <1>8. Cardinality(W) = Len(waiters[c])
    BY <1>1, <1>3, DistinctCount DEF Cond!TypeOK
  <1>9. /\ \A d \in Conds : sequence'[d] >= sequence[d]
        /\ cond_sequence' \in [Threads -> Nat]
        /\ \A u \in Threads : cond_sequence'[u] >= cond_sequence[u]
    BY <1>1, <1>2, <1>6 DEF Cond!TypeOK
  <1>10. W \in SUBSET ToSet(waiters[c]) /\ wakes' = wakes + Cardinality(W)
    BY <1>2, <1>8
  <1> HIDE DEF W
  <1>11. ToSet(waiters'[c]) = ToSet(waiters[c]) \ W
    BY <1>5 DEF W
  <1> QED
    BY <1>1, <1>2, <1>4, <1>5, <1>6, <1>7, <1>9, <1>10, <1>11, CondWakes

LEMMA CondKeeps ==
    ASSUME Cond!PthreadCondAssumption
    PROVE  CondInv /\ [Cond!Next]_(Cond!vars) => CondInv'
  <1> SUFFICES ASSUME CondInv, [Cond!Next]_(Cond!vars) PROVE CondInv'
    OBVIOUS
  <1>1. ASSUME NEW t \in Threads, Cond!WaitStep(t) PROVE CondInv'
    BY <1>1, CondUnlocks, CondSleeps, CondFinishes, CondRelocks DEF Cond!WaitStep
  <1>2. ASSUME NEW t \in Threads, Cond!GuestStep(t) PROVE CondInv'
    <2>1. ASSUME NEW m \in Mutexes, Cond!NativeMutexLock(t, m) \/ Cond!NativeMutexUnlock(t, m)
          PROVE  CondInv'
      BY <2>1, CondMutexes
    <2>2. ASSUME NEW c \in Conds, NEW m \in Mutexes, NEW e \in {"never", "now", "later"},
                 Cond!WaitBegin(t, c, m, e)
          PROVE  CondInv'
      BY <2>2, CondBegins
    <2>3. ASSUME NEW c \in Conds, Cond!PthreadCondSignal(t, c) PROVE CondInv'
      BY <2>3, CondSignals DEF Cond!PthreadCondSignal
    <2>4. ASSUME NEW c \in Conds, NEW u \in Threads, Cond!PthreadCondSignalto(t, c, u) PROVE CondInv'
      BY <2>4, CondSignals DEF Cond!PthreadCondSignalto
    <2>5. ASSUME NEW c \in Conds, Cond!PthreadCondBroadcast(t, c) PROVE CondInv'
      BY <2>5, CondBroadcasts
    <2> QED
      BY <1>2, <2>1, <2>2, <2>3, <2>4, <2>5 DEF Cond!GuestStep
  <1>3. CASE UNCHANGED Cond!vars
    <2>1. /\ UNCHANGED <<mutexOwner, count, cond_lock, wait, calls, depth, wakes, oks>>
          /\ UNCHANGED Cond!condVars
      BY <1>3 DEF Cond!vars, Cond!mutexVars, Cond!historyVars
    <2>2. /\ \A u \in Threads : Cond!Ready(u)' <=> Cond!Ready(u)
          /\ Cond!WaitersExact' /\ WokenThreads' = WokenThreads
      BY <2>1, CondQuiet
    <2>3. Cond!TypeOK'
      BY <2>1 DEF CondInv, Cond!TypeOK, Cond!condVars
    <2>4. CondLevels'
      BY <2>1 DEF CondInv, CondLevels, Level, Giving, GaveBack
    <2>5. CondLocks'
      BY <2>1, <2>2 DEF CondInv, CondLocks, Holding, Seen, Cond!InWait, Cond!condVars
    <2> QED
      BY <2>1, <2>2, <2>3, <2>4, <2>5 DEF CondInv
  <1> QED
    BY <1>1, <1>2, <1>3 DEF Cond!Next

\* Lists, levels and types of mutexes and condition variables, for any threads,
\* mutexes and variables: no signal goes to a thread that does not wait, none misses
\* one that does, and a wait restores all levels of its mutex.
THEOREM CondCorrect ==
    ASSUME Cond!PthreadCondAssumption
    PROVE  Cond!Spec => []CondSound
  <1>1. CondInv => CondSound
    <2> SUFFICES ASSUME CondInv PROVE CondSound
      OBVIOUS
    <2>1. Cond!DepthKept
      BY DEF CondInv, CondLevels, Level, GaveBack, Cond!DepthKept, Cond!Free
    <2> QED
      BY <2>1 DEF CondInv, CondSound, Cond!CondSound
  <1> QED
    BY <1>1, CondStarts, CondKeeps, PTL DEF Cond!Spec

\* Every wakeup that a signal or a broadcast gave is returned by a wait, or still
\* held by a thread on its way back: none is swallowed by a deadline.
THEOREM WakeupsCorrect ==
    ASSUME Cond!PthreadCondAssumption
    PROVE  Cond!Spec => []WakeupsConserved
  <1>1. CondInv => WakeupsConserved
    <2>1. WokenThreads = {t \in Threads : \/ Cond!InWait(t) /\ Cond!Ready(t)
                                          \/ wait[t].phase = "relock" /\ wait[t].ok}
      BY DEF WokenThreads, Awake
    <2> QED
      BY <2>1, CondSets DEF CondInv, WakeupsConserved, Cond!WakeupsConserved
  <1> QED
    BY <1>1, CondStarts, CondKeeps, PTL DEF Cond!Spec
-----------------------------------------------------------------------------
(* Threads from creation to reclaim: a record is in one caller's hands at a  *)
(* time, and every stack in one record's or in the cache.                     *)

Creating == {"stack", "protect", "start", "failed"}
Joining == {"join", "joined", "release"}
Stack == [base : Nat, size : Nat]
ThreadRecord == [free : BOOLEAN, detached : BOOLEAN, almost_done : BOOLEAN, stack : Stack,
                 cancelled : BOOLEAN]
Place == [at : Creating \cup Joining \cup {"idle", "look"}, on : Pool!Records, size : Sizes \cup {0},
          detach : BOOLEAN]

PoolTypes ==
    /\ Pool!TypeOK /\ record \in [Pool!Records -> ThreadRecord]
    /\ host \in [Pool!Records -> Pool!Alive \cup {"none", "ended"}]
    /\ handle \in [Pool!Records -> {"none", "guest"}]
    /\ caller \in [Pool!Callers -> Place]
    /\ cache \in SUBSET Stack
    /\ caller[Pool!Reclaimer].at \notin Creating
    /\ \A c \in Creators : caller[c].at # "look"
    /\ \A c \in Pool!Callers : caller[c].at \in Creating => caller[c].size \in Sizes

\* A caller that has a record in its hands.
Uses(c) == caller[c].at \notin {"idle", "look"}

\* What it may rely on, at each place.
Relies(c) ==
    LET r == caller[c].on
        at == caller[c].at
    IN  /\ Uses(c) => ~record[r].free /\ handle[r] = "none"
        /\ at \in Creating => host[r] = "none" /\ ~record[r].almost_done
        /\ at \in {"protect", "start"} => record[r].stack # Pool!NoStack
        /\ at \in {"stack", "failed", "release"} => record[r].stack = Pool!NoStack
        /\ at = "start" => (record[r].detached <=> caller[c].detach)
        /\ at \in Joining => (record[r].detached <=> c = Pool!Reclaimer)
        /\ at = "join" => host[r] # "none"
        /\ at \in {"joined", "release"} => host[r] = "none"

OneUser == \A c, d \in Pool!Callers : Uses(c) /\ Uses(d) /\ caller[c].on = caller[d].on => c = d

Recorded(r) ==
    /\ record[r].free => /\ host[r] = "none" /\ handle[r] = "none" /\ ~record[r].almost_done
                         /\ record[r].stack = Pool!NoStack
    /\ r > pool => record[r].free
    /\ handle[r] = "guest" => host[r] # "none" /\ ~record[r].detached
    /\ record[r].almost_done =>
          \/ host[r] \in {"leaving", "ended"}
          \/ \E c \in Pool!Callers : caller[c].on = r /\ caller[c].at \in {"joined", "release"}
    /\ host[r] # "none" => record[r].stack # Pool!NoStack

\* Stacks were cut from above stack_last and have a byte.
Cut(s) == s = Pool!NoStack \/ (s.size > 0 /\ s.base >= stack_last)

Apart(s, u) == s.base + s.size <= u.base \/ u.base + u.size <= s.base

AllApart ==
    /\ \A r \in Pool!Records : Cut(record[r].stack)
    /\ \A s \in cache : Cut(s) /\ s # Pool!NoStack
    /\ \A r, q \in Pool!Records :
          r # q /\ record[r].stack # Pool!NoStack /\ record[q].stack # Pool!NoStack
          => Apart(record[r].stack, record[q].stack)
    /\ \A r \in Pool!Records, s \in cache :
          record[r].stack # Pool!NoStack => Apart(record[r].stack, s)
    /\ \A s, u \in cache : s # u => Apart(s, u)

PoolHands == (\A c \in Pool!Callers : Relies(c)) /\ OneUser /\ \A r \in Pool!Records : Recorded(r)

PoolInv == PoolTypes /\ PoolHands /\ AllApart

LEMMA PoolFields ==
    ASSUME PoolTypes, NEW c \in Pool!Callers
    PROVE  /\ caller[c].on \in Pool!Records /\ caller[c].at \in Creating \cup Joining \cup {"idle", "look"}
           /\ caller[c].detach \in BOOLEAN
           /\ caller[c].at = "look" => c = Pool!Reclaimer
           /\ caller[c].at \in Creating => c # Pool!Reclaimer /\ caller[c].size \in Sizes
  BY DEF PoolTypes, Place, Pool!Callers

LEMMA PoolRecordFields ==
    ASSUME PoolTypes, NEW r \in Pool!Records
    PROVE  /\ record[r].free \in BOOLEAN /\ record[r].detached \in BOOLEAN
           /\ record[r].almost_done \in BOOLEAN /\ record[r].stack \in Stack
           /\ record[r].cancelled \in BOOLEAN
           /\ host[r] \in {"none", "starting", "guest", "cleanup", "leaving", "ended"}
           /\ handle[r] \in {"none", "guest"}
  BY DEF PoolTypes, ThreadRecord, Pool!Alive

LEMMA PoolStarts == Pool!GuestThreadsAssumption /\ Pool!Init => PoolInv
  <1> SUFFICES ASSUME Pool!GuestThreadsAssumption, Pool!Init PROVE PoolInv
    OBVIOUS
  <1>1. /\ \A r \in Pool!Records : /\ record[r].free /\ ~record[r].almost_done
                                   /\ record[r].stack = Pool!NoStack /\ host[r] = "none" /\ handle[r] = "none"
        /\ \A c \in Pool!Callers : caller[c].at = "idle"
        /\ cache = {} /\ Pool!Reclaimer \in Pool!Callers /\ Creators \subseteq Pool!Callers
    BY DEF Pool!Init, Pool!Idle, Pool!Callers
  <1>2. PoolTypes
    <2>1. Pool!NoStack \in Stack /\ Pool!Idle \in Place
      BY DEF Pool!NoStack, Stack, Pool!Idle, Place, Pool!GuestThreadsAssumption, Pool!Records
    <2>2. /\ record \in [Pool!Records -> ThreadRecord] /\ caller \in [Pool!Callers -> Place]
      BY <2>1 DEF Pool!Init, ThreadRecord
    <2>3. /\ host \in [Pool!Records -> Pool!Alive \cup {"none", "ended"}]
          /\ handle \in [Pool!Records -> {"none", "guest"}] /\ cache \in SUBSET Stack
      BY DEF Pool!Init
    <2>4. Pool!TypeOK
      <3>1. pool = 0 /\ stack_last = StackSpace /\ pool_mutex = FALSE
        BY DEF Pool!Init
      <3>2. pool \in 0 .. MaxRecords /\ stack_last \in 0 .. StackSpace
        BY <3>1 DEF Pool!GuestThreadsAssumption
      <3> QED
        BY <2>3, <3>1, <3>2 DEF Pool!TypeOK
    <2> QED
      BY <1>1, <2>2, <2>3, <2>4 DEF PoolTypes, Creating
  <1>3. PoolHands
    BY <1>1 DEF PoolHands, Relies, Uses, OneUser, Recorded, Creating, Joining
  <1>4. AllApart
    BY <1>1 DEF AllApart, Cut
  <1> QED
    BY <1>2, <1>3, <1>4 DEF PoolInv

\* A caller takes, changes or gives back a record that nobody else uses.
LEMMA PoolOthers ==
    ASSUME PoolInv, NEW c \in Pool!Callers, NEW r \in Pool!Records,
           \A d \in Pool!Callers : d # c => caller'[d] = caller[d],
           \A d \in Pool!Callers : d # c /\ Uses(d) => caller[d].on # r,
           Uses(c) => caller[c].on = r,
           Uses(c)' => caller'[c].on = r,
           \A q \in Pool!Records : q # r =>
              record'[q] = record[q] /\ host'[q] = host[q] /\ handle'[q] = handle[q],
           pool' \in Nat, pool' >= pool
    PROVE  /\ \A d \in Pool!Callers : d # c => Relies(d)'
           /\ OneUser'
           /\ \A q \in Pool!Records : q # r => Recorded(q)'
  <1>1. PoolTypes /\ OneUser /\ (\A d \in Pool!Callers : Relies(d)) /\ \A q \in Pool!Records : Recorded(q)
    BY DEF PoolInv, PoolHands
  <1>2. ASSUME NEW d \in Pool!Callers, d # c PROVE Relies(d)'
    <2>1. Relies(d) /\ caller'[d] = caller[d] /\ (Uses(d)' <=> Uses(d)) /\ caller[d].on \in Pool!Records
      BY <1>1, <1>2, PoolFields DEF Uses
    <2>2. CASE Uses(d)
      BY <1>2, <2>1, <2>2 DEF Relies
    <2>3. CASE ~Uses(d)
      BY <2>1, <2>3 DEF Relies, Uses, Creating, Joining
    <2> QED
      BY <2>2, <2>3
  <1>3. OneUser'
    <2>1. \A d \in Pool!Callers : d # c => (Uses(d)' <=> Uses(d))
      BY DEF Uses
    <2> QED
      BY <1>1, <2>1 DEF OneUser
  <1>4. ASSUME NEW q \in Pool!Records, q # r PROVE Recorded(q)'
    <2>1. Recorded(q) /\ record'[q] = record[q] /\ host'[q] = host[q] /\ handle'[q] = handle[q]
      BY <1>1, <1>4
    <2>2. q > pool' => q > pool
      BY <1>1 DEF PoolTypes, Pool!TypeOK, Pool!Records
    <2>3. ASSUME NEW d \in Pool!Callers, caller[d].on = q, caller[d].at \in {"joined", "release"}
          PROVE  caller'[d] = caller[d]
      BY <1>4, <2>3 DEF Uses
    <2> QED
      BY <2>1, <2>2, <2>3 DEF Recorded
  <1> QED
    BY <1>2, <1>3, <1>4

\* A thread goes its way, and a guest detaches or cancels it: the callers see the
\* same record.
LEMMA PoolThreads ==
    ASSUME PoolInv, NEW r \in Pool!Records, UNCHANGED <<caller, pool>>,
           host[r] # "none", host'[r] # "none",
           record'[r].free = record[r].free, record'[r].stack = record[r].stack,
           handle'[r] \in {"none", handle[r]},
           \/ record'[r].detached = record[r].detached
           \/ handle[r] = "guest" /\ handle'[r] = "none",
           record'[r].almost_done => \/ record[r].almost_done /\ host'[r] = host[r]
                                     \/ host'[r] \in {"leaving", "ended"},
           \A q \in Pool!Records : q # r =>
              record'[q] = record[q] /\ host'[q] = host[q] /\ handle'[q] = handle[q]
    PROVE  PoolHands'
  <1>1. PoolTypes /\ OneUser /\ (\A d \in Pool!Callers : Relies(d)) /\ \A q \in Pool!Records : Recorded(q)
    BY DEF PoolInv, PoolHands
  <1>2. \A d \in Pool!Callers : Uses(d)' <=> Uses(d)
    BY DEF Uses
  <1>3. ASSUME NEW d \in Pool!Callers PROVE Relies(d)'
    <2>1. Relies(d) /\ caller[d].on \in Pool!Records /\ caller'[d] = caller[d]
      BY <1>1, <1>3, PoolFields
    <2>2. CASE caller[d].on # r
      BY <1>2, <2>1, <2>2 DEF Relies
    <2>3. CASE caller[d].on = r /\ Uses(d)
      <3>1. caller[d].at = "join" /\ handle[r] = "none" /\ record'[r].detached = record[r].detached
        BY <1>1, <1>3, <2>1, <2>3, PoolFields DEF Relies, Uses, Creating, Joining
      <3> QED
        BY <1>2, <2>1, <2>3, <3>1 DEF Relies, Creating
    <2>4. CASE ~Uses(d)
      BY <1>2, <2>1, <2>4 DEF Relies, Uses, Creating, Joining
    <2> QED
      BY <2>2, <2>3, <2>4
  <1>4. ASSUME NEW q \in Pool!Records PROVE Recorded(q)'
    <2>1. Recorded(q)
      BY <1>1
    <2>2. CASE q # r
      BY <2>1, <2>2 DEF Recorded
    <2>3. CASE q = r
      BY <2>1, <2>3 DEF Recorded
    <2> QED
      BY <2>2, <2>3
  <1> QED
    BY <1>1, <1>2, <1>3, <1>4 DEF PoolHands, OneUser

\* The stacks, when none moves, when one is cached or forgotten, and when a new
\* thread is given one.
LEMMA StacksStay ==
    ASSUME AllApart, UNCHANGED <<cache, stack_last>>,
           \A q \in Pool!Records : record'[q].stack = record[q].stack
    PROVE  AllApart'
  BY DEF AllApart, Cut

LEMMA StackGoes ==
    ASSUME AllApart, PoolTypes, NEW r \in Pool!Records, stack_last' = stack_last,
           cache' \in {cache, Pool!Cached(r)}, record'[r].stack = Pool!NoStack,
           \A q \in Pool!Records : q # r => record'[q].stack = record[q].stack
    PROVE  AllApart' /\ cache' \in SUBSET Stack
  <1> DEFINE s == record[r].stack
  <1>1. cache' = cache \/ (s # Pool!NoStack /\ cache' = cache \cup {s})
    BY DEF Pool!Cached
  <1>2. s \in Stack /\ cache \subseteq Stack /\ \A u \in cache : u \in Stack
    BY PoolRecordFields DEF PoolTypes
  <1>3. \A u \in cache' : Cut(u)' /\ u # Pool!NoStack
    BY <1>1 DEF AllApart, Cut
  <1>4. \A q \in Pool!Records : Cut(record[q].stack)'
    BY DEF AllApart, Cut
  <1>5. \A q \in Pool!Records, u \in cache' :
           record'[q].stack # Pool!NoStack => Apart(record'[q].stack, u)
    <2>1. \A q \in Pool!Records : record'[q].stack # Pool!NoStack => q # r
      OBVIOUS
    <2> QED
      BY <1>1, <2>1 DEF AllApart
  <1>6. \A u, v \in cache' : u # v => Apart(u, v)
    <2>1. s # Pool!NoStack => \A u \in cache : Apart(s, u) /\ Apart(u, s)
      BY DEF AllApart, Apart
    <2> QED
      BY <1>1, <2>1 DEF AllApart
  <1>7. \A q, p \in Pool!Records :
           q # p /\ record'[q].stack # Pool!NoStack /\ record'[p].stack # Pool!NoStack
           => Apart(record'[q].stack, record'[p].stack)
    BY DEF AllApart
  <1> QED
    BY <1>1, <1>2, <1>3, <1>4, <1>5, <1>6, <1>7 DEF AllApart

LEMMA StackTaken ==
    ASSUME AllApart, PoolTypes, NEW r \in Pool!Records, record[r].stack = Pool!NoStack,
           NEW s \in cache, stack_last' = stack_last, cache' = cache \ {s}, record'[r].stack = s,
           \A q \in Pool!Records : q # r => record'[q].stack = record[q].stack
    PROVE  AllApart' /\ s \in Stack /\ s # Pool!NoStack
  <1>1. s \in Stack /\ Cut(s) /\ s # Pool!NoStack
    BY DEF AllApart, PoolTypes
  <1>2. \A q \in Pool!Records : Cut(record[q].stack)'
    BY <1>1 DEF AllApart, Cut
  <1>3. \A u \in cache' : Cut(u)' /\ u # Pool!NoStack
    BY DEF AllApart, Cut
  <1>4. \A q \in Pool!Records : q # r /\ record[q].stack # Pool!NoStack
           => Apart(record[q].stack, s) /\ Apart(s, record[q].stack)
    BY DEF AllApart, Apart
  <1>5. \A q, p \in Pool!Records :
           q # p /\ record'[q].stack # Pool!NoStack /\ record'[p].stack # Pool!NoStack
           => Apart(record'[q].stack, record'[p].stack)
    BY <1>4 DEF AllApart
  <1>6. \A q \in Pool!Records, u \in cache' :
           record'[q].stack # Pool!NoStack => Apart(record'[q].stack, u)
    BY DEF AllApart
  <1>7. \A u, v \in cache' : u # v => Apart(u, v)
    BY DEF AllApart
  <1> QED
    BY <1>1, <1>2, <1>3, <1>5, <1>6, <1>7 DEF AllApart

LEMMA StackCut ==
    ASSUME AllApart, PoolTypes, Pool!GuestThreadsAssumption,
           NEW r \in Pool!Records, record[r].stack = Pool!NoStack,
           NEW size \in Sizes, size <= stack_last, stack_last' = stack_last - size, cache' = cache,
           NEW s, s = [base |-> stack_last - size, size |-> size], record'[r].stack = s,
           \A q \in Pool!Records : q # r => record'[q].stack = record[q].stack
    PROVE  AllApart' /\ s \in Stack /\ s # Pool!NoStack /\ stack_last' \in 0 .. StackSpace
  <1>1. size \in Nat /\ size > 0 /\ stack_last \in Nat /\ stack_last <= StackSpace /\ StackSpace \in Nat
    <2>1. size \in Nat /\ size # 0 /\ StackSpace \in Nat
      BY DEF Pool!GuestThreadsAssumption
    <2>2. stack_last \in 0 .. StackSpace
      BY DEF PoolTypes, Pool!TypeOK
    <2> QED
      BY <2>1, <2>2
  <1>2. /\ s.base = stack_last - size /\ s.size = size /\ s.base \in Nat
        /\ stack_last' \in 0 .. StackSpace /\ stack_last' \in Nat
    BY <1>1
  <1>3. s \in Stack /\ s # Pool!NoStack
    BY <1>1, <1>2 DEF Stack, Pool!NoStack
  <1>4. \A u \in Stack : Cut(u) /\ u # Pool!NoStack => Cut(u)' /\ Apart(u, s) /\ Apart(s, u)
    BY <1>1, <1>2 DEF Cut, Apart, Stack
  <1>5. Cut(s)'
    BY <1>1, <1>2 DEF Cut
  <1>6. \A q \in Pool!Records : record[q].stack \in Stack /\ Cut(record[q].stack)
    BY PoolRecordFields DEF AllApart
  <1>7. \A q \in Pool!Records : Cut(record[q].stack)'
    <2>1. ASSUME NEW q \in Pool!Records, q # r PROVE Cut(record[q].stack)'
      BY <1>4, <1>6, <2>1 DEF Cut
    <2>2. Cut(record[r].stack)'
      BY <1>5 DEF Cut
    <2> QED
      BY <2>1, <2>2
  <1>8. \A u \in cache : u \in Stack /\ Cut(u) /\ u # Pool!NoStack
    BY DEF AllApart, PoolTypes
  <1>9. \A q, p \in Pool!Records :
           q # p /\ record'[q].stack # Pool!NoStack /\ record'[p].stack # Pool!NoStack
           => Apart(record'[q].stack, record'[p].stack)
    BY <1>4, <1>6 DEF AllApart
  <1>10. \A q \in Pool!Records, u \in cache' :
           record'[q].stack # Pool!NoStack => Apart(record'[q].stack, u)
    BY <1>4, <1>8 DEF AllApart
  <1> QED
    BY <1>2, <1>3, <1>4, <1>7, <1>8, <1>9, <1>10 DEF AllApart

LEMMA PoolMine ==
    ASSUME PoolInv, NEW c \in Pool!Callers, Uses(c)
    PROVE  /\ \A d \in Pool!Callers : d # c /\ Uses(d) => caller[d].on # caller[c].on
           /\ caller[c].on \in Pool!Records /\ Relies(c) /\ Recorded(caller[c].on)
           /\ caller[c].on <= pool /\ pool \in Nat
  <1>1. caller[c].on \in Pool!Records /\ Relies(c) /\ Recorded(caller[c].on)
    BY PoolFields DEF PoolInv, PoolHands
  <1>2. pool \in Nat /\ caller[c].on \in Nat
    BY <1>1 DEF PoolInv, PoolTypes, Pool!TypeOK, Pool!Records
  <1> QED
    BY <1>1, <1>2 DEF PoolInv, PoolHands, OneUser, Relies, Recorded

\* PthreadPool::Create hands out a free record, or a new one.
LEMMA PoolFirstFree ==
    ASSUME PoolInv, Pool!GuestThreadsAssumption, Pool!FirstFree <= MaxRecords
    PROVE  /\ Pool!FirstFree \in Pool!Records /\ record[Pool!FirstFree].free
           /\ Pool!FirstFree <= pool + 1
  <1>1. pool \in Nat /\ MaxRecords \in Nat /\ pool <= MaxRecords
    BY DEF PoolInv, PoolTypes, Pool!TypeOK, Pool!GuestThreadsAssumption
  <1>2. CASE \E r \in 1 .. pool : record[r].free
    <2> DEFINE S == {r \in 1 .. pool : record[r].free}
    <2>1. S # {} /\ S \in SUBSET Nat
      BY <1>1, <1>2
    <2>2. \E n \in S : \A m \in S : n <= m
      BY <2>1, LeastNumber
    <2>3. Pool!Min(S) \in S
      BY <2>2 DEF Pool!Min
    <2>4. Pool!FirstFree \in S
      BY <1>2, <2>3 DEF Pool!FirstFree
    <2> QED
      BY <1>1, <2>4 DEF Pool!Records
  <1>3. CASE ~\E r \in 1 .. pool : record[r].free
    <2>1. Pool!FirstFree = pool + 1
      BY <1>3 DEF Pool!FirstFree
    <2>2. Recorded(pool + 1) /\ pool + 1 \in Pool!Records
      BY <1>1, <2>1 DEF PoolInv, PoolHands, Pool!Records
    <2> QED
      BY <1>1, <2>1, <2>2 DEF Recorded
  <1> QED
    BY <1>2, <1>3

LEMMA PoolTakesRecord ==
    ASSUME PoolInv, Pool!GuestThreadsAssumption, NEW c \in Creators, NEW size \in Sizes,
           NEW detach \in BOOLEAN,
           Pool!TakeRecord(c, size, detach), NEW r, r = Pool!FirstFree
    PROVE  PoolInv'
  <1> DEFINE place == [at |-> "stack", on |-> r, size |-> size, detach |-> detach]
  <1>1. /\ r \in Pool!Records /\ record[r].free /\ r <= pool + 1 /\ r <= MaxRecords
        /\ pool \in 0 .. MaxRecords
    BY PoolFirstFree DEF Pool!TakeRecord, PoolInv, PoolTypes, Pool!TypeOK
  <1>2. /\ caller[c].at = "idle" /\ pool' = (IF r > pool THEN r ELSE pool)
        /\ record' = [record EXCEPT ![r].free = FALSE, ![r].stack = Pool!NoStack]
        /\ caller' = [caller EXCEPT ![c] = place]
        /\ UNCHANGED <<host, pool_mutex, stack_last, cache, handle>>
    BY DEF Pool!TakeRecord
  <1>3. PoolTypes /\ PoolHands /\ AllApart /\ Recorded(r) /\ c \in Pool!Callers /\ c # Pool!Reclaimer
    BY <1>1 DEF PoolInv, PoolHands, Pool!Callers, Pool!GuestThreadsAssumption
  <1>4. /\ record' \in [Pool!Records -> ThreadRecord]
        /\ record'[r].free = FALSE /\ record'[r].stack = Pool!NoStack
        /\ record'[r].almost_done = record[r].almost_done
        /\ \A q \in Pool!Records : q # r => record'[q] = record[q]
    <2>1. record \in [Pool!Records -> ThreadRecord] /\ Pool!NoStack \in Stack
      BY <1>3 DEF PoolTypes, Pool!NoStack, Stack
    <2> DEFINE new == [record[r] EXCEPT !.free = FALSE, !.stack = Pool!NoStack]
    <2>2. record[r] \in ThreadRecord
      BY <1>1, <2>1
    <2>3. /\ new \in ThreadRecord /\ new.free = FALSE /\ new.stack = Pool!NoStack
          /\ new.almost_done = record[r].almost_done
      BY <2>1, <2>2 DEF ThreadRecord
    <2>4. record' = [record EXCEPT ![r] = new]
      BY <1>1, <1>2, <2>1, <2>2 DEF ThreadRecord
    <2> HIDE DEF new
    <2> QED
      BY <1>1, <2>1, <2>3, <2>4
  <1>5. /\ caller' \in [Pool!Callers -> Place] /\ caller'[c] = place
        /\ \A d \in Pool!Callers : d # c => caller'[d] = caller[d]
    <2>1. place \in Place
      BY <1>1 DEF Place, Creating
    <2> QED
      BY <1>2, <1>3, <2>1 DEF PoolTypes
  <1>6. pool' \in 0 .. MaxRecords /\ pool' \in Nat /\ pool' >= pool /\ r <= pool'
    <2>1. r \in Nat /\ MaxRecords \in Nat /\ pool \in Nat
      BY <1>1 DEF Pool!Records, Pool!GuestThreadsAssumption
    <2> QED
      BY <1>1, <1>2, <2>1
  <1>7. PoolTypes'
    <2>1. Pool!TypeOK'
      BY <1>2, <1>3, <1>6 DEF PoolTypes, Pool!TypeOK
    <2> QED
      BY <1>2, <1>3, <1>4, <1>5, <2>1 DEF PoolTypes, Creating, Pool!Callers
  <1>8. AllApart'
    <2>1. \A q \in Pool!Records : record'[q].stack = record[q].stack
      BY <1>1, <1>3, <1>4 DEF Recorded
    <2> QED
      BY <1>2, <1>3, <2>1, StacksStay
  <1>9. PoolHands'
    <2>1. /\ \A d \in Pool!Callers : Uses(d) => caller[d].on # r
          /\ ~Uses(c)
      BY <1>1, <1>2, <1>3 DEF PoolHands, Relies, Uses
    <2>2. /\ \A d \in Pool!Callers : d # c => Relies(d)'
          /\ OneUser' /\ \A q \in Pool!Records : q # r => Recorded(q)'
      BY <1>1, <1>2, <1>3, <1>4, <1>5, <1>6, <2>1, PoolOthers
    <2>3. Relies(c)'
      BY <1>1, <1>2, <1>3, <1>4, <1>5 DEF Relies, Recorded, Creating, Joining
    <2>4. /\ host'[r] = "none" /\ handle'[r] = "none" /\ ~record'[r].almost_done
          /\ ~record'[r].free /\ ~(r > pool')
      <3>1. r \in Nat /\ pool' \in Nat /\ r <= pool'
        BY <1>1, <1>6 DEF Pool!Records
      <3> QED
        BY <1>1, <1>2, <1>3, <1>4, <3>1 DEF Recorded
    <2>5. Recorded(r)'
      BY <2>4 DEF Recorded
    <2>6. \A q \in Pool!Records : Recorded(q)'
      BY <2>2, <2>5
    <2>7. \A d \in Pool!Callers : Relies(d)'
      BY <2>2, <2>3
    <2> QED
      BY <2>2, <2>6, <2>7 DEF PoolHands
  <1> QED
    BY <1>7, <1>8, <1>9 DEF PoolInv

\* A step of a caller with a record that nobody else has in hands.
LEMMA PoolStepOnRecord ==
    ASSUME PoolInv, Pool!GuestThreadsAssumption, NEW c \in Pool!Callers, NEW r \in Pool!Records,
           \A d \in Pool!Callers : d # c /\ Uses(d) => caller[d].on # r,
           Uses(c) => caller[c].on = r,
           record' \in [Pool!Records -> ThreadRecord],
           host' \in [Pool!Records -> Pool!Alive \cup {"none", "ended"}],
           handle' \in [Pool!Records -> {"none", "guest"}],
           caller' \in [Pool!Callers -> Place], cache' \in SUBSET Stack,
           \A d \in Pool!Callers : d # c => caller'[d] = caller[d],
           Uses(c)' => caller'[c].on = r,
           caller'[c].at = "look" => c = Pool!Reclaimer,
           caller'[c].at \in Creating => c # Pool!Reclaimer /\ caller'[c].size \in Sizes,
           \A q \in Pool!Records : q # r =>
              record'[q] = record[q] /\ host'[q] = host[q] /\ handle'[q] = handle[q],
           pool' = pool, pool_mutex' \in BOOLEAN, stack_last' \in 0 .. StackSpace,
           Relies(c)', Recorded(r)', AllApart'
    PROVE  PoolInv'
  <1>1. PoolTypes /\ pool \in Nat
    BY DEF PoolInv, PoolTypes, Pool!TypeOK
  <1>2. PoolTypes'
    <2>1. Pool!TypeOK'
      BY <1>1 DEF PoolTypes, Pool!TypeOK
    <2>2. Creators \subseteq Pool!Callers /\ Pool!Reclaimer \in Pool!Callers /\ Pool!Reclaimer \notin Creators
      BY DEF Pool!Callers, Pool!GuestThreadsAssumption
    <2>3. caller'[Pool!Reclaimer].at \notin Creating
      BY <1>1, <2>2 DEF PoolTypes
    <2>4. \A d \in Creators : caller'[d].at # "look"
      BY <1>1, <2>2 DEF PoolTypes
    <2>5. \A d \in Pool!Callers : caller'[d].at \in Creating => caller'[d].size \in Sizes
      BY <1>1 DEF PoolTypes
    <2> QED
      BY <2>1, <2>3, <2>4, <2>5 DEF PoolTypes
  <1>3. /\ \A d \in Pool!Callers : d # c => Relies(d)'
        /\ OneUser' /\ \A q \in Pool!Records : q # r => Recorded(q)'
    <2>1. pool' \in Nat /\ pool' >= pool
      BY <1>1
    <2> QED
      BY <1>1, <2>1, PoolOthers
  <1> QED
    BY <1>1, <1>2, <1>3 DEF PoolInv, PoolHands

\* The reclaiming thread goes from record to record with none in its hands.
LEMMA PoolWanders ==
    ASSUME PoolInv, Pool!GuestThreadsAssumption, NEW c, c = Pool!Reclaimer,
           UNCHANGED <<pool, record, host, stack_last, cache, handle>>, pool_mutex' \in BOOLEAN,
           ~Uses(c), ~Uses(c)', caller' \in [Pool!Callers -> Place],
           \A d \in Pool!Callers : d # c => caller'[d] = caller[d]
    PROVE  PoolInv'
  <1>1. PoolTypes /\ PoolHands /\ AllApart /\ c \in Pool!Callers /\ c \notin Creators
        /\ Creators \subseteq Pool!Callers
    BY DEF PoolInv, Pool!Callers, Pool!GuestThreadsAssumption
  <1>2. PoolTypes'
    <2>1. Pool!TypeOK'
      BY <1>1 DEF PoolTypes, Pool!TypeOK
    <2>2. caller'[c].at \notin Creating
      BY DEF Uses, Creating
    <2>3. /\ \A d \in Creators : caller'[d].at # "look"
          /\ \A d \in Pool!Callers : caller'[d].at \in Creating => caller'[d].size \in Sizes
      BY <1>1, <2>2 DEF PoolTypes
    <2> QED
      BY <1>1, <2>1, <2>2, <2>3 DEF PoolTypes
  <1>3. AllApart'
    BY <1>1, StacksStay
  <1>4. \A d \in Pool!Callers : Uses(d)' <=> Uses(d)
    BY DEF Uses
  <1>5. ASSUME NEW d \in Pool!Callers PROVE Relies(d)'
    <2>1. Relies(d)
      BY <1>1 DEF PoolHands
    <2>2. CASE d # c
      BY <1>4, <2>1, <2>2 DEF Relies
    <2>3. CASE d = c
      BY <2>3 DEF Relies, Uses, Creating, Joining
    <2> QED
      BY <2>2, <2>3
  <1>6. OneUser'
    BY <1>1, <1>4 DEF PoolHands, OneUser, Uses
  <1>7. ASSUME NEW q \in Pool!Records PROVE Recorded(q)'
    <2>1. Recorded(q)
      BY <1>1 DEF PoolHands
    <2>2. \A d \in Pool!Callers : caller[d].at \in {"joined", "release"} => caller'[d] = caller[d]
      BY DEF Uses
    <2> QED
      BY <2>1, <2>2 DEF Recorded
  <1> QED
    BY <1>2, <1>3, <1>5, <1>6, <1>7 DEF PoolInv, PoolHands

\* What the steps of a caller make of its place, and of the stack of a record.
LEMMA PoolGoto ==
    ASSUME PoolTypes, NEW c \in Pool!Callers,
           NEW at \in Creating \cup Joining \cup {"idle", "look"}, Pool!Goto(c, at)
    PROVE  /\ caller' \in [Pool!Callers -> Place]
           /\ caller'[c].at = at /\ caller'[c].on = caller[c].on
           /\ caller'[c].size = caller[c].size /\ caller'[c].detach = caller[c].detach
           /\ \A d \in Pool!Callers : d # c => caller'[d] = caller[d]
  <1>1. caller \in [Pool!Callers -> Place]
    BY DEF PoolTypes
  <1> QED
    BY <1>1 DEF Pool!Goto, Place

LEMMA PoolReturn ==
    ASSUME PoolTypes, Pool!GuestThreadsAssumption, NEW c \in Pool!Callers, Pool!Return(c)
    PROVE  /\ caller' \in [Pool!Callers -> Place] /\ caller'[c].at = "idle"
           /\ \A d \in Pool!Callers : d # c => caller'[d] = caller[d]
  <1>1. caller \in [Pool!Callers -> Place]
    BY DEF PoolTypes
  <1>2. Pool!Idle \in Place /\ Pool!Idle.at = "idle"
    BY DEF Pool!GuestThreadsAssumption, Pool!Idle, Place, Pool!Records
  <1> QED
    BY <1>1, <1>2 DEF Pool!Return

LEMMA PoolNames ==
    ASSUME PoolTypes, NEW r \in Pool!Records, NEW s \in Stack,
           record' = [record EXCEPT ![r].stack = s]
    PROVE  /\ record' \in [Pool!Records -> ThreadRecord] /\ record'[r].stack = s
           /\ record'[r].free = record[r].free /\ record'[r].detached = record[r].detached
           /\ record'[r].almost_done = record[r].almost_done
           /\ \A q \in Pool!Records : q # r => record'[q] = record[q]
  <1>1. record \in [Pool!Records -> ThreadRecord]
    BY DEF PoolTypes
  <1> QED
    BY <1>1 DEF ThreadRecord

LEMMA PoolFills ==
    ASSUME PoolTypes, NEW r \in Pool!Records, NEW detach \in BOOLEAN,
           record' = [record EXCEPT ![r].almost_done = FALSE, ![r].detached = detach,
                                    ![r].cancelled = FALSE]
    PROVE  /\ record' \in [Pool!Records -> ThreadRecord] /\ record'[r].stack = record[r].stack
           /\ record'[r].free = record[r].free /\ ~record'[r].almost_done
           /\ record'[r].detached = detach
           /\ \A q \in Pool!Records : q # r => record'[q] = record[q]
  <1>1. record \in [Pool!Records -> ThreadRecord]
    BY DEF PoolTypes
  <1> QED
    BY <1>1 DEF ThreadRecord

LEMMA PoolFrees ==
    ASSUME PoolTypes, NEW r \in Pool!Records,
           record' = [record EXCEPT ![r].almost_done = FALSE, ![r].free = TRUE]
    PROVE  /\ record' \in [Pool!Records -> ThreadRecord] /\ record'[r].stack = record[r].stack
           /\ record'[r].free /\ ~record'[r].almost_done
           /\ \A q \in Pool!Records : q # r => record'[q] = record[q]
  <1>1. record \in [Pool!Records -> ThreadRecord]
    BY DEF PoolTypes
  <1> QED
    BY <1>1 DEF ThreadRecord

\* What a caller knows of itself and of the record in its hands.
LEMMA PoolHolds ==
    ASSUME PoolInv, Pool!GuestThreadsAssumption, NEW c \in Pool!Callers, Uses(c),
           NEW r, r = caller[c].on
    PROVE  /\ PoolTypes /\ AllApart /\ r \in Pool!Records /\ r \in Nat /\ r <= pool /\ ~(r > pool)
           /\ ~record[r].free /\ handle[r] = "none"
           /\ \A d \in Pool!Callers : d # c /\ Uses(d) => caller[d].on # r
           /\ caller[c].at \in Creating => host[r] = "none" /\ ~record[r].almost_done
           /\ pool \in Nat /\ pool <= MaxRecords /\ pool_mutex \in BOOLEAN
           /\ stack_last \in 0 .. StackSpace
           /\ Pool!NoStack \in Stack
  <1>1. /\ PoolTypes /\ AllApart /\ r \in Pool!Records /\ r <= pool /\ pool \in Nat /\ Relies(c)
        /\ \A d \in Pool!Callers : d # c /\ Uses(d) => caller[d].on # r
    BY PoolMine DEF PoolInv
  <1>2. r \in Nat
    BY <1>1 DEF Pool!Records
  <1>3. ~(r > pool)
    BY <1>1, <1>2
  <1>4. /\ pool <= MaxRecords /\ pool_mutex \in BOOLEAN /\ stack_last \in 0 .. StackSpace
        /\ Pool!NoStack \in Stack
    BY <1>1 DEF PoolTypes, Pool!TypeOK, Pool!GuestThreadsAssumption, Pool!NoStack, Stack
  <1> QED
    BY <1>1, <1>2, <1>3, <1>4 DEF Relies

LEMMA PoolTakesStack ==
    ASSUME PoolInv, Pool!GuestThreadsAssumption, NEW c \in Creators, Pool!TakeStack(c),
           NEW r, r = caller[c].on
    PROVE  PoolInv'
  <1>1. /\ c \in Pool!Callers /\ Uses(c) /\ caller[c].at = "stack" /\ c # Pool!Reclaimer
        /\ UNCHANGED <<pool, host, pool_mutex, handle, creates>>
    BY DEF Pool!TakeStack, Uses, Pool!Callers, Pool!GuestThreadsAssumption
  <1>2. /\ PoolTypes /\ AllApart /\ r \in Pool!Records /\ ~(r > pool) /\ ~record[r].free
        /\ handle[r] = "none" /\ host[r] = "none" /\ ~record[r].almost_done
        /\ \A d \in Pool!Callers : d # c /\ Uses(d) => caller[d].on # r
        /\ pool_mutex \in BOOLEAN /\ stack_last \in 0 .. StackSpace
    BY <1>1, PoolHolds DEF Creating
  <1>3. /\ record[r].stack = Pool!NoStack /\ caller[c].size \in Sizes
        /\ host' \in [Pool!Records -> Pool!Alive \cup {"none", "ended"}]
        /\ handle' \in [Pool!Records -> {"none", "guest"}] /\ cache \in SUBSET Stack
    <2>1. Relies(c)
      BY <1>1 DEF PoolInv, PoolHands
    <2>2. record[r].stack = Pool!NoStack
      BY <1>1, <2>1 DEF Relies
    <2> QED
      BY <1>1, <1>2, <2>2 DEF PoolTypes, Creating
  <1>4. ASSUME NEW s \in Stack, s # Pool!NoStack, record' = [record EXCEPT ![r].stack = s],
               Pool!Goto(c, "protect"), AllApart', cache' \in SUBSET Stack,
               stack_last' \in 0 .. StackSpace
        PROVE  PoolInv'
    <2>1. /\ record' \in [Pool!Records -> ThreadRecord] /\ record'[r].stack = s /\ ~record'[r].free
          /\ ~record'[r].almost_done /\ \A q \in Pool!Records : q # r => record'[q] = record[q]
      BY <1>2, <1>4, PoolNames
    <2>2. /\ caller' \in [Pool!Callers -> Place] /\ caller'[c].at = "protect" /\ caller'[c].on = r
          /\ caller'[c].size \in Sizes /\ \A d \in Pool!Callers : d # c => caller'[d] = caller[d]
      BY <1>1, <1>2, <1>3, <1>4, PoolGoto DEF Creating
    <2>3. Relies(c)'
      BY <1>1, <1>2, <1>4, <2>1, <2>2 DEF Relies, Creating, Joining
    <2>4. Recorded(r)'
      BY <1>1, <1>2, <1>4, <2>1 DEF Recorded
    <2> QED
      BY <1>1, <1>2, <1>3, <1>4, <2>1, <2>2, <2>3, <2>4, PoolStepOnRecord
  <1>5. CASE \E s \in cache : /\ cache' = cache \ {s} /\ Pool!Goto(c, "protect")
                              /\ record' = [record EXCEPT ![r].stack = s] /\ UNCHANGED stack_last
    <2>1. PICK s \in cache : /\ cache' = cache \ {s} /\ Pool!Goto(c, "protect")
                             /\ record' = [record EXCEPT ![r].stack = s] /\ UNCHANGED stack_last
      BY <1>5
    <2>2. s \in Stack
      BY <1>3
    <2>3. /\ record'[r].stack = s
          /\ \A q \in Pool!Records : q # r => record'[q].stack = record[q].stack
      BY <1>2, <2>1, <2>2, PoolNames
    <2>4. AllApart' /\ s # Pool!NoStack
      BY <1>2, <1>3, <2>1, <2>3, StackTaken
    <2> QED
      BY <1>2, <1>3, <1>4, <2>1, <2>2, <2>4
  <1>6. CASE /\ caller[c].size <= stack_last /\ stack_last' = stack_last - caller[c].size
             /\ record' = [record EXCEPT ![r].stack = [base |-> stack_last - caller[c].size,
                                                       size |-> caller[c].size]]
             /\ Pool!Goto(c, "protect") /\ UNCHANGED cache
    <2>1. PICK size \in Sizes : size = caller[c].size
      BY <1>3
    <2>2. PICK s : s = [base |-> stack_last - size, size |-> size]
      OBVIOUS
    <2>3. record' = [record EXCEPT ![r].stack = s]
      BY <1>6, <2>1, <2>2
    <2>4. s \in Stack
      <3>1. size \in Nat /\ stack_last \in Nat /\ size <= stack_last
        BY <1>2, <1>6, <2>1 DEF Pool!GuestThreadsAssumption
      <3> QED
        BY <2>2, <3>1 DEF Stack
    <2>5. /\ record'[r].stack = s
          /\ \A q \in Pool!Records : q # r => record'[q].stack = record[q].stack
      BY <1>2, <2>3, <2>4, PoolNames
    <2>6. AllApart' /\ s # Pool!NoStack /\ stack_last' \in 0 .. StackSpace
      BY <1>2, <1>3, <1>6, <2>1, <2>2, <2>5, StackCut
    <2> QED
      BY <1>3, <1>4, <1>6, <2>3, <2>4, <2>6
  <1>7. CASE Pool!Goto(c, "failed") /\ UNCHANGED <<cache, stack_last, record>>
    <2>1. /\ caller' \in [Pool!Callers -> Place] /\ caller'[c].at = "failed" /\ caller'[c].on = r
          /\ caller'[c].size \in Sizes /\ \A d \in Pool!Callers : d # c => caller'[d] = caller[d]
      BY <1>1, <1>2, <1>3, <1>7, PoolGoto DEF Creating
    <2>2. Relies(c)'
      BY <1>1, <1>2, <1>3, <1>7, <2>1 DEF Relies, Creating, Joining
    <2>3. Recorded(r)'
      BY <1>1, <1>2, <1>7 DEF Recorded
    <2>4. AllApart' /\ record' \in [Pool!Records -> ThreadRecord]
      BY <1>2, <1>7, StacksStay DEF PoolTypes
    <2> QED
      BY <1>1, <1>2, <1>3, <1>7, <2>1, <2>2, <2>3, <2>4, PoolStepOnRecord
  <1> QED
    BY <1>5, <1>6, <1>7 DEF Pool!TakeStack

LEMMA PoolFillsRecord ==
    ASSUME PoolInv, Pool!GuestThreadsAssumption, NEW c \in Creators, Pool!FillRecord(c),
           NEW r, r = caller[c].on
    PROVE  PoolInv'
  <1>1. /\ c \in Pool!Callers /\ Uses(c) /\ caller[c].at = "protect" /\ c # Pool!Reclaimer
        /\ UNCHANGED <<pool, host, pool_mutex, stack_last, cache, handle, creates>>
    BY DEF Pool!FillRecord, Uses, Pool!Callers, Pool!GuestThreadsAssumption
  <1>2. /\ PoolTypes /\ AllApart /\ r \in Pool!Records /\ ~(r > pool) /\ ~record[r].free
        /\ handle[r] = "none" /\ host[r] = "none" /\ ~record[r].almost_done
        /\ \A d \in Pool!Callers : d # c /\ Uses(d) => caller[d].on # r
        /\ pool_mutex \in BOOLEAN /\ stack_last \in 0 .. StackSpace /\ Pool!NoStack \in Stack
    BY <1>1, PoolHolds DEF Creating
  <1>3. /\ record[r].stack # Pool!NoStack /\ caller[c].size \in Sizes /\ caller[c].detach \in BOOLEAN
        /\ host' \in [Pool!Records -> Pool!Alive \cup {"none", "ended"}]
        /\ handle' \in [Pool!Records -> {"none", "guest"}] /\ cache' \in SUBSET Stack
    <2>1. Relies(c)
      BY <1>1 DEF PoolInv, PoolHands
    <2>2. record[r].stack # Pool!NoStack
      BY <1>1, <2>1 DEF Relies
    <2>3. caller[c].size \in Sizes /\ caller[c].detach \in BOOLEAN
      BY <1>1, <1>2, PoolFields DEF Creating
    <2> QED
      BY <1>1, <1>2, <2>2, <2>3 DEF PoolTypes
  <1>4. CASE /\ record' = [record EXCEPT ![r].almost_done = FALSE, ![r].detached = caller[c].detach,
                                         ![r].cancelled = FALSE]
             /\ Pool!Goto(c, "start")
    <2>1. /\ record' \in [Pool!Records -> ThreadRecord] /\ record'[r].stack = record[r].stack
          /\ ~record'[r].free /\ ~record'[r].almost_done /\ record'[r].detached = caller[c].detach
          /\ \A q \in Pool!Records : q # r => record'[q] = record[q]
      BY <1>2, <1>3, <1>4, PoolFills
    <2>2. /\ caller' \in [Pool!Callers -> Place] /\ caller'[c].at = "start" /\ caller'[c].on = r
          /\ caller'[c].size \in Sizes /\ caller'[c].detach = caller[c].detach
          /\ \A d \in Pool!Callers : d # c => caller'[d] = caller[d]
      BY <1>1, <1>2, <1>3, <1>4, PoolGoto DEF Creating
    <2>3. Relies(c)'
      BY <1>1, <1>2, <1>3, <2>1, <2>2 DEF Relies, Creating, Joining
    <2>4. Recorded(r)'
      BY <1>1, <1>2, <2>1 DEF Recorded
    <2>5. AllApart'
      BY <1>1, <1>2, <2>1, StacksStay
    <2> QED
      BY <1>1, <1>2, <1>3, <2>1, <2>2, <2>3, <2>4, <2>5, PoolStepOnRecord
  <1>5. CASE record' = [record EXCEPT ![r].stack = Pool!NoStack] /\ Pool!Goto(c, "failed")
    <2>1. /\ record' \in [Pool!Records -> ThreadRecord] /\ record'[r].stack = Pool!NoStack
          /\ ~record'[r].free /\ ~record'[r].almost_done
          /\ \A q \in Pool!Records : q # r => record'[q] = record[q]
      BY <1>2, <1>5, PoolNames
    <2>2. /\ caller' \in [Pool!Callers -> Place] /\ caller'[c].at = "failed" /\ caller'[c].on = r
          /\ caller'[c].size \in Sizes /\ \A d \in Pool!Callers : d # c => caller'[d] = caller[d]
      BY <1>1, <1>2, <1>3, <1>5, PoolGoto DEF Creating
    <2>3. Relies(c)'
      BY <1>1, <1>2, <2>1, <2>2 DEF Relies, Creating, Joining
    <2>4. Recorded(r)'
      BY <1>1, <1>2, <2>1 DEF Recorded
    <2>5. AllApart'
      BY <1>1, <1>2, <2>1, StackGoes
    <2> QED
      BY <1>1, <1>2, <1>3, <2>1, <2>2, <2>3, <2>4, <2>5, PoolStepOnRecord
  <1> QED
    BY <1>4, <1>5 DEF Pool!FillRecord

LEMMA PoolStartsHost ==
    ASSUME PoolInv, Pool!GuestThreadsAssumption, NEW c \in Creators, Pool!StartHost(c),
           NEW r, r = caller[c].on
    PROVE  PoolInv'
  <1>1. /\ c \in Pool!Callers /\ Uses(c) /\ caller[c].at = "start" /\ c # Pool!Reclaimer
        /\ UNCHANGED <<pool, pool_mutex, stack_last, creates>>
    BY DEF Pool!StartHost, Uses, Pool!Callers, Pool!GuestThreadsAssumption
  <1>2. /\ PoolTypes /\ AllApart /\ r \in Pool!Records /\ ~(r > pool) /\ ~record[r].free
        /\ handle[r] = "none" /\ host[r] = "none" /\ ~record[r].almost_done
        /\ \A d \in Pool!Callers : d # c /\ Uses(d) => caller[d].on # r
        /\ pool_mutex \in BOOLEAN /\ stack_last \in 0 .. StackSpace /\ Pool!NoStack \in Stack
    BY <1>1, PoolHolds DEF Creating
  <1>3. /\ record[r].stack # Pool!NoStack /\ (record[r].detached <=> caller[c].detach)
        /\ caller[c].size \in Sizes /\ caller[c].detach \in BOOLEAN
    <2>1. Relies(c)
      BY <1>1 DEF PoolInv, PoolHands
    <2>2. record[r].stack # Pool!NoStack /\ (record[r].detached <=> caller[c].detach)
      BY <1>1, <2>1 DEF Relies
    <2>3. caller[c].size \in Sizes /\ caller[c].detach \in BOOLEAN
      BY <1>1, <1>2, PoolFields DEF Creating
    <2> QED
      BY <2>2, <2>3
  <1>4. CASE /\ host' = [host EXCEPT ![r] = "starting"]
             /\ handle' = [handle EXCEPT ![r] = IF caller[c].detach THEN "none" ELSE "guest"]
             /\ Pool!Return(c) /\ UNCHANGED <<record, cache>>
    <2>1. /\ host' \in [Pool!Records -> Pool!Alive \cup {"none", "ended"}] /\ host'[r] = "starting"
          /\ handle' \in [Pool!Records -> {"none", "guest"}]
          /\ (handle'[r] = "guest" => ~caller[c].detach)
          /\ \A q \in Pool!Records : q # r => host'[q] = host[q] /\ handle'[q] = handle[q]
      <3>1. /\ host \in [Pool!Records -> Pool!Alive \cup {"none", "ended"}]
            /\ handle \in [Pool!Records -> {"none", "guest"}]
        BY <1>2 DEF PoolTypes
      <3> QED
        BY <1>2, <1>4, <3>1 DEF Pool!Alive
    <2>2. /\ caller' \in [Pool!Callers -> Place] /\ caller'[c].at = "idle"
          /\ \A d \in Pool!Callers : d # c => caller'[d] = caller[d]
      BY <1>1, <1>2, <1>4, PoolReturn
    <2>3. Relies(c)' /\ ~Uses(c)'
      BY <2>2 DEF Relies, Uses, Creating, Joining
    <2>4. Recorded(r)'
      BY <1>1, <1>2, <1>3, <1>4, <2>1 DEF Recorded
    <2>5. AllApart' /\ record' \in [Pool!Records -> ThreadRecord] /\ cache' \in SUBSET Stack
      BY <1>1, <1>2, <1>4, StacksStay DEF PoolTypes
    <2>6. caller'[c].at # "look" /\ caller'[c].at \notin Creating
      BY <2>2 DEF Creating
    <2> QED
      BY <1>1, <1>2, <1>4, <2>1, <2>2, <2>3, <2>4, <2>5, <2>6, PoolStepOnRecord
  <1>5. CASE /\ cache' = Pool!Cached(r) /\ record' = [record EXCEPT ![r].stack = Pool!NoStack]
             /\ Pool!Goto(c, "failed") /\ UNCHANGED <<host, handle>>
    <2>1. /\ record' \in [Pool!Records -> ThreadRecord] /\ record'[r].stack = Pool!NoStack
          /\ ~record'[r].free /\ ~record'[r].almost_done
          /\ \A q \in Pool!Records : q # r => record'[q] = record[q]
      BY <1>2, <1>5, PoolNames
    <2>2. /\ caller' \in [Pool!Callers -> Place] /\ caller'[c].at = "failed" /\ caller'[c].on = r
          /\ caller'[c].size \in Sizes /\ \A d \in Pool!Callers : d # c => caller'[d] = caller[d]
      BY <1>1, <1>2, <1>3, <1>5, PoolGoto DEF Creating
    <2>3. Relies(c)'
      BY <1>1, <1>2, <1>5, <2>1, <2>2 DEF Relies, Creating, Joining
    <2>4. Recorded(r)'
      BY <1>1, <1>2, <1>5, <2>1 DEF Recorded
    <2>5. AllApart' /\ cache' \in SUBSET Stack
      BY <1>1, <1>2, <1>5, <2>1, StackGoes
    <2>6. /\ host' \in [Pool!Records -> Pool!Alive \cup {"none", "ended"}]
          /\ handle' \in [Pool!Records -> {"none", "guest"}]
      BY <1>2, <1>5 DEF PoolTypes
    <2> QED
      BY <1>1, <1>2, <1>5, <2>1, <2>2, <2>3, <2>4, <2>5, <2>6, PoolStepOnRecord
  <1> QED
    BY <1>4, <1>5 DEF Pool!StartHost

LEMMA PoolGivesUp ==
    ASSUME PoolInv, Pool!GuestThreadsAssumption, NEW c \in Creators, Pool!GiveUp(c),
           NEW r, r = caller[c].on
    PROVE  PoolInv'
  <1>1. /\ c \in Pool!Callers /\ Uses(c) /\ caller[c].at = "failed" /\ c # Pool!Reclaimer
        /\ record' = [record EXCEPT ![r].free = TRUE] /\ Pool!Return(c)
        /\ UNCHANGED <<pool, host, pool_mutex, stack_last, cache, handle, creates>>
    BY DEF Pool!GiveUp, Uses, Pool!Callers, Pool!GuestThreadsAssumption
  <1>2. /\ PoolTypes /\ AllApart /\ r \in Pool!Records
        /\ handle[r] = "none" /\ host[r] = "none" /\ ~record[r].almost_done
        /\ \A d \in Pool!Callers : d # c /\ Uses(d) => caller[d].on # r
        /\ pool_mutex \in BOOLEAN /\ stack_last \in 0 .. StackSpace
    BY <1>1, PoolHolds DEF Creating
  <1>3. record[r].stack = Pool!NoStack
    <2>1. Relies(c)
      BY <1>1 DEF PoolInv, PoolHands
    <2> QED
      BY <1>1, <2>1 DEF Relies
  <1>4. /\ record' \in [Pool!Records -> ThreadRecord] /\ record'[r].stack = Pool!NoStack
        /\ record'[r].free /\ ~record'[r].almost_done
        /\ \A q \in Pool!Records : q # r => record'[q] = record[q]
    <2>1. record \in [Pool!Records -> ThreadRecord]
      BY <1>2 DEF PoolTypes
    <2> QED
      BY <1>1, <1>2, <1>3, <2>1 DEF ThreadRecord
  <1>5. /\ caller' \in [Pool!Callers -> Place] /\ caller'[c].at = "idle"
        /\ \A d \in Pool!Callers : d # c => caller'[d] = caller[d]
    BY <1>1, <1>2, PoolReturn
  <1>6. Relies(c)' /\ ~Uses(c)' /\ caller'[c].at # "look" /\ caller'[c].at \notin Creating
    BY <1>5 DEF Relies, Uses, Creating, Joining
  <1>7. Recorded(r)'
    BY <1>1, <1>2, <1>4 DEF Recorded
  <1>8. AllApart'
    BY <1>1, <1>2, <1>3, <1>4, StacksStay
  <1>9. /\ host' \in [Pool!Records -> Pool!Alive \cup {"none", "ended"}]
        /\ handle' \in [Pool!Records -> {"none", "guest"}] /\ cache' \in SUBSET Stack
    BY <1>1, <1>2 DEF PoolTypes
  <1> QED
    BY <1>1, <1>2, <1>4, <1>5, <1>6, <1>7, <1>8, <1>9, PoolStepOnRecord

\* The thread itself, and its guest's PthreadDetach and PthreadCancel.
LEMMA PoolThreadSteps ==
    ASSUME PoolInv, NEW r \in Pool!Records,
           \/ Pool!RunThread(r) \/ Pool!EntryEnds(r) \/ Pool!CleanupThread(r) \/ Pool!HostEnds(r)
           \/ Pool!PthreadDetach(r) \/ Pool!PthreadCancel(r)
    PROVE  PoolInv'
  <1>1. /\ PoolTypes /\ AllApart /\ Recorded(r)
        /\ record \in [Pool!Records -> ThreadRecord]
        /\ host \in [Pool!Records -> Pool!Alive \cup {"none", "ended"}]
        /\ handle \in [Pool!Records -> {"none", "guest"}]
    BY DEF PoolInv, PoolHands, PoolTypes
  <1>2. UNCHANGED <<pool, pool_mutex, stack_last, cache, caller>>
    BY DEF Pool!RunThread, Pool!EntryEnds, Pool!CleanupThread, Pool!HostEnds, Pool!PthreadDetach,
           Pool!PthreadCancel
  <1>3. ASSUME record' \in [Pool!Records -> ThreadRecord],
               host' \in [Pool!Records -> Pool!Alive \cup {"none", "ended"}],
               handle' \in [Pool!Records -> {"none", "guest"}], PoolHands',
               \A q \in Pool!Records : record'[q].stack = record[q].stack
        PROVE  PoolInv'
    <2>1. Pool!TypeOK'
      BY <1>1, <1>2, <1>3 DEF PoolTypes, Pool!TypeOK
    <2>2. PoolTypes'
      BY <1>1, <1>2, <1>3, <2>1 DEF PoolTypes
    <2>3. AllApart'
      BY <1>1, <1>2, <1>3, StacksStay
    <2> QED
      BY <1>3, <2>2, <2>3 DEF PoolInv
  <1>4. ASSUME NEW to \in {"guest", "cleanup", "ended"}, host' = [host EXCEPT ![r] = to],
               host[r] # "none", record[r].almost_done => to = "ended",
               UNCHANGED <<record, handle>>
        PROVE  PoolInv'
    <2>1. /\ host' \in [Pool!Records -> Pool!Alive \cup {"none", "ended"}]
          /\ host'[r] = to /\ \A q \in Pool!Records : q # r => host'[q] = host[q]
      BY <1>1, <1>4 DEF Pool!Alive
    <2>2. PoolHands'
      BY <1>2, <1>4, <2>1, PoolThreads
    <2> QED
      BY <1>1, <1>3, <1>4, <2>1, <2>2
  <1>5. ASSUME host[r] \in {"starting", "guest", "cleanup"} PROVE ~record[r].almost_done
    <2>1. SUFFICES ASSUME record[r].almost_done PROVE FALSE
      OBVIOUS
    <2>2. PICK d \in Pool!Callers : caller[d].on = r /\ caller[d].at \in {"joined", "release"}
      BY <1>1, <1>5, <2>1 DEF Recorded
    <2> QED
      BY <1>5, <2>2 DEF PoolInv, PoolHands, Relies
  <1>6. CASE Pool!RunThread(r) \/ Pool!EntryEnds(r) \/ Pool!HostEnds(r)
    <2>1. CASE Pool!RunThread(r)
      BY <1>4, <1>5, <2>1 DEF Pool!RunThread
    <2>2. CASE Pool!EntryEnds(r)
      BY <1>4, <1>5, <2>2 DEF Pool!EntryEnds
    <2>3. CASE Pool!HostEnds(r)
      BY <1>4, <2>3 DEF Pool!HostEnds
    <2> QED
      BY <1>6, <2>1, <2>2, <2>3
  <1>7. CASE Pool!CleanupThread(r)
    <2>1. /\ host[r] = "cleanup" /\ host' = [host EXCEPT ![r] = "leaving"] /\ handle' = handle
          /\ record' = [record EXCEPT ![r].almost_done = TRUE]
      BY <1>7 DEF Pool!CleanupThread
    <2>2. /\ host' \in [Pool!Records -> Pool!Alive \cup {"none", "ended"}]
          /\ host'[r] = "leaving" /\ \A q \in Pool!Records : q # r => host'[q] = host[q]
      BY <1>1, <2>1 DEF Pool!Alive
    <2>3. /\ record' \in [Pool!Records -> ThreadRecord] /\ record'[r].stack = record[r].stack
          /\ record'[r].free = record[r].free /\ record'[r].detached = record[r].detached
          /\ \A q \in Pool!Records : q # r => record'[q] = record[q]
      BY <1>1, <2>1 DEF ThreadRecord
    <2>4. handle'[r] \in {"none", handle[r]}
      BY <2>1
    <2>5. PoolHands'
      BY <1>2, <2>1, <2>2, <2>3, <2>4, PoolThreads
    <2> QED
      BY <1>1, <1>3, <2>1, <2>2, <2>3, <2>5
  <1>8. CASE Pool!PthreadDetach(r) \/ Pool!PthreadCancel(r)
    <2>1. /\ handle[r] = "guest" /\ host' = host
          /\ \/ /\ record' = [record EXCEPT ![r].detached = TRUE]
                /\ handle' = [handle EXCEPT ![r] = "none"]
             \/ record' = [record EXCEPT ![r].cancelled = TRUE] /\ handle' = handle
      BY <1>8 DEF Pool!PthreadDetach, Pool!PthreadCancel
    <2>2. host[r] # "none"
      BY <1>1, <2>1 DEF Recorded
    <2>3. /\ handle' \in [Pool!Records -> {"none", "guest"}] /\ handle'[r] \in {"none", handle[r]}
          /\ \A q \in Pool!Records : q # r => handle'[q] = handle[q]
      BY <1>1, <2>1
    <2>4. /\ record' \in [Pool!Records -> ThreadRecord] /\ record'[r].stack = record[r].stack
          /\ record'[r].free = record[r].free /\ record'[r].almost_done = record[r].almost_done
          /\ \A q \in Pool!Records : q # r => record'[q] = record[q]
      <3>1. CASE record' = [record EXCEPT ![r].detached = TRUE]
        BY <1>1, <3>1 DEF ThreadRecord
      <3>2. CASE record' = [record EXCEPT ![r].cancelled = TRUE]
        BY <1>1, <3>2 DEF ThreadRecord
      <3> QED
        BY <2>1, <3>1, <3>2
    <2>5. record'[r].detached = record[r].detached \/ handle'[r] = "none"
      <3>1. CASE record' = [record EXCEPT ![r].cancelled = TRUE]
        BY <1>1, <3>1 DEF ThreadRecord
      <3>2. CASE handle' = [handle EXCEPT ![r] = "none"]
        BY <1>1, <3>2
      <3> QED
        BY <2>1, <3>1, <3>2
    <2>6. PoolHands'
      BY <1>2, <2>1, <2>2, <2>3, <2>4, <2>5, PoolThreads
    <2> QED
      BY <1>1, <1>3, <2>1, <2>3, <2>4, <2>6
  <1> QED
    BY <1>6, <1>7, <1>8

\* Joining, by a guest or by the thread that reclaims detached threads.
LEMMA PoolBeginsJoin ==
    ASSUME PoolInv, Pool!GuestThreadsAssumption, NEW c \in Creators,
           NEW r \in 1 .. pool, Pool!JoinBegin(c, r)
    PROVE  PoolInv'
  <1>1. /\ c \in Pool!Callers /\ c # Pool!Reclaimer /\ PoolTypes /\ AllApart
        /\ caller[c].at = "idle" /\ handle[r] = "guest"
        /\ handle' = [handle EXCEPT ![r] = "none"]
        /\ caller' = [caller EXCEPT ![c].at = "join", ![c].on = r]
        /\ UNCHANGED <<pool, record, host, pool_mutex, stack_last, cache, creates>>
    BY DEF Pool!JoinBegin, Pool!Callers, Pool!GuestThreadsAssumption, PoolInv
  <1>2. r \in Pool!Records /\ pool_mutex \in BOOLEAN /\ stack_last \in 0 .. StackSpace
    <2>1. pool \in 0 .. MaxRecords /\ MaxRecords \in Nat
      BY <1>1 DEF PoolTypes, Pool!TypeOK, Pool!GuestThreadsAssumption
    <2> QED
      BY <1>1, <2>1 DEF Pool!Records, PoolTypes, Pool!TypeOK
  <1>3. /\ Recorded(r) /\ ~record[r].free /\ host[r] # "none" /\ ~record[r].detached /\ ~Uses(c)
        /\ \A d \in Pool!Callers : d # c /\ Uses(d) => caller[d].on # r
    BY <1>1, <1>2 DEF PoolInv, PoolHands, Recorded, Relies, Uses
  <1>4. /\ handle' \in [Pool!Records -> {"none", "guest"}] /\ handle'[r] = "none"
        /\ \A q \in Pool!Records : q # r => handle'[q] = handle[q]
    <2>1. handle \in [Pool!Records -> {"none", "guest"}]
      BY <1>1 DEF PoolTypes
    <2> QED
      BY <1>1, <1>2, <2>1
  <1>5. /\ caller' \in [Pool!Callers -> Place] /\ caller'[c].at = "join" /\ caller'[c].on = r
        /\ \A d \in Pool!Callers : d # c => caller'[d] = caller[d]
    <2>1. caller \in [Pool!Callers -> Place]
      BY <1>1 DEF PoolTypes
    <2> QED
      BY <1>1, <1>2, <2>1 DEF Place, Joining
  <1>6. Relies(c)' /\ caller'[c].at # "look" /\ caller'[c].at \notin Creating
    BY <1>1, <1>3, <1>4, <1>5 DEF Relies, Creating, Joining
  <1>7. Recorded(r)'
    <2>1. \A d \in Pool!Callers : caller[d].at \in {"joined", "release"} => caller'[d] = caller[d]
      BY <1>1, <1>5
    <2> QED
      BY <1>1, <1>3, <1>4, <2>1 DEF Recorded
  <1>8. /\ AllApart' /\ record' \in [Pool!Records -> ThreadRecord]
        /\ host' \in [Pool!Records -> Pool!Alive \cup {"none", "ended"}] /\ cache' \in SUBSET Stack
    BY <1>1, StacksStay DEF PoolTypes
  <1> QED
    BY <1>1, <1>2, <1>3, <1>4, <1>5, <1>6, <1>7, <1>8, PoolStepOnRecord

LEMMA PoolJoinsHost ==
    ASSUME PoolInv, Pool!GuestThreadsAssumption, NEW c \in Pool!Callers, Pool!HostJoined(c),
           NEW r, r = caller[c].on
    PROVE  PoolInv'
  <1>1. /\ Uses(c) /\ caller[c].at = "join" /\ host[r] = "ended"
        /\ host' = [host EXCEPT ![r] = "none"] /\ Pool!Goto(c, "joined")
        /\ UNCHANGED <<pool, record, pool_mutex, stack_last, cache, handle, creates>>
    BY DEF Pool!HostJoined, Uses
  <1>2. /\ PoolTypes /\ AllApart /\ r \in Pool!Records /\ ~(r > pool) /\ ~record[r].free
        /\ handle[r] = "none" /\ Relies(c)
        /\ \A d \in Pool!Callers : d # c /\ Uses(d) => caller[d].on # r
        /\ pool_mutex \in BOOLEAN /\ stack_last \in 0 .. StackSpace
    BY <1>1, PoolHolds DEF PoolInv, PoolHands
  <1>3. /\ host' \in [Pool!Records -> Pool!Alive \cup {"none", "ended"}] /\ host'[r] = "none"
        /\ \A q \in Pool!Records : q # r => host'[q] = host[q]
    <2>1. host \in [Pool!Records -> Pool!Alive \cup {"none", "ended"}]
      BY <1>2 DEF PoolTypes
    <2> QED
      BY <1>1, <1>2, <2>1
  <1>4. /\ caller' \in [Pool!Callers -> Place] /\ caller'[c].at = "joined" /\ caller'[c].on = r
        /\ \A d \in Pool!Callers : d # c => caller'[d] = caller[d]
    BY <1>1, <1>2, PoolGoto DEF Joining
  <1>5. Relies(c)' /\ caller'[c].at # "look" /\ caller'[c].at \notin Creating
    BY <1>1, <1>2, <1>3, <1>4 DEF Relies, Creating, Joining
  <1>6. Recorded(r)'
    BY <1>1, <1>2, <1>3, <1>4 DEF Recorded
  <1>7. /\ AllApart' /\ record' \in [Pool!Records -> ThreadRecord]
        /\ handle' \in [Pool!Records -> {"none", "guest"}] /\ cache' \in SUBSET Stack
    BY <1>1, <1>2, StacksStay DEF PoolTypes
  <1> QED
    BY <1>1, <1>2, <1>3, <1>4, <1>5, <1>6, <1>7, PoolStepOnRecord

LEMMA PoolFreesStack ==
    ASSUME PoolInv, Pool!GuestThreadsAssumption, NEW c \in Pool!Callers, Pool!FreeStack(c),
           NEW r, r = caller[c].on
    PROVE  PoolInv'
  <1>1. /\ Uses(c) /\ caller[c].at = "joined" /\ cache' = Pool!Cached(r)
        /\ record' = [record EXCEPT ![r].stack = Pool!NoStack] /\ Pool!Goto(c, "release")
        /\ UNCHANGED <<pool, host, pool_mutex, stack_last, handle, creates>>
    BY DEF Pool!FreeStack, Uses
  <1>2. /\ PoolTypes /\ AllApart /\ r \in Pool!Records /\ ~(r > pool) /\ ~record[r].free
        /\ handle[r] = "none" /\ Relies(c) /\ Pool!NoStack \in Stack
        /\ \A d \in Pool!Callers : d # c /\ Uses(d) => caller[d].on # r
        /\ pool_mutex \in BOOLEAN /\ stack_last \in 0 .. StackSpace
    BY <1>1, PoolHolds DEF PoolInv, PoolHands
  <1>3. /\ record' \in [Pool!Records -> ThreadRecord] /\ record'[r].stack = Pool!NoStack
        /\ ~record'[r].free /\ record'[r].detached = record[r].detached
        /\ record'[r].almost_done = record[r].almost_done
        /\ \A q \in Pool!Records : q # r => record'[q] = record[q]
    BY <1>1, <1>2, PoolNames
  <1>4. /\ caller' \in [Pool!Callers -> Place] /\ caller'[c].at = "release" /\ caller'[c].on = r
        /\ \A d \in Pool!Callers : d # c => caller'[d] = caller[d]
    BY <1>1, <1>2, PoolGoto DEF Joining
  <1>5. Relies(c)' /\ caller'[c].at # "look" /\ caller'[c].at \notin Creating
    BY <1>1, <1>2, <1>3, <1>4 DEF Relies, Creating, Joining
  <1>6. Recorded(r)'
    <2>1. host'[r] = "none"
      BY <1>1, <1>2 DEF Relies
    <2> QED
      BY <1>1, <1>2, <1>3, <1>4, <2>1 DEF Recorded
  <1>7. /\ AllApart' /\ cache' \in SUBSET Stack
    BY <1>1, <1>2, <1>3, StackGoes
  <1>8. /\ host' \in [Pool!Records -> Pool!Alive \cup {"none", "ended"}]
        /\ handle' \in [Pool!Records -> {"none", "guest"}]
    BY <1>1, <1>2 DEF PoolTypes
  <1> QED
    BY <1>1, <1>2, <1>3, <1>4, <1>5, <1>6, <1>7, <1>8, PoolStepOnRecord

\* FreeDetachedThreads goes on, or ends.
LEMMA PoolAdvances ==
    ASSUME PoolTypes, Pool!GuestThreadsAssumption, NEW c, c = Pool!Reclaimer, Pool!Advance
    PROVE  /\ caller' \in [Pool!Callers -> Place] /\ caller'[c].at \in {"look", "idle"}
           /\ \A d \in Pool!Callers : d # c => caller'[d] = caller[d]
           /\ pool_mutex' \in BOOLEAN
  <1>1. /\ caller \in [Pool!Callers -> Place] /\ c \in Pool!Callers /\ pool_mutex \in BOOLEAN
        /\ pool \in 0 .. MaxRecords /\ MaxRecords \in Nat /\ caller[c].on \in Pool!Records
    BY DEF PoolTypes, Pool!TypeOK, Pool!Callers, Pool!GuestThreadsAssumption, Place
  <1>2. CASE caller[c].on < pool
    <2> DEFINE following == caller[c].on + 1
    <2>1. following \in Pool!Records
      BY <1>1, <1>2 DEF Pool!Records
    <2>2. caller' = [caller EXCEPT ![c].at = "look", ![c].on = following] /\ pool_mutex' = pool_mutex
      BY <1>2 DEF Pool!Advance
    <2> HIDE DEF following
    <2> QED
      BY <1>1, <2>1, <2>2 DEF Place
  <1>3. CASE ~(caller[c].on < pool)
    <2>1. Pool!Return(c) /\ pool_mutex' = FALSE
      BY <1>3 DEF Pool!Advance
    <2> QED
      BY <1>1, <2>1, PoolReturn
  <1> QED
    BY <1>2, <1>3

LEMMA PoolReleases ==
    ASSUME PoolInv, Pool!GuestThreadsAssumption,
           NEW c \in Pool!Callers, Pool!ReleaseRecord(c), NEW r, r = caller[c].on
    PROVE  PoolInv'
  <1>1. /\ Uses(c) /\ caller[c].at = "release"
        /\ record' = [record EXCEPT ![r].almost_done = FALSE, ![r].free = TRUE]
        /\ (IF c = Pool!Reclaimer THEN Pool!Advance ELSE Pool!Return(c) /\ UNCHANGED pool_mutex)
        /\ UNCHANGED <<pool, host, stack_last, cache, handle, creates>>
    BY DEF Pool!ReleaseRecord, Uses
  <1>2. /\ PoolTypes /\ AllApart /\ r \in Pool!Records
        /\ handle[r] = "none" /\ Relies(c)
        /\ \A d \in Pool!Callers : d # c /\ Uses(d) => caller[d].on # r
        /\ pool_mutex \in BOOLEAN /\ stack_last \in 0 .. StackSpace
    BY <1>1, PoolHolds DEF PoolInv, PoolHands
  <1>3. host[r] = "none" /\ record[r].stack = Pool!NoStack
    BY <1>1, <1>2 DEF Relies
  <1>4. /\ record' \in [Pool!Records -> ThreadRecord] /\ record'[r].stack = Pool!NoStack
        /\ record'[r].free /\ ~record'[r].almost_done
        /\ \A q \in Pool!Records : q # r => record'[q] = record[q]
    BY <1>1, <1>2, <1>3, PoolFrees
  <1>5. /\ caller' \in [Pool!Callers -> Place] /\ caller'[c].at \in {"look", "idle"}
        /\ (caller'[c].at = "look" => c = Pool!Reclaimer)
        /\ \A d \in Pool!Callers : d # c => caller'[d] = caller[d]
        /\ pool_mutex' \in BOOLEAN
    <2>1. CASE c = Pool!Reclaimer
      BY <1>1, <1>2, <2>1, PoolAdvances
    <2>2. CASE c # Pool!Reclaimer
      BY <1>1, <1>2, <2>2, PoolReturn
    <2> QED
      BY <2>1, <2>2
  <1>6. Relies(c)' /\ ~Uses(c)' /\ caller'[c].at \notin Creating
    BY <1>5 DEF Relies, Uses, Creating, Joining
  <1>7. Recorded(r)'
    BY <1>1, <1>2, <1>3, <1>4 DEF Recorded
  <1>8. AllApart'
    BY <1>1, <1>2, <1>3, <1>4, StacksStay
  <1>9. /\ host' \in [Pool!Records -> Pool!Alive \cup {"none", "ended"}]
        /\ handle' \in [Pool!Records -> {"none", "guest"}] /\ cache' \in SUBSET Stack
    BY <1>1, <1>2 DEF PoolTypes
  <1> QED
    BY <1>1, <1>2, <1>4, <1>5, <1>6, <1>7, <1>8, <1>9, PoolStepOnRecord

LEMMA PoolReclaims ==
    ASSUME PoolInv, Pool!GuestThreadsAssumption, Pool!ReclaimBegin \/ Pool!ReclaimLook,
           NEW c, c = Pool!Reclaimer
    PROVE  PoolInv'
  <1>1. /\ c \in Pool!Callers /\ PoolTypes /\ AllApart /\ pool_mutex \in BOOLEAN
        /\ stack_last \in 0 .. StackSpace
    BY DEF PoolInv, PoolTypes, Pool!TypeOK, Pool!Callers
  <1>2. UNCHANGED <<pool, record, host, stack_last, cache, handle>> /\ ~Uses(c)
    BY DEF Pool!ReclaimBegin, Pool!ReclaimLook, Uses
  <1>3. CASE Pool!ReclaimBegin
    <2>1. caller' = [caller EXCEPT ![c].at = "look", ![c].on = 1] /\ pool_mutex' = TRUE
      BY <1>3 DEF Pool!ReclaimBegin
    <2>2. caller \in [Pool!Callers -> Place] /\ 1 \in Pool!Records
      BY <1>1 DEF PoolTypes, Pool!GuestThreadsAssumption, Pool!Records
    <2>3. /\ caller' \in [Pool!Callers -> Place] /\ caller'[c].at = "look"
          /\ \A d \in Pool!Callers : d # c => caller'[d] = caller[d]
      BY <1>1, <2>1, <2>2 DEF Place
    <2> QED
      BY <1>1, <1>2, <2>1, <2>3, PoolWanders DEF Uses
  <1>4. CASE Pool!ReclaimLook /\ ~Pool!Reclaimable(caller[c].on)
    <2>1. Pool!Advance
      BY <1>4 DEF Pool!ReclaimLook
    <2>2. /\ caller' \in [Pool!Callers -> Place] /\ caller'[c].at \in {"look", "idle"}
          /\ \A d \in Pool!Callers : d # c => caller'[d] = caller[d]
          /\ pool_mutex' \in BOOLEAN
      BY <1>1, <2>1, PoolAdvances
    <2>3. ~Uses(c)'
      BY <2>2 DEF Uses
    <2> QED
      BY <1>1, <1>2, <2>2, <2>3, PoolWanders
  <1>5. CASE Pool!ReclaimLook /\ Pool!Reclaimable(caller[c].on)
    <2>1. PICK r \in Pool!Records : r = caller[c].on
      BY <1>1, PoolFields
    <2>2. /\ record[r].detached /\ record[r].almost_done /\ ~record[r].free
          /\ Pool!Goto(c, "join") /\ pool_mutex' = pool_mutex
      BY <1>5, <2>1 DEF Pool!ReclaimLook, Pool!Reclaimable
    <2>3. \A d \in Pool!Callers : d # c /\ Uses(d) => caller[d].on # r
      <3>1. ASSUME NEW d \in Pool!Callers, d # c, Uses(d), caller[d].on = r PROVE FALSE
        <4>1. Relies(d) /\ caller[d].at \in Creating \cup Joining \cup {"idle", "look"}
          BY <1>1, PoolFields DEF PoolInv, PoolHands
        <4> QED
          BY <2>2, <3>1, <4>1 DEF Relies, Uses
      <3> QED
        BY <3>1
    <2>4. Recorded(r)
      BY DEF PoolInv, PoolHands
    <2>5. host[r] \in {"leaving", "ended"} /\ handle[r] = "none"
      <3>1. ~\E d \in Pool!Callers : caller[d].on = r /\ caller[d].at \in {"joined", "release"}
        BY <1>2, <2>3 DEF Uses
      <3>2. handle[r] \in {"none", "guest"}
        BY <1>1, PoolRecordFields
      <3> QED
        BY <2>2, <2>4, <3>1, <3>2 DEF Recorded
    <2>6. /\ caller' \in [Pool!Callers -> Place] /\ caller'[c].at = "join" /\ caller'[c].on = r
          /\ \A d \in Pool!Callers : d # c => caller'[d] = caller[d]
      BY <1>1, <2>1, <2>2, PoolGoto DEF Joining
    <2>7. Relies(c)' /\ caller'[c].at # "look" /\ caller'[c].at \notin Creating
      BY <1>2, <2>2, <2>5, <2>6 DEF Relies, Creating, Joining
    <2>8. Recorded(r)'
      BY <1>2, <2>2, <2>4, <2>5 DEF Recorded
    <2>9. /\ AllApart' /\ record' \in [Pool!Records -> ThreadRecord]
          /\ host' \in [Pool!Records -> Pool!Alive \cup {"none", "ended"}]
          /\ handle' \in [Pool!Records -> {"none", "guest"}] /\ cache' \in SUBSET Stack
      BY <1>1, <1>2, StacksStay DEF PoolTypes
    <2> QED
      BY <1>1, <1>2, <2>2, <2>3, <2>6, <2>7, <2>8, <2>9, PoolStepOnRecord
  <1> QED
    BY <1>3, <1>4, <1>5

LEMMA PoolKeeps ==
    ASSUME Pool!GuestThreadsAssumption, PoolInv, [Pool!Next]_Pool!vars
    PROVE  PoolInv'
  <1>1. CASE UNCHANGED Pool!vars
    <2>1. PoolTypes'
      BY <1>1 DEF PoolInv, PoolTypes, Pool!TypeOK, Pool!vars
    <2>2. AllApart'
      BY <1>1 DEF PoolInv, AllApart, Cut, Pool!vars
    <2>3. PoolHands'
      BY <1>1 DEF PoolInv, PoolHands, Relies, OneUser, Uses, Recorded, Pool!vars
    <2> QED
      BY <2>1, <2>2, <2>3 DEF PoolInv
  <1>2. CASE Pool!Next
    <2>1. \A c \in Creators : c \in Pool!Callers
      BY DEF Pool!Callers
    <2>2. Pool!Reclaimer \in Pool!Callers
      BY DEF Pool!Callers
    <2>3. \A r \in 1 .. pool : r \in Pool!Records
      BY DEF PoolInv, PoolTypes, Pool!TypeOK, Pool!Records, Pool!GuestThreadsAssumption
    <2>4. ASSUME NEW c \in Creators, NEW size \in Sizes, NEW detach \in BOOLEAN,
                 Pool!TakeRecord(c, size, detach)
          PROVE  PoolInv'
      <3>1. PICK r : r = Pool!FirstFree
        OBVIOUS
      <3> QED
        BY <2>4, <3>1, PoolTakesRecord
    <2>5. ASSUME NEW c \in Creators, Pool!CreateStep(c) PROVE PoolInv'
      <3>1. PICK r : r = caller[c].on
        OBVIOUS
      <3> QED
        BY <2>5, <3>1, PoolTakesStack, PoolFillsRecord, PoolStartsHost, PoolGivesUp DEF Pool!CreateStep
    <2>6. ASSUME NEW c \in Pool!Callers, Pool!JoinStep(c) PROVE PoolInv'
      <3>1. PICK r : r = caller[c].on
        OBVIOUS
      <3> QED
        BY <2>6, <3>1, PoolJoinsHost, PoolFreesStack, PoolReleases DEF Pool!JoinStep
    <2>7. ASSUME NEW c \in Creators, NEW r \in 1 .. pool, Pool!JoinBegin(c, r) PROVE PoolInv'
      BY <2>7, PoolBeginsJoin
    <2>8. ASSUME NEW r \in 1 .. pool,
                 Pool!ThreadStep(r) \/ Pool!EntryEnds(r) \/ Pool!PthreadDetach(r) \/ Pool!PthreadCancel(r)
          PROVE  PoolInv'
      BY <2>3, <2>8, PoolThreadSteps DEF Pool!ThreadStep
    <2>9. ASSUME Pool!ReclaimBegin \/ Pool!ReclaimLook PROVE PoolInv'
      BY <2>9, PoolReclaims
    <2> QED
      BY <1>2, <2>1, <2>2, <2>4, <2>5, <2>6, <2>7, <2>8, <2>9 DEF Pool!Next, Pool!ReclaimStep
  <1> QED
    BY <1>1, <1>2

LEMMA PoolSound ==
    ASSUME Pool!GuestThreadsAssumption, PoolInv
    PROVE  ThreadsSound
  <1>1. PoolTypes /\ AllApart /\ OneUser /\ \A r \in Pool!Records : Recorded(r)
    BY DEF PoolInv, PoolHands
  <1>2. Pool!TypeOK
    BY <1>1 DEF PoolTypes
  <1>3. Pool!Bytes(Pool!NoStack) = {}
    BY DEF Pool!Bytes, Pool!NoStack
  <1>4. \A s, u \in Stack : Apart(s, u) => Pool!Bytes(s) \cap Pool!Bytes(u) = {}
    BY DEF Apart, Pool!Bytes, Stack
  <1>5. \A r \in Pool!Records : /\ record[r].stack \in Stack
                                /\ host[r] # "none" => record[r].stack # Pool!NoStack
    BY <1>1, PoolRecordFields DEF Recorded
  <1>6. cache \subseteq Stack
    BY <1>1 DEF PoolTypes
  <1>7. Pool!StacksApart
    <2>1. ASSUME NEW r \in Pool!Records, host[r] # "none", NEW q \in Pool!Records, r # q
          PROVE  Pool!Bytes(record[r].stack) \cap Pool!Bytes(record[q].stack) = {}
      BY <1>1, <1>3, <1>4, <1>5, <2>1 DEF AllApart
    <2>2. ASSUME NEW r \in Pool!Records, host[r] # "none", NEW s \in cache
          PROVE  Pool!Bytes(record[r].stack) \cap Pool!Bytes(s) = {}
      BY <1>1, <1>4, <1>5, <1>6, <2>2 DEF AllApart
    <2> QED
      BY <1>5, <2>1, <2>2 DEF Pool!StacksApart
  <1>8. Pool!RecordsKept
    BY <1>1 DEF Pool!RecordsKept, OneUser, Uses, Recorded
  <1> QED
    BY <1>2, <1>7, <1>8 DEF ThreadsSound, Pool!ThreadsSound

\* For any number of creators, records and stacks of any sizes: no byte of the
\* stack of a thread that lives is another thread's or in the cache of stacks,
\* and a record is handed out only when nobody has it (PthreadCreate,
\* PthreadJoin, FreeDetachedThreads, PthreadPool).
THEOREM ThreadsCorrect == ASSUME Pool!GuestThreadsAssumption PROVE Pool!Spec => []ThreadsSound
  <1>1. Pool!Init => PoolInv
    BY PoolStarts
  <1>2. PoolInv /\ [Pool!Next]_Pool!vars => PoolInv'
    BY PoolKeeps
  <1>3. PoolInv => ThreadsSound
    BY PoolSound
  <1> QED
    BY <1>1, <1>2, <1>3, PTL DEF Pool!Spec
=============================================================================
