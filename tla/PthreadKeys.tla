------------------------------ MODULE PthreadKeys ------------------------------
(***************************************************************************)
(* The guest's thread-specific data: keys, the values threads keep under   *)
(* them, and the destructors a thread calls when it ends                    *)
(* (src/src/kernel/pthread.cpp).  PthreadKeys::Destruct reads the values   *)
(* under the mutex and calls the destructors after it, while other threads *)
(* delete and create keys.                                                 *)
(***************************************************************************)
EXTENDS Naturals, Sequences, FiniteSetsExt

CONSTANTS Threads,
          NoData,
          KeysMax,             \* KEYS_MAX
          DestructorIterations,  \* DESTRUCTOR_ITERATIONS
          MaxMade,             \* bound on the keys ever created
          MaxSet               \* bound on the values ever set

Keys == 1 .. KeysMax

VARIABLES key,       \* m_keys: used, destructor, and the data of each thread
          ending,    \* how far each thread is in Destruct, and its delete_list
          made,      \* keys created so far
          set,       \* what each value was set under, by whom
          destroyed  \* the destructor calls: value, destructor, thread

vars == <<key, ending, made, set, destroyed>>

\* Values are numbered as they are set: set[d] is the creation of the key that
\* value d was set under, and its thread.
Fresh == Len(set) + 1

Nothing == [t \in Threads |-> NoData]

Key(used, destructor, values) == [used |-> used, destructor |-> destructor, values |-> values]
Ending(at, iter, list) == [at |-> at, iter |-> iter, list |-> list]

Init ==
    /\ key = [k \in Keys |-> Key(FALSE, 0, Nothing)]
    /\ ending = [t \in Threads |-> Ending("running", 0, {})]
    /\ made = 0 /\ set = <<>> /\ destroyed = <<>>

-----------------------------------------------------------------------------
(* PthreadKeys::Create, Delete and Set.  A thread calls them from its entry  *)
(* and from its destructors.                                                 *)

MayCall(t) == ending[t].at \in {"running", "calling"}

\* specific_values.clear(); mutant: the data are kept.
Cleared_Kept(values) == values
Cleared(values) == Nothing

FirstUnused == Min({k \in Keys : ~key[k].used})

\* Each creation has a number of its own that stands for its destructor; a key
\* without one has 0.
Create(t, with) ==
    /\ MayCall(t) /\ made < MaxMade /\ \E k \in Keys : ~key[k].used
    /\ made' = made + 1
    /\ key' = [key EXCEPT ![FirstUnused] =
                 Key(TRUE, IF with THEN made + 1 ELSE 0, Cleared(key[FirstUnused].values))]
    /\ UNCHANGED <<ending, set, destroyed>>

Delete(t, k) ==
    /\ MayCall(t) /\ key[k].used
    /\ key' = [key EXCEPT ![k] = Key(FALSE, 0, Cleared(key[k].values))]
    /\ UNCHANGED <<ending, made, set, destroyed>>

With(k, t, data) == Key(key[k].used, key[k].destructor, [key[k].values EXCEPT ![t] = data])

Set(t, k) ==
    /\ MayCall(t) /\ key[k].used /\ Len(set) < MaxSet
    /\ key' = [key EXCEPT ![k] = With(k, t, Fresh)]
    /\ set' = Append(set, [under |-> key[k].destructor, by |-> t])
    /\ UNCHANGED <<ending, made, destroyed>>

-----------------------------------------------------------------------------
(* PthreadKeys::Destruct, from CleanupThread *)

ThreadEnds(t) ==
    /\ ending[t].at = "running"
    /\ ending' = [ending EXCEPT ![t] = Ending("collect", ending[t].iter, ending[t].list)]
    /\ UNCHANGED <<key, made, set, destroyed>>

Collected(t) == {k \in Keys : key[k].used /\ key[k].destructor # 0 /\ key[k].values[t] # NoData}

TakenFrom(t) == [k \in Keys |-> IF k \in Collected(t) THEN With(k, t, NoData) ELSE key[k]]

\* Under the mutex: the calls to make, in the order of the keys.  Nothing to
\* call ends Destruct; so does the last iteration, which forgets the thread.
Collect(t) ==
    /\ ending[t].at = "collect"
    /\ IF ending[t].iter = DestructorIterations
         THEN /\ key' = [k \in Keys |-> With(k, t, NoData)]
              /\ ending' = [ending EXCEPT ![t] = Ending("exhausted", ending[t].iter, {})]
         ELSE /\ key' = TakenFrom(t)
              /\ ending' = [ending EXCEPT ![t] =
                    IF Collected(t) = {} THEN Ending("ended", ending[t].iter, {})
                    ELSE Ending("calling", ending[t].iter + 1,
                                {<<key[k].destructor, key[k].values[t]>> : k \in Collected(t)})]
    /\ UNCHANGED <<made, set, destroyed>>

\* d.destructor(d.data), without the mutex
CallDestructor(t) ==
    /\ ending[t].at = "calling"
    /\ \E d \in ending[t].list :
          /\ destroyed' = Append(destroyed, [data |-> d[2], destructor |-> d[1], by |-> t])
          /\ ending' = [ending EXCEPT ![t] =
                Ending(IF ending[t].list = {d} THEN "collect" ELSE "calling",
                       ending[t].iter, ending[t].list \ {d})]
    /\ UNCHANGED <<key, made, set>>

-----------------------------------------------------------------------------
Next ==
    \E t \in Threads :
       \/ \E with \in BOOLEAN : Create(t, with)
       \/ \E k \in Keys : Delete(t, k) \/ Set(t, k)
       \/ ThreadEnds(t) \/ Collect(t) \/ CallDestructor(t)

Spec == Init /\ [][Next]_vars

-----------------------------------------------------------------------------
TypeOK ==
    /\ \A k \in Keys, t \in Threads : key[k].values[t] \in 1 .. Len(set) \cup {NoData}
    /\ \A t \in Threads :
          ending[t].at \in {"running", "collect", "calling", "ended", "exhausted"}

\* A value is destroyed at most once, by the thread that set it and with the
\* destructor of the key it was set under: never with that of a key that took
\* the deleted key's place (PthreadKeys::Delete, Create, Destruct).
DestroyedRightly ==
    /\ \A i, j \in 1 .. Len(destroyed) : destroyed[i].data = destroyed[j].data => i = j
    /\ \A i \in 1 .. Len(destroyed) :
          set[destroyed[i].data] = [under |-> destroyed[i].destructor, by |-> destroyed[i].by]

\* A thread that has ended leaves no value that a destructor waits for, those
\* its destructors have set included (PthreadKeys::Destruct).
NothingLeft ==
    \A t \in Threads : ending[t].at = "ended" => Collected(t) = {}

KeysSound == TypeOK /\ DestroyedRightly /\ NothingLeft
=============================================================================
