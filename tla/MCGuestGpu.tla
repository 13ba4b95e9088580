------------------------------ MODULE MCGuestGpu ------------------------------
(* The guest GPU for TLC, where the code does not keep what it says. *)
EXTENDS GuestGpu

Wait(l, v) == [op |-> "wait", label |-> l, accepts |-> {v}]
Write(l, v) == [op |-> "write", label |-> l, value |-> v, recorded |-> TRUE]

\* Two queues wait, each for its own label; a producer writes one of them.
TwoWaitsLabels == {"a", "b"}
TwoWaitsQueueOf == <<1, 0>>
TwoWaitsProgram ==
    <<  <<Wait("a", 1)>>,
        <<Write("a", 1), Wait("b", 1)>> >>

\* A producer sets the label and resets it.
PulseLabels == {"a"}
PulseQueueOf == <<1, 0>>
PulseProgram == <<  <<Wait("a", 1)>>, <<Write("a", 1), Write("a", 0)>> >>
=============================================================================
