------------------------------- MODULE MCVideoOut -------------------------------
(* Instances of the video-out ports for TLC. *)
EXTENDS VideoOut

\* The first port reports to the one queue; the second, if any, to none.
FirstReports == [p \in Ports |-> IF p = 1 THEN CHOOSE q \in Queues : TRUE ELSE NoQueue]

\* A thread sets the rate of a port that another one closes.
RateRaces == [g \in Guests |-> IF g = CHOOSE h \in Guests : TRUE
                               THEN {"open", "close"} ELSE {"rate"}]
=============================================================================
