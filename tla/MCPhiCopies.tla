---------------------------- MODULE MCPhiCopies ----------------------------
(* PhiCopies over every edge of up to five integer phis, or of two integer *)
(* and two float phis, whose results have fixed distinct locations; the    *)
(* incoming locations are arbitrary.                                       *)
EXTENDS PhiCopies

MCIntLocation == {"s1", "s2", "s3", "w0", "w1"}
MCFloatLocation == {"fs0", "q0"}
MCRemat == {"const"}
MCBefore == [l \in MCIntLocation \cup MCFloatLocation \cup MCRemat
                     \cup {"a0", "a1", "t0", "t1", "t2", "fa0", "ft0"} |-> l]

IntSource == MCIntLocation \cup MCRemat
FloatTwin(s) ==
    IF s \in {"s1", "s2", "s3"} THEN "fs0" ELSE IF s \in MCRemat THEN s ELSE "q0"

(* Two cycles of one class need four integer phis; two integer and two      *)
(* float phis make cycles of both classes; five exceed MaxParallelPhiCopies *)
(* unless one of them is already in place.                                  *)
MCEdge(family, i) ==
    CASE family = "ints" ->
           [count |-> 4, destination |-> <<"s1", "w0", "s2", "w1">>, incoming |-> i]
      [] family = "mixed" ->
           [count |-> 4, destination |-> <<"s1", "fs0", "w0", "q0">>,
            incoming |-> <<i[1], FloatTwin(i[2]), i[3], FloatTwin(i[4])>>]
      [] family = "snapshot" ->
           [count |-> 5, destination |-> <<"s1", "w0", "s2", "w1", "s3">>,
            incoming |-> Append(i, "s1")]

MCEdges ==
    {MCEdge(family, i) : family \in {"ints", "mixed", "snapshot"}, i \in [1..4 -> IntSource]}
=============================================================================
