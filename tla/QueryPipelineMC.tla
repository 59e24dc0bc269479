-------------------------- MODULE QueryPipelineMC --------------------------
(* A circle with one station: two of the station's investigators, the       *)
(* circle's supervisor and a policymaker, and the questions they ask.       *)
EXTENDS QueryPipeline

CONSTANTS circle, station, inv1, inv2, sup, pol, r1, r2

MCRole == inv1 :> "investigator" @@ inv2 :> "investigator" @@ sup :> "supervisor" @@ pol :> "policymaker"
MCHome == inv1 :> station @@ inv2 :> station @@ sup :> circle @@ pol :> None
MCReach == circle :> {circle, station} @@ station :> {station}
MCKind == [q \in {"greeting", "comparison", "narrative", "plain"} |-> q]

Asking(q, h, o) == [question |-> q, history |-> h, officer |-> o]
MCAsks ==
    {Asking("plain", FALSE, o) : o \in {inv1, inv2, sup}} \cup
    {Asking("narrative", TRUE, pol), Asking("comparison", FALSE, sup), Asking("greeting", FALSE, sup)}

\* Bound: one of the two requests is an investigator's. The other may be any.
FirstIsPlain == req[r1].ask \in {None, Asking("plain", FALSE, inv1)}
=============================================================================
