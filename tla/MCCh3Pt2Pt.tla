----------------------------- MODULE MCCh3Pt2Pt -----------------------------
(***************************************************************************)
(* Ch3Pt2Pt for model checking: process 0 sends to process 1.              *)
(***************************************************************************)
EXTENDS Ch3Order

AnySource == -2
AnyTag == -1

\* A receive may ask for a later message than the first.
ExactOrAny == {Match(0, 2), Match(MPI_ANY_SOURCE, MPI_ANY_TAG)}

EveryPath == {<<1, "eager">>, <<1, "sync">>, <<2, "rndv">>}

\* Two short messages with the same tag, one of them of noncontiguous data.
TwoDatatypes == {<<1, "eager">>, <<1, "noncontig">>}
=============================================================================
