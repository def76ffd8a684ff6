------------------------------ MODULE BytePipe ------------------------------
(***************************************************************************)
(* What a connection promises to the layer above it: a pipe.  What comes    *)
(* out is, unit by unit, the beginning of what was put in.                  *)
(***************************************************************************)
EXTENDS Sequences, SequencesExt

VARIABLES put, got

Init == put = << >> /\ got = << >>

Put == /\ put' # put
       /\ IsStrictPrefix(put, put')
       /\ UNCHANGED got

Get == /\ got' # got
       /\ IsStrictPrefix(got, got')
       /\ IsPrefix(got', put)
       /\ UNCHANGED put

Next == Put \/ Get
Spec == Init /\ [][Next]_<< put, got >>
=============================================================================
