----------------------------- MODULE MCBackend -----------------------------
(***************************************************************************)
(* A small instance of Backend for TLC.                                    *)
(***************************************************************************)
EXTENDS Backend

\* Two segments of one WAL cycle and one of the next.
MCLayout ==
    <<[index |-> 0, offset |-> 0], [index |-> 0, offset |-> 1],
      [index |-> 1, offset |-> 0]>>
=============================================================================
