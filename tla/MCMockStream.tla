---------------------------- MODULE MCMockStream ----------------------------
(***************************************************************************)
(* MockStream holding any MCLength bytes with at most one malformed        *)
(* response; the errors of the mock are cut off at MaxIoErrors.            *)
(***************************************************************************)
EXTENDS MockStream

CONSTANT MCLength

MCWires ==
    {w \in [1 .. MCLength -> {"mid", "end", "bad"}] :
        Cardinality({p \in 1 .. MCLength : w[p] = "bad"}) <= 1}
=============================================================================
