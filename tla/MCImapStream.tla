---------------------------- MODULE MCImapStream ----------------------------
(***************************************************************************)
(* ImapStream on every byte stream of MCLength bytes with at most one      *)
(* malformed response.  With BlockSize = 2 and MaxCapacity = 4 a response  *)
(* of 1..2 bytes fits a block, one of 3..4 needs growth, one of 5..6 is    *)
(* refused, and a reset may keep 0..3 bytes.                               *)
(***************************************************************************)
EXTENDS ImapStream

CONSTANT MCLength

MCWires ==
    {w \in [1 .. MCLength -> {"mid", "end", "bad"}] :
        Cardinality({p \in 1 .. MCLength : w[p] = "bad"}) <= 1}
=============================================================================
