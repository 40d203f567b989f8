------------------------------ MODULE Outcome -------------------------------
(***************************************************************************)
(* C functions that return an error code, as sets of outcomes.  A function *)
(* takes a state s and is the set of what it may do: the state it leaves,  *)
(* err ("" for 0) and v, with the value it hands back.  panic, a field of  *)
(* the state, is "" until a KASSERT or a call of panic() has stopped the   *)
(* kernel, after which nothing is run any more, handlers included.         *)
(***************************************************************************)

Ok(s, v) == {[s |-> s, err |-> "", v |-> <<v>>]}

Err(s, e) == {[s |-> s, err |-> e, v |-> <<>>]}

Panic(s, what) == Err([s EXCEPT !.panic = what], "panic")

\* if (result) return result;
Then(R, F(_, _)) ==
    UNION {IF r.err = "" THEN F(r.s, r.v[1]) ELSE {r} : r \in R}

\* if (result) { clean up; return result; }
OnError(R, H(_, _)) ==
    UNION {IF r.err \in {"", "panic"} THEN {r} ELSE H(r.s, r.err) : r \in R}

\* Either way: F is told the error code and the value.
Either(R, F(_, _, _)) ==
    UNION {IF r.err = "panic" THEN {r} ELSE F(r.s, r.err, IF r.err = "" THEN r.v[1] ELSE 0) : r \in R}

=============================================================================
