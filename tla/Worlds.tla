------------------------------- MODULE Worlds -------------------------------
(***************************************************************************)
(* Handlers that write files.  A handler runs under a mutex, so no other   *)
(* handler sees it half done; but each of its writes may fail, before or   *)
(* after it took effect, and the process may stop after any of them.  A    *)
(* handler is an operator from a world to the set of worlds it may end in. *)
(* A world is a record with at least the fields                            *)
(*   out       "ok", "error" (what the handler returns) or "down"          *)
(*   faults    failed writes that are left                                 *)
(*   crashes   stops of the process that are left                          *)
(*   troubles  failed writes and stops that are left, together             *)
(***************************************************************************)
EXTENDS Naturals, Sequences, SequencesExt

\* `?` of Rust: go on only if all went well so far.
Then(W, F(_)) == UNION {IF w.out = "ok" THEN F(w) ELSE {w} : w \in W}

\* What a handler does about an error.
Else(W, F(_)) ==
  UNION {IF w.out = "error" THEN F([w EXCEPT !.out = "ok"]) ELSE {w} : w \in W}

Refuse(w) == {[w EXCEPT !.out = "error"]}

\* One after the other, in the given order.
Each(w, order, F(_, _)) ==
  LET after[n \in 0 .. Len(order)] ==
        IF n = 0 THEN {w} ELSE Then(after[n - 1], LAMBDA v : F(v, order[n]))
  IN after[Len(order)]

\* The process stops; only its files remain.
Stopped(w) ==
  IF w.crashes = 0 \/ w.troubles = 0 THEN {}
  ELSE {[w EXCEPT !.crashes = @ - 1, !.troubles = @ - 1, !.out = "down"]}

\* A write that fails, before or after it took effect.
Faulty(before, after) ==
  {[w EXCEPT !.faults = @ - 1, !.troubles = @ - 1, !.out = "error"] :
     w \in {v \in {before, after} : v.faults > 0 /\ v.troubles > 0}}

\* A write that takes the world from one to the other.
Written(before, after) ==
  {after} \cup Stopped(before) \cup Stopped(after) \cup Faulty(before, after)
=============================================================================
