----------------------------- MODULE MCTaskCall -----------------------------
(* The calls of one task for TLC.                                          *)
EXTENDS TaskCall

(* One slot with tasks that may raise. *)
OneSlot == [slots |-> 1, named |-> FALSE, parallel_num |-> 1, mayFail |-> TRUE]

(* CONCURRENCY with slots for all and a parallel bound. *)
Parallel == [slots |-> 3, named |-> FALSE, parallel_num |-> 1, mayFail |-> FALSE]

(* TOKEN_BUCKET with two services. *)
Services == [slots |-> 2, named |-> TRUE, parallel_num |-> 0, mayFail |-> FALSE]

Setups == {OneSlot, Parallel, Services}

ParallelSetups == {Parallel}
=============================================================================
