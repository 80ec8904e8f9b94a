------------------------------ MODULE MCCache ------------------------------
(* The caches for TLC.                                                     *)
EXTENDS Cache

CONSTANTS p1, p2, k1, k2, k3, v, bad

(* One process and its restarts, more keys than the cache holds.           *)
Single ==
  [kind |-> "lru", max_size |-> 2, ttls |-> {}, save_step |-> 2, save_interval |-> 0,
   keys |-> {k1, k2, k3}, values |-> {v}, processes |-> {p1},
   maxStarts |-> 3, maxUses |-> 6, maxTime |-> 0]

(* Two processes over one file.                                            *)
Shared ==
  [kind |-> "lru", max_size |-> 2, ttls |-> {}, save_step |-> 1, save_interval |-> 0,
   keys |-> {k1, k2}, values |-> {v}, processes |-> {p1, p2},
   maxStarts |-> 3, maxUses |-> 3, maxTime |-> 0]

(* Entries that expire, also while no process runs, saved by the clock,    *)
(* and a value that cannot be saved.                                       *)
Expiring ==
  [kind |-> "ttl", max_size |-> 0, ttls |-> {0, 1}, save_step |-> 3, save_interval |-> 2,
   keys |-> {k1, k2}, values |-> {v, bad}, processes |-> {p1},
   maxStarts |-> 2, maxUses |-> 3, maxTime |-> 3]

Configs == {Single, Shared, Expiring}

Alike == Permutations({k1, k2, k3}) \cup Permutations({p1, p2})

SignalConfigs == {[Single EXCEPT !.maxStarts = 1]}
=============================================================================
