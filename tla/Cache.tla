------------------------------- MODULE Cache -------------------------------
(***************************************************************************)
(* The persistent caches of shutils/cache.py: PresistentMixin with the     *)
(* TTLCache or the LRUCache on top of it.  Processes, each with one cache  *)
(* over the same file, start, crash, exit and are stopped by signals.      *)
(*                                                                         *)
(* A cache is the sequence of its entries in the order of the dictionary.  *)
(* A file is Absent, or File(m) for such a sequence m, or unreadable:      *)
(* Empty after open truncated it, Partial when a write was cut off.  The   *)
(* MD5 of a file stands for its content.                                   *)
(***************************************************************************)
EXTENDS Naturals, SequencesExt

CONSTANTS
  Process,
  Unpicklable,  \* the values that pickle.dump refuses
  Config        \* the caches a file may have, and the bounds of their use

(* kind, max_size, ttls, save_step and save_interval are the arguments of  *)
(* the constructors and of set; users call with keys and values.  Bounds:  *)
(* the processes that run, the starts of a process, the uses of the caches *)
(* (calls of set, delete and clear, and signals), and the clock.           *)
ASSUME CacheAssumption ==
  \A c \in Config :
    /\ c.kind \in {"ttl", "lru"} /\ c.max_size \in Nat /\ c.ttls \subseteq Nat
    /\ c.save_step \in Nat /\ c.save_interval \in Nat
    /\ c.processes \subseteq Process
    /\ c.maxStarts \in Nat /\ c.maxUses \in Nat /\ c.maxTime \in Nat

VARIABLES
  config,       \* of all caches over the file, chosen once
  time,         \* time.time()
  file,         \* what is on disk
  pc,           \* where a process is: "down", "run", in load_cache or save_cache
  cache,        \* self.cache
  cache_file_md5,
  write_count,  \* _write_count
  last_save_time,
  exits,        \* "no", or what a process that ends does next: "save" or "end"
  torn,         \* a signal cut a write off: "no", it is "open" still, or "closed"
  behind,       \* history: writes since the file was given this cache
  recency,      \* history: all keys used, the last used one last
  merged,       \* history: the process merged the file into its cache
  seen,         \* history: keys its cache ever held
  past,         \* history: what happened to the file, see Happened
  uses, starts  \* so far

own == <<cache, cache_file_md5, write_count, last_save_time>>
history == <<recency, merged, seen>>
ending == <<exits, torn>>
vars == <<config, time, file, pc, own, ending, behind, history, past, uses, starts>>

File(m) == [is |-> "data", data |-> m]
Absent == [is |-> "absent", data |-> <<>>]
Empty == [is |-> "empty", data |-> <<>>]
Partial == [is |-> "partial", data |-> <<>>]
NoMd5 == [is |-> "no attribute", data |-> <<>>]

-----------------------------------------------------------------------------
(* Dictionaries.                                                           *)

Keys(m) == {m[i].key : i \in DOMAIN m}

Entries(m) == {m[i] : i \in DOMAIN m}

KeyOrder(m) == [i \in DOMAIN m |-> m[i].key]

Place(s, k) == CHOOSE i \in DOMAIN s : s[i] = k

EntryOf(m, k) == m[Place(KeyOrder(m), k)]

(* del m[k] *)
Without(m, k) == RemoveAt(m, Place(KeyOrder(m), k))

(* m[e.key] = e: a key that is there keeps its place. *)
Assign(m, e) ==
  IF e.key \in Keys(m) THEN [i \in DOMAIN m |-> IF m[i].key = e.key THEN e ELSE m[i]]
                       ELSE Append(m, e)

Update(m, n) == FoldLeft(Assign, m, n)

(* Mutant: a key that is read keeps its place. *)
MoveToEndNot(m, k) == m

MoveToEnd(m, k) == Append(Without(m, k), EntryOf(m, k))

Expired(e) == time > e.expiry

Unexpired(m) ==
  LET keep(kept, e) == IF Expired(e) THEN kept ELSE Append(kept, e)
  IN  FoldLeft(keep, <<>>, m)

(* The last n entries. *)
Newest(m, n) == SubSeq(m, Len(m) - n + 1, Len(m))

(* cleanup: what it leaves of a cache. *)
Cleaned(m) ==
  IF config.kind = "ttl" THEN Unexpired(m)
  ELSE IF Len(m) > config.max_size THEN Newest(m, config.max_size) ELSE m

Readable(f) == f.is = "data"

-----------------------------------------------------------------------------
Init ==
  /\ config \in Config
  /\ time = 0 /\ file = Absent
  /\ pc = [p \in Process |-> "down"]
  /\ cache = [p \in Process |-> <<>>]
  /\ cache_file_md5 = [p \in Process |-> NoMd5]
  /\ write_count = [p \in Process |-> 0]
  /\ last_save_time = [p \in Process |-> 0]
  /\ exits = [p \in Process |-> "no"] /\ torn = [p \in Process |-> "no"]
  /\ behind = [p \in Process |-> 0]
  /\ recency = [p \in Process |-> <<>>]
  /\ merged = [p \in Process |-> FALSE]
  /\ seen = [p \in Process |-> {}]
  /\ past = {} /\ uses = 0 /\ starts = 0

TimePasses ==
  /\ time < config.maxTime
  /\ time' = time + 1
  /\ UNCHANGED <<config, file, pc, own, ending, behind, history, past, uses, starts>>

(* Mutant: a write is saved one write late. *)
DueLate(p, count) == config.save_step > 0 /\ count > config.save_step

(* _trigger_auto_save: the count-th write is saved at once. *)
Due(p, count) ==
  \/ config.save_step > 0 /\ count >= config.save_step
  \/ config.save_interval > 0 /\ time - last_save_time[p] >= config.save_interval

(* The cache becomes m, and n writes later it may be due. *)
Writes(p, m, n) ==
  /\ cache' = [cache EXCEPT ![p] = m]
  /\ write_count' = [write_count EXCEPT ![p] = @ + n]
  /\ behind' = [behind EXCEPT ![p] = @ + n]
  /\ pc' = [pc EXCEPT ![p] = IF n > 0 /\ Due(p, write_count[p] + n) THEN "check" ELSE @]
  /\ seen' = [seen EXCEPT ![p] = @ \cup Keys(m)]
  /\ UNCHANGED <<config, time, file, cache_file_md5, last_save_time, ending, merged, past>>

Idle(p) == pc[p] = "run" /\ exits[p] = "no"

Forgotten(s, k) == IF k \in Range(s) THEN RemoveAt(s, Place(s, k)) ELSE s

Used(p, k) == recency' = [recency EXCEPT ![p] = Append(Forgotten(@, k), k)]

Dropped(p, k) == recency' = [recency EXCEPT ![p] = Forgotten(@, k)]

Counted == uses < config.maxUses /\ uses' = uses + 1 /\ UNCHANGED starts

-----------------------------------------------------------------------------
(* The operations of the two classes.                                      *)

(* Mutant: the MD5 is taken after the file was loaded. *)
LoadedMd5Late == IF Readable(file) THEN file ELSE [is |-> "", data |-> <<>>]

(* load_cache takes the MD5 of the file before it tries to read it, and    *)
(* without a file takes none.                                              *)
LoadedMd5 == IF file = Absent THEN NoMd5 ELSE file

Goes(p, label) == pc' = [pc EXCEPT ![p] = label]

(* Between the MD5 in load_cache, or its check in save_cache, and the end. *)
Halfway(p) == pc[p] \in {"load", "merge", "open", "dump", "md5"} \/ torn[p] = "open"

Happened(p) == IF \E q \in Process \ {p} : Halfway(q) THEN past \cup {"raced"} ELSE past

(* PresistentMixin.__init__ installs the signal handler before the file is *)
(* looked at.                                                              *)
Start(p) ==
  /\ pc[p] = "down" /\ starts < config.maxStarts
  /\ starts' = starts + 1
  /\ Goes(p, "init")
  /\ last_save_time' = [last_save_time EXCEPT ![p] = time]
  /\ past' = IF \E q \in Process \ {p} : pc[q] # "down" THEN past \cup {"shared"} ELSE past
  /\ UNCHANGED <<config, time, file, cache, cache_file_md5, write_count, ending, behind,
                 history, uses>>

(* load_cache, first part. *)
TakeMd5(p) ==
  /\ pc[p] = "init"
  /\ cache_file_md5' = [cache_file_md5 EXCEPT ![p] = LoadedMd5]
  /\ Goes(p, IF file = Absent THEN "run" ELSE "load")
  /\ past' = IF file = Absent THEN past ELSE Happened(p)
  /\ UNCHANGED <<config, time, file, cache, write_count, last_save_time, ending, behind,
                 history, uses, starts>>

(* The rest of load_cache, which gives an empty cache for a file that      *)
(* cannot be read now, then cleanup.                                       *)
Load(p) ==
  LET loaded == file.data
      kept == Cleaned(loaded)
      counted == IF config.kind = "ttl" /\ kept # loaded THEN 1 ELSE 0
  IN  /\ pc[p] = "load"
      /\ cache' = [cache EXCEPT ![p] = kept]
      /\ write_count' = [write_count EXCEPT ![p] = counted]
      /\ last_save_time' = [last_save_time EXCEPT ![p] = IF Readable(file) THEN time ELSE @]
      /\ Goes(p, IF counted > 0 /\ config.save_step = 1 THEN "check" ELSE "run")
      /\ behind' = [behind EXCEPT ![p] = counted]
      /\ recency' = [recency EXCEPT ![p] = KeyOrder(loaded)]
      /\ seen' = [seen EXCEPT ![p] = Keys(loaded)]
      /\ UNCHANGED <<config, time, file, cache_file_md5, ending, merged, past, uses, starts>>

(* get of a key that is there; an expired one is deleted. *)
Get(p, k) ==
  /\ Idle(p) /\ k \in Keys(cache[p])
  /\ \/ /\ config.kind = "lru"
        /\ Writes(p, MoveToEnd(cache[p], k), 0) /\ Used(p, k)
     \/ /\ config.kind = "ttl" /\ Expired(EntryOf(cache[p], k))
        /\ Writes(p, Without(cache[p], k), 1) /\ Dropped(p, k)
  /\ UNCHANGED <<uses, starts>>

SetTTL(p, k, v) ==
  /\ Idle(p) /\ config.kind = "ttl" /\ Counted
  /\ \E ttl \in config.ttls :
       Writes(p, Assign(cache[p], [key |-> k, value |-> v, expiry |-> time + ttl]), 1)
  /\ Used(p, k)

(* An entry of an LRUCache is its value alone. *)
SetLRU(p, k, v) ==
  LET old == IF k \in Keys(cache[p]) THEN MoveToEnd(cache[p], k) ELSE cache[p]
  IN  /\ Idle(p) /\ config.kind = "lru" /\ Counted
      /\ Writes(p, Cleaned(Assign(old, [key |-> k, value |-> v])), 1)
      /\ Used(p, k)

Delete(p, k) ==
  /\ Idle(p) /\ k \in Keys(cache[p]) /\ Counted
  /\ Writes(p, Without(cache[p], k), 1)
  /\ Dropped(p, k)

(* clear saves in any case. *)
Clear(p) ==
  /\ Idle(p) /\ Counted
  /\ cache' = [cache EXCEPT ![p] = <<>>]
  /\ behind' = [behind EXCEPT ![p] = @ + 1]
  /\ recency' = [recency EXCEPT ![p] = <<>>]
  /\ pc' = [pc EXCEPT ![p] = "check"]
  /\ UNCHANGED <<config, time, file, cache_file_md5, write_count, last_save_time, ending,
                 merged, seen, past>>

(* cleanup called by the user; the expired keys count as one write. *)
Cleanup(p) ==
  /\ Idle(p) /\ Cleaned(cache[p]) # cache[p]
  /\ Writes(p, Cleaned(cache[p]), IF config.kind = "ttl" THEN 1 ELSE 0)
  /\ UNCHANGED <<recency, uses, starts>>

-----------------------------------------------------------------------------
(* save_cache.                                                             *)

(* Mutant: the file is taken for unchanged. *)
ChangedNever(p) == FALSE

Changed(p) ==
  file # Absent /\ cache_file_md5[p] # NoMd5 /\ file # cache_file_md5[p]

(* A file that is no longer the one its MD5 says is read. *)
SaveChecked(p) ==
  /\ pc[p] = "check"
  /\ Goes(p, IF Changed(p) THEN "merge" ELSE "open") /\ past' = Happened(p)
  /\ UNCHANGED <<config, time, file, own, ending, behind, history, uses, starts>>

(* If it cannot be read now, that ends the save. *)
SaveFails(p) ==
  /\ pc[p] = "merge" /\ ~Readable(file)
  /\ Goes(p, "run")
  /\ UNCHANGED <<config, time, file, own, ending, behind, history, past, uses, starts>>

(* It is merged: its keys first, the values of the memory win. *)
Merge(p) ==
  /\ pc[p] = "merge" /\ Readable(file)
  /\ cache' = [cache EXCEPT ![p] = Update(file.data, cache[p])]
  /\ merged' = [merged EXCEPT ![p] = TRUE]
  /\ seen' = [seen EXCEPT ![p] = @ \cup Keys(file.data)]
  /\ Goes(p, "open")
  /\ UNCHANGED <<config, time, file, cache_file_md5, write_count, last_save_time, ending,
                 behind, recency, past, uses, starts>>

SaveOpen(p) ==
  /\ pc[p] = "open"
  /\ file' = Empty
  /\ Goes(p, "dump")
  /\ UNCHANGED <<config, time, own, ending, behind, history, past, uses, starts>>

CanPickle(m) == \A e \in Entries(m) : e.value \notin Unpicklable

(* Over what another process wrote meanwhile, the result may be neither. *)
SaveDump(p) ==
  /\ pc[p] = "dump" /\ CanPickle(cache[p])
  /\ file' \in {File(cache[p])} \cup (IF file # Empty THEN {Partial} ELSE {})
  /\ behind' = [behind EXCEPT ![p] = 0]
  /\ Goes(p, "md5")
  /\ UNCHANGED <<config, time, own, ending, history, past, uses, starts>>

(* A value that cannot be pickled ends the save after the old file is gone. *)
DumpFails(p) ==
  /\ pc[p] = "dump" /\ ~CanPickle(cache[p])
  /\ file' = Partial
  /\ Goes(p, "run") /\ past' = past \cup {"unpicklable"}
  /\ UNCHANGED <<config, time, own, ending, behind, history, uses, starts>>

(* The MD5 is that of the file as it is now, whoever wrote it. *)
SaveMd5(p) ==
  /\ pc[p] = "md5"
  /\ cache_file_md5' = [cache_file_md5 EXCEPT ![p] = file]
  /\ write_count' = [write_count EXCEPT ![p] = 0]
  /\ last_save_time' = [last_save_time EXCEPT ![p] = time]
  /\ Goes(p, "run")
  /\ UNCHANGED <<config, time, file, cache, ending, behind, history, past, uses, starts>>

-----------------------------------------------------------------------------
(* Ends of a process.                                                      *)

Exits(p, next) ==
  /\ Goes(p, "check")
  /\ exits' = [exits EXCEPT ![p] = next]
  /\ UNCHANGED <<config, time, own, behind, history>>

(* atexit: _handle_exit. *)
Quit(p) == Idle(p) /\ Exits(p, "end") /\ UNCHANGED <<file, torn, past, uses, starts>>

(* _signal_handler saves, and sys.exit lets atexit save again, unless it   *)
(* came while atexit did.  What the handler interrupts does not go on: a   *)
(* load, or a save that has not begun to write, or has written.            *)
Handled(p) == IF exits[p] = "no" THEN "save" ELSE exits[p]

Signal(p) ==
  /\ pc[p] \notin {"down", "dump"} /\ Counted
  /\ Exits(p, Handled(p))
  /\ past' = IF pc[p] \in {"init", "load"} THEN past \cup {"early"} ELSE past
  /\ UNCHANGED <<file, torn>>

(* A signal while the file is being written.  The handler's own save finds *)
(* it unreadable, or overwrites it when no MD5 was ever taken.             *)
SignalInDump(p) ==
  /\ pc[p] = "dump" /\ Counted
  /\ Exits(p, Handled(p))
  /\ file' \in {file, Partial}
  /\ torn' = [torn EXCEPT ![p] = "open"]
  /\ UNCHANGED past

(* sys.exit leaves the interrupted write, whose close puts what it has got *)
(* over whatever the file holds: a part of the data, or all of it.         *)
Closes(p) ==
  /\ pc[p] = "run" /\ torn[p] = "open"
  /\ file' \in {Partial} \cup IF CanPickle(cache[p]) THEN {File(cache[p])} ELSE {}
  /\ torn' = [torn EXCEPT ![p] = "closed"]
  /\ UNCHANGED <<config, time, pc, own, exits, behind, history, past, uses, starts>>

(* The memory of the process is gone. *)
Stops(p) ==
  /\ pc' = [pc EXCEPT ![p] = "down"]
  /\ cache' = [cache EXCEPT ![p] = <<>>]
  /\ cache_file_md5' = [cache_file_md5 EXCEPT ![p] = NoMd5]
  /\ write_count' = [write_count EXCEPT ![p] = 0]
  /\ last_save_time' = [last_save_time EXCEPT ![p] = 0]
  /\ exits' = [exits EXCEPT ![p] = "no"] /\ torn' = [torn EXCEPT ![p] = "no"]
  /\ behind' = [behind EXCEPT ![p] = 0]
  /\ recency' = [recency EXCEPT ![p] = <<>>]
  /\ merged' = [merged EXCEPT ![p] = FALSE]
  /\ seen' = [seen EXCEPT ![p] = {}]
  /\ UNCHANGED <<config, time, uses, starts>>

ExitSaves(p) ==
  /\ pc[p] = "run" /\ exits[p] = "save" /\ torn[p] # "open"
  /\ Exits(p, "end")
  /\ UNCHANGED <<file, torn, past, uses, starts>>

Ends(p) ==
  /\ pc[p] = "run" /\ exits[p] = "end" /\ torn[p] # "open"
  /\ past' = IF torn[p] = "closed" THEN past \cup {"signalled"} ELSE past
  /\ Stops(p)
  /\ UNCHANGED file

Crash(p) ==
  /\ pc[p] # "down"
  /\ file' \in IF pc[p] = "dump" THEN {file, Partial} ELSE {file}
  /\ Stops(p)
  /\ UNCHANGED past

Next ==
  \/ TimePasses
  \/ \E p \in config.processes :
       \/ Start(p) \/ TakeMd5(p) \/ Load(p) \/ Clear(p) \/ Cleanup(p)
       \/ Quit(p) \/ Signal(p) \/ SignalInDump(p) \/ Closes(p) \/ ExitSaves(p)
       \/ Ends(p) \/ Crash(p)
       \/ SaveChecked(p) \/ SaveFails(p) \/ Merge(p) \/ SaveOpen(p) \/ SaveDump(p)
       \/ DumpFails(p) \/ SaveMd5(p)
       \/ \E k \in config.keys :
            \/ Get(p, k) \/ Delete(p, k)
            \/ \E v \in config.values : SetTTL(p, k, v) \/ SetLRU(p, k, v)

Spec == Init /\ [][Next]_vars
-----------------------------------------------------------------------------
Alone == past \cap {"shared", "unpicklable"} = {}

OnDisk(p) == Entries(file.data) = Entries(cache[p])

(* Set, get, delete, eviction and restarts together keep an LRUCache at    *)
(* the keys used last, in the order of their last use, and within its      *)
(* size.  Merging another process's file gives up both.                    *)
KeepsRecent ==
  \A p \in Process :
    config.kind = "lru" /\ pc[p] # "down" /\ ~merged[p] =>
      /\ IsSuffix(KeyOrder(cache[p]), recency[p])
      /\ Len(cache[p]) <= config.max_size

(* What a crash can cost: a process that has the file for itself is fewer  *)
(* than save_step writes ahead of it, and with no write pending the file   *)
(* holds its cache, also after crashes and signals in earlier saves.       *)
CrashLosesLittle ==
  \A p \in Process :
    Idle(p) /\ config.save_step > 0 /\ Alone =>
      behind[p] < config.save_step /\ (behind[p] = 0 => OnDisk(p))

(* A process that has the file for itself and exits, or is stopped by      *)
(* signals none of which came in the write itself, leaves its cache in the *)
(* file.                                                                   *)
ExitSaved ==
  \A p \in Process :
    pc[p] = "run" /\ exits[p] = "end" /\ torn[p] = "no" /\ Alone => OnDisk(p)

(* While no save or load overlaps another one of a different process, and  *)
(* no signal stops a process before it has loaded the file, a process that *)
(* found a file when it started removes no key from the file that its own  *)
(* cache has not held.                                                     *)
OthersKept ==
  \A p \in Process :
    pc[p] = "open" /\ past \cap {"raced", "early"} = {} /\ cache_file_md5[p] # NoMd5 =>
      Keys(file.data) \subseteq Keys(cache[p]) \cup seen[p]

(* What the docstring of _signal_handler says: a termination signal saves  *)
(* the cache before the process exits.                                     *)
SignalSaves == "signalled" \in past => Readable(file)
=============================================================================
