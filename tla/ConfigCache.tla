------------------------------ MODULE ConfigCache ------------------------------
(***************************************************************************)
(* The configuration cache: values of app_config kept in Redis and         *)
(* certified by the version in config_version, which every writer raises   *)
(* in the transaction of its write (config-cache.ts, config-cache.         *)
(* service.ts, the setters of admin.service.ts).                           *)
(*                                                                         *)
(* A reader asks Redis and PostgreSQL in separate steps, between which     *)
(* writers commit, evict and die and other readers store what they read.   *)
(* A value is represented by its row's version.                            *)
(***************************************************************************)
EXTENDS Integers

CONSTANTS
    Keys,         \* configuration keys
    Readers,      \* calls of get and peek
    MaxWrites,    \* bound on the writes
    MaxFaults,    \* bound on failing Redis and version reads
    Absent

ASSUME CacheAssumption ==
    /\ MaxWrites \in Nat
    /\ MaxFaults \in Nat

VARIABLES
    row,          \* [Keys -> version of the app_config row; 0: no row]
    global,       \* config_version.version
    entry,        \* [Keys -> Absent or the cached entry]
    evict,        \* keys whose writer has committed and not yet evicted
    reader,       \* [Readers -> Absent or the state of the call]
    writes, faults

cacheVars == <<row, global, entry, evict, reader, writes, faults>>

Entry == [version : Nat, stamp : Nat]

Steps == {"lookup", "check", "before", "value", "after", "store", "done"}

(* asked: the row's version when the call began, which no answer may       *)
(* precede; it is not part of the program's state.                         *)
Call == [pc : Steps, key : Keys, peek : BOOLEAN, asked : Nat,
         seen : Entry \cup {Absent},    \* what Redis held
         before : Nat \cup {Absent},    \* version read before the value
         version : Nat \cup {Absent}]   \* the value read or answered

ASSUME AbsentIsNoEntry ==
    /\ Absent \notin Entry
    /\ Absent \notin Call
    /\ Absent \notin Nat

At(r, pc) == reader[r] # Absent /\ reader[r].pc = pc

Begin(r, k, peek) == reader' = [reader EXCEPT ![r] =
    [pc |-> "lookup", key |-> k, peek |-> peek, asked |-> row[k],
     seen |-> Absent, before |-> Absent, version |-> Absent]]

GoTo(r, pc, seen, before, version) == reader' = [reader EXCEPT ![r] =
    [pc |-> pc, key |-> reader[r].key, peek |-> reader[r].peek,
     asked |-> reader[r].asked,
     seen |-> seen, before |-> before, version |-> version]]

EndCall(r) == reader' = [reader EXCEPT ![r] = Absent]

Answer(r, version) == GoTo(r, "done", Absent, Absent, version)

(* fetchGlobalVersion and Redis calls may throw.                           *)
Fault ==
    /\ faults < MaxFaults
    /\ faults' = faults + 1

(* A peek that finds nothing it may use answers null, a get reads the      *)
(* database.                                                               *)
Miss(r) ==
    IF reader[r].peek THEN EndCall(r) ELSE GoTo(r, "before", Absent, Absent, Absent)

-------------------------------------------------------------------------------
(* Reading                                                                 *)

Start(r, k, peek) ==
    /\ reader[r] = Absent
    /\ Begin(r, k, peek)
    /\ UNCHANGED <<row, global, entry, evict, writes, faults>>

(* redis.get                                                               *)
Lookup(r) ==
    /\ At(r, "lookup")
    /\ LET e == entry[reader[r].key]
       IN  IF e = Absent THEN Miss(r) ELSE GoTo(r, "check", e, Absent, Absent)
    /\ UNCHANGED <<row, global, entry, evict, writes, faults>>

(* isFreshEntry: the entry was cached at the version that is current.      *)
isFreshEntry(e) == e.stamp = global

CheckEntry(r) ==
    /\ At(r, "check")
    /\ IF isFreshEntry(reader[r].seen) THEN Answer(r, reader[r].seen.version)
       ELSE Miss(r)
    /\ UNCHANGED <<row, global, entry, evict, writes, faults>>

FetchVersionBefore(r) ==
    /\ At(r, "before")
    /\ GoTo(r, "value", Absent, global, Absent)
    /\ UNCHANGED <<row, global, entry, evict, writes, faults>>

(* fetchFromDb; a missing row, and a row read without a version, are not   *)
(* cached.                                                                 *)
FetchValue(r) ==
    /\ At(r, "value")
    /\ LET w == row[reader[r].key]
       IN  IF w = 0 \/ reader[r].before = Absent THEN Answer(r, w)
           ELSE GoTo(r, "after", Absent, reader[r].before, w)
    /\ UNCHANGED <<row, global, entry, evict, writes, faults>>

(* Mutant: the version read after the value certifies it.                  *)
CertifiedByLater(before) == TRUE

(* The version is the one read before the value.                           *)
Certified(before) == before = global

FetchVersionAfter(r) ==
    /\ At(r, "after")
    /\ IF Certified(reader[r].before)
       THEN GoTo(r, "store", Absent, global, reader[r].version)
       ELSE Answer(r, reader[r].version)
    /\ UNCHANGED <<row, global, entry, evict, writes, faults>>

(* redis.setex: it may arrive long after, over a newer entry.              *)
Store(r) ==
    /\ At(r, "store")
    /\ entry' = [entry EXCEPT ![reader[r].key] =
            [version |-> reader[r].version, stamp |-> reader[r].before]]
    /\ Answer(r, reader[r].version)
    /\ UNCHANGED <<row, global, evict, writes, faults>>

(* The caller has its answer.                                              *)
FinishCall(r) ==
    /\ At(r, "done")
    /\ EndCall(r)
    /\ UNCHANGED <<row, global, entry, evict, writes, faults>>

(* A call to Redis or for the version throws: the value is read all the    *)
(* same, and not cached.  (A setex that is done and reports an error is    *)
(* Store.)                                                                 *)
FailCall(r) ==
    /\ \/ (At(r, "lookup") \/ At(r, "check")) /\ Miss(r)
       \/ At(r, "before") /\ GoTo(r, "value", Absent, Absent, Absent)
       \/ (At(r, "after") \/ At(r, "store")) /\ Answer(r, reader[r].version)
    /\ Fault
    /\ UNCHANGED <<row, global, entry, evict, writes>>

-------------------------------------------------------------------------------
(* Writing                                                                 *)

(* The transaction of a setter: the row and the version, in one commit.    *)
(* Only some setters evict afterwards.                                     *)
Write(k, evicts) ==
    /\ writes < MaxWrites
    /\ writes' = writes + 1
    /\ row' = [row EXCEPT ![k] = @ + 1]
    /\ global' = global + 1
    /\ evict' = IF evicts THEN evict \cup {k} ELSE evict
    /\ UNCHANGED <<entry, reader, faults>>

(* invalidate; a writer that dies first, or cannot reach Redis, does not.  *)
Evict(k) ==
    /\ k \in evict
    /\ evict' = evict \ {k}
    /\ \/ entry' = [entry EXCEPT ![k] = Absent] /\ faults' = faults
       \/ entry' = entry /\ Fault
    /\ UNCHANGED <<row, global, reader, writes>>

(* The time to live of an entry, Redis' own evictions, invalidateAll.      *)
ExpireEntry(k) ==
    /\ entry[k] # Absent
    /\ entry' = [entry EXCEPT ![k] = Absent]
    /\ UNCHANGED <<row, global, evict, reader, writes, faults>>

-------------------------------------------------------------------------------
CacheInit ==
    /\ row \in [Keys -> {0, 1}]
    /\ global = 1
    /\ entry = [k \in Keys |-> Absent]
    /\ evict = {}
    /\ reader = [r \in Readers |-> Absent]
    /\ writes = 0
    /\ faults = 0

ReaderStep(r) ==
    \/ \E k \in Keys, peek \in BOOLEAN : Start(r, k, peek)
    \/ Lookup(r)
    \/ CheckEntry(r)
    \/ FetchVersionBefore(r)
    \/ FetchValue(r)
    \/ FetchVersionAfter(r)
    \/ Store(r)
    \/ FinishCall(r)
    \/ FailCall(r)

CacheNext ==
    \/ \E r \in Readers : ReaderStep(r)
    \/ \E k \in Keys :
          \/ \E evicts \in BOOLEAN : Write(k, evicts)
          \/ Evict(k)
          \/ ExpireEntry(k)

CacheSpec == CacheInit /\ [][CacheNext]_cacheVars

-------------------------------------------------------------------------------
(* Properties                                                              *)

CacheTypeOK ==
    /\ row \in [Keys -> Nat]
    /\ global \in Nat
    /\ entry \in [Keys -> Entry \cup {Absent}]
    /\ evict \subseteq Keys
    /\ reader \in [Readers -> Call \cup {Absent}]
    /\ writes \in 0..MaxWrites
    /\ faults \in 0..MaxFaults

(* getWithVersion: what a reader would accept from Redis now is the row as *)
(* it is now, however late the entry was stored and whether or not the     *)
(* writers evicted it.                                                     *)
FreshEntryIsCurrent ==
    \A k \in Keys : entry[k] # Absent /\ entry[k].stamp = global =>
        entry[k].version = row[k]

(* get: the answer is not older than the value that was committed when the *)
(* call began; a member who saved a setting never reads the old one.       *)
NoStaleAnswer ==
    \A r \in Readers : At(r, "done") => reader[r].version >= reader[r].asked

===============================================================================
