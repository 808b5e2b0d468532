------------------------------ MODULE BlobCache ------------------------------
(***************************************************************************)
(* The in-memory half of crates/ctxfs-cache: `CacheState`, the LRU index,  *)
(* blob ownership and reservation table that BlobCache keeps behind one    *)
(* mutex.  A blob hex is an element of Blobs, a RepoKey an element of      *)
(* Repos, and sizes are small naturals.                                    *)
(*                                                                         *)
(* Every locked section of lib.rs is one action, except the eviction loops *)
(* of lru_insert_evict, prune, prune_blobs and set_max_bytes: one turn of  *)
(* a loop is one action, and `loop` says which loop holds the mutex.  All  *)
(* other locked sections wait for loop.kind = "idle".                      *)
(***************************************************************************)
EXTENDS Integers, Sequences, FiniteSets

CONSTANTS
    Blobs,          \* content digests (hex)
    Repos,          \* RepoKeys
    Sizes,          \* byte lengths a blob may be written with
    Limits,         \* values of max_bytes and prune targets
    Budgets,        \* values of --cache-reservation
    Seeds,          \* lists of blobs that register_mount is given to claim
    Threads,        \* threads inside register_mount or unregister_mount
    None,           \* Option::None for a reservation argument; nothing loaded
    MaxRefcount     \* bound: concurrent mounts of one repo

ASSUME BlobCacheAssumption ==
    /\ Sizes \subseteq Nat
    /\ Limits \subseteq Nat
    /\ Limits # {}
    /\ Budgets \subseteq Nat
    /\ Seeds \subseteq SUBSET Blobs
    /\ None \notin Nat
    /\ MaxRefcount \in Nat \ {0}
    /\ IsFiniteSet(Repos)

VARIABLES
    lru,            \* entries: keys in LRU order, oldest first
    size,           \* entries: size of each cached key, 0 when not cached
    total,          \* total_bytes
    owners,         \* blob_owners; {} stands for a missing key
    reservations,   \* reservation table; refcount 0 stands for a missing key
    maxBytes,       \* max_bytes, an atomic outside the mutex
    resizing,       \* set_max_bytes calls between the store and the lock
    loaded,         \* max_bytes as a thread loaded it before taking the lock
    divided,        \* history: the limit that default shares were made from
    loop            \* the eviction loop holding the mutex

vars == <<lru, size, total, owners, reservations, maxBytes, resizing, loaded,
          divided, loop>>

-----------------------------------------------------------------------------
Entry == [reserved : Nat, explicit : BOOLEAN, refcount : Nat]

NoEntry == [reserved |-> 0, explicit |-> FALSE, refcount |-> 0]

LoopState == [kind : {"idle", "insert", "prune"}, limit : Nat, rotated : Nat]

Idle == [kind |-> "idle", limit |-> 0, rotated |-> 0]

\* The sum of f[x] over x \in S, as the number of byte slots that S fills.
Bytes(f, S) == Cardinality(UNION {{x} \X (1..f[x]) : x \in S})

Cached == {lru[i] : i \in 1..Len(lru)}

Registered(res) == {r \in Repos : res[r].refcount > 0}

Position(b) == CHOOSE i \in 1..Len(lru) : lru[i] = b

\* LinkedHashMap::insert and get_refresh both leave the key at the back.
MovedToBack(b) ==
    IF b \in Cached
    THEN SubSeq(lru, 1, Position(b) - 1)
           \o SubSeq(lru, Position(b) + 1, Len(lru)) \o <<b>>
    ELSE Append(lru, b)

\* working_set_bytes_for: owned blobs that are not cached count for nothing.
WorkingSet(r) ==
    Bytes(size, {b \in Cached : r \in owners[b]})

WithinBudget(r) ==
    /\ reservations[r].reserved > 0
    /\ WorkingSet(r) <= reservations[r].reserved

\* Mutant: every owner has to be within budget, not just one.
ProtectedByAll(b) == owners[b] # {} /\ \A r \in owners[b] : WithinBudget(r)

\* is_protected_by_reservation
Protected(b) == \E r \in owners[b] : WithinBudget(r)

\* rebalance_default_reservations
Explicit(res) == {r \in Registered(res) : res[r].explicit}

Default(res) == Registered(res) \ Explicit(res)

Reserved(res) == [r \in Repos |-> res[r].reserved]

ExplicitTotal(res) == Bytes(Reserved(res), Explicit(res))

\* max is the limit the caller loaded, whatever it is now.
Pool(res, max) ==
    IF ExplicitTotal(res) > max THEN 0 ELSE max - ExplicitTotal(res)

\* Mutant: the pool is divided without taking the explicit budgets out of it.
ShareOfEverything(res, max) ==
    IF Default(res) = {} THEN 0 ELSE max \div Cardinality(Default(res))

Share(res, max) ==
    IF Default(res) = {} THEN 0 ELSE Pool(res, max) \div Cardinality(Default(res))

Rebalanced(res, max) ==
    [r \in Repos |-> IF r \in Default(res)
                     THEN [res[r] EXCEPT !.reserved = Share(res, max)]
                     ELSE res[r]]

WithOwner(r, hexes) ==
    [b \in Blobs |-> IF b \in hexes THEN owners[b] \cup {r} ELSE owners[b]]

-----------------------------------------------------------------------------
\* A cache opened on an empty directory.
Init ==
    /\ lru = <<>>
    /\ size = [b \in Blobs |-> 0]
    /\ total = 0
    /\ owners = [b \in Blobs |-> {}]
    /\ reservations = [r \in Repos |-> NoEntry]
    /\ maxBytes \in Limits
    /\ resizing = {}
    /\ loaded = [t \in Threads |-> None]
    /\ divided = None
    /\ loop = Idle

\* Mutant: overwriting a key counts its old bytes a second time.
TotalAfterNewKey(b, n) == total + n

\* total_bytes once b is stored with n bytes in place of what it had.
TotalAfterInsert(b, n) == total - size[b] + n

\* lru_insert_evict up to its loop; the lock is taken and the limit is read.
BeginInsert(b, n) ==
    /\ loop = Idle
    /\ total' = TotalAfterInsert(b, n)
    /\ size' = [size EXCEPT ![b] = n]
    /\ lru' = MovedToBack(b)
    /\ loop' = [kind |-> "insert", limit |-> maxBytes, rotated |-> 0]
    /\ UNCHANGED <<owners, reservations, maxBytes, resizing, loaded, divided>>

OverLimit == total > loop.limit /\ lru # <<>>

\* Mutant: the loop stops one candidate early.
AllSeenButOne == loop.rotated + 1 >= Len(lru)

\* Every entry has been looked at since the last eviction.
AllSeen == loop.rotated >= Len(lru)

\* Mutant: rotations are not counted.
NotCounted == loop.rotated

CountRotation == loop.rotated + 1

\* One turn of the insertion loop over a protected candidate.
SkipProtected ==
    /\ loop.kind = "insert"
    /\ OverLimit
    /\ ~AllSeen
    /\ Protected(Head(lru))
    /\ lru' = Append(Tail(lru), Head(lru))
    /\ loop' = [loop EXCEPT !.rotated = CountRotation]
    /\ UNCHANGED <<size, total, owners, reservations, maxBytes, resizing,
                   loaded, divided>>

PopOldest ==
    /\ lru' = Tail(lru)
    /\ total' = total - size[Head(lru)]
    /\ size' = [size EXCEPT ![Head(lru)] = 0]

\* One turn of the insertion loop over a candidate nobody's budget protects.
EvictUnprotected ==
    /\ loop.kind = "insert"
    /\ OverLimit
    /\ ~AllSeen
    /\ ~Protected(Head(lru))
    /\ PopOldest
    /\ owners' = [owners EXCEPT ![Head(lru)] = {}]
    /\ loop' = [loop EXCEPT !.rotated = 0]
    /\ UNCHANGED <<reservations, maxBytes, resizing, loaded, divided>>

EndInsert ==
    /\ loop.kind = "insert"
    /\ ~OverLimit \/ AllSeen
    /\ loop' = Idle
    /\ UNCHANGED <<lru, size, total, owners, reservations, maxBytes, resizing,
                   loaded, divided>>

\* set_max_bytes stores the new limit before it takes the lock.
SetMaxBytes(n) ==
    /\ n \notin resizing
    /\ maxBytes' = n
    /\ resizing' = resizing \cup {n}
    /\ UNCHANGED <<lru, size, total, owners, reservations, loaded, divided,
                   loop>>

PruneTo(n) ==
    /\ loop = Idle
    /\ loop' = [kind |-> "prune", limit |-> n, rotated |-> 0]
    /\ UNCHANGED <<lru, size, total, owners, reservations, maxBytes, loaded,
                   divided>>

\* ... and then evicts down to the limit it stored.
Shrink(n) ==
    /\ n \in resizing
    /\ resizing' = resizing \ {n}
    /\ PruneTo(n)

\* prune and prune_blobs, with a target of their own.
BeginPrune(n) == PruneTo(n) /\ UNCHANGED resizing

\* evict_oldest: neither reservations nor blob_owners are consulted.
PruneOldest ==
    /\ loop.kind = "prune"
    /\ OverLimit
    /\ PopOldest
    /\ UNCHANGED <<owners, reservations, maxBytes, resizing, loaded, divided,
                   loop>>

EndPrune ==
    /\ loop.kind = "prune"
    /\ ~OverLimit
    /\ loop' = Idle
    /\ UNCHANGED <<lru, size, total, owners, reservations, maxBytes, resizing,
                   loaded, divided>>

\* get refreshes the entry it finds.
Get(b) ==
    /\ loop = Idle
    /\ b \in Cached
    /\ lru' = MovedToBack(b)
    /\ UNCHANGED <<size, total, owners, reservations, maxBytes, resizing,
                   loaded, divided, loop>>

\* add_owner, add_owners
AddOwners(r, hexes) ==
    /\ loop = Idle
    /\ owners' = WithOwner(r, hexes)
    /\ UNCHANGED <<lru, size, total, reservations, maxBytes, resizing, loaded,
                   divided, loop>>

\* register_mount and unregister_mount load the limit, then take the lock.
LoadLimit(t) ==
    /\ loaded[t] = None
    /\ loaded' = [loaded EXCEPT ![t] = maxBytes]
    /\ UNCHANGED <<lru, size, total, owners, reservations, maxBytes, resizing,
                   divided, loop>>

\* The end of both: the table res, its default shares made from what t loaded.
DivideAs(t, res) ==
    /\ reservations' = Rebalanced(res, loaded[t])
    /\ divided' = IF Default(res) = {} THEN None ELSE loaded[t]
    /\ loaded' = [loaded EXCEPT ![t] = None]
    /\ UNCHANGED <<lru, size, total, maxBytes, resizing, loop>>

\* A second mount of a repo keeps its entry; only Some(bytes) overrides it.
RegisterMount(t, r, opt, hexes) ==
    /\ loop = Idle
    /\ loaded[t] # None
    /\ reservations[r].refcount < MaxRefcount
    /\ owners' = WithOwner(r, hexes)
    /\ LET old == reservations[r]
           new == [reserved |-> IF opt = None THEN old.reserved ELSE opt,
                   explicit |-> old.explicit \/ opt # None,
                   refcount |-> old.refcount + 1]
       IN  DivideAs(t, [reservations EXCEPT ![r] = new])

\* The last unmount of a repo drops its entry and its claims on blobs.
UnregisterMount(t, r) ==
    /\ loop = Idle
    /\ loaded[t] # None
    /\ IF reservations[r].refcount = 1
       THEN /\ DivideAs(t, [reservations EXCEPT ![r] = NoEntry])
            /\ owners' = [b \in Blobs |-> owners[b] \ {r}]
       ELSE /\ DivideAs(t, [reservations EXCEPT ![r].refcount =
                                 IF @ = 0 THEN 0 ELSE @ - 1])
            /\ UNCHANGED owners

\* What the thread that holds the mutex does next.
LoopStep ==
    \/ SkipProtected
    \/ EvictUnprotected
    \/ EndInsert
    \/ PruneOldest
    \/ EndPrune

Next ==
    \/ \E b \in Blobs, n \in Sizes : BeginInsert(b, n)
    \/ LoopStep
    \/ \E n \in Limits : SetMaxBytes(n)
    \/ \E n \in Limits : Shrink(n) \/ BeginPrune(n)
    \/ \E b \in Blobs : Get(b)
    \/ \E r \in Repos, hexes \in SUBSET Blobs : AddOwners(r, hexes)
    \/ \E t \in Threads : LoadLimit(t)
    \/ \E t \in Threads, r \in Repos, opt \in Budgets \cup {None},
          hexes \in Seeds : RegisterMount(t, r, opt, hexes)
    \/ \E t \in Threads, r \in Repos : UnregisterMount(t, r)

Spec == Init /\ [][Next]_vars

-----------------------------------------------------------------------------
\* Type invariant of CacheState; the LinkedHashMap holds each key once.
TypeOK ==
    /\ lru \in Seq(Blobs)
    /\ \A i, j \in 1..Len(lru) : lru[i] = lru[j] => i = j
    /\ size \in [Blobs -> Nat]
    /\ \A b \in Blobs \ Cached : size[b] = 0
    /\ total \in Int
    /\ owners \in [Blobs -> SUBSET Repos]
    /\ reservations \in [Repos -> Entry]
    /\ maxBytes \in Limits
    /\ resizing \subseteq Limits
    /\ loaded \in [Threads -> Limits \cup {None}]
    /\ divided \in Limits \cup {None}
    /\ loop \in LoopState
    /\ loop.rotated <= Len(lru)
    /\ loop.kind # "insert" => loop.rotated = 0

\* total_bytes is exactly the sum of the indexed sizes after any mix of
\* overwrites, evictions and prunes; a drift underflows the u64 or lets the
\* cache grow past max_bytes unseen.
TotalIsExact == total = Bytes(size, Cached)

\* The reservation promise: whatever the other repos do, a step of an
\* insertion, lookup, (un)registration or claim never takes a cached blob
\* away from a repo whose working set fits its reservation.  Only an explicit
\* prune or a smaller max_bytes, which ignore reservations, may.
BudgetKeepsBlobs ==
    [][loop.kind # "prune" =>
         \A r \in Repos :
            WithinBudget(r) =>
              {b \in Cached : r \in owners[b]} \subseteq Cached']_vars

\* An insertion gives up above the limit only when every blob left in the
\* cache is protected: rotation bookkeeping never ends the loop while there
\* is still a blob that may go.
OverflowOnlyWhenAllProtected ==
    [][loop.kind = "insert" /\ loop' = Idle =>
         total <= loop.limit \/ \A b \in Cached : Protected(b)]_vars

\* Default reservations are equal and never promise more than the limit leaves
\* after the explicit ones, once the call that divided them last has read that
\* limit.  After set_max_bytes, which does not divide them anew, and after a
\* call that read an older limit before it waited for the lock, they are what
\* the older limit allows: `divided` is then not the limit in force.
DefaultsFitPool ==
    LET D == Default(reservations)
    IN  /\ \A r, s \in D : reservations[r].reserved = reservations[s].reserved
        /\ divided = maxBytes
             => Bytes(Reserved(reservations), D) <= Pool(reservations, maxBytes)

\* --cache-reservation outlives every rebalance: while the repo stays
\* mounted, an explicit entry changes its bytes only to another explicit value.
ExplicitIsKept ==
    [][\A r \in Repos :
         /\ reservations[r].explicit
         /\ reservations'[r].refcount > 0
         => /\ reservations'[r].explicit
            /\ \/ reservations'[r].reserved = reservations[r].reserved
               \/ reservations'[r].refcount > reservations[r].refcount]_vars

\* Rotating protected candidates to the back cannot keep the loop, and with it
\* the mutex every reader needs, busy for ever: each turn shortens the list or
\* counts one more rotation of it, and TypeOK bounds the count by its length.
LoopAdvances ==
    [][loop # Idle /\ (lru' # lru \/ loop' # loop) =>
         \/ loop' = Idle
         \/ Len(lru') < Len(lru)
         \/ Len(lru') = Len(lru) /\ loop'.rotated > loop.rotated]_vars
=============================================================================
