----------------------------- MODULE MountsProofs -----------------------------
(***************************************************************************)
(* Proofs about Mounts for any number of requests, tasks, ids and          *)
(* repositories: the registrations in the cache balance, and what is       *)
(* registered keeps its reservation and its backend.                       *)
(***************************************************************************)
EXTENDS Mounts, FiniteSetTheorems, TLAPS

\* Who holds a registration for k when the requests are rq.
HoldersOf(rq, k) == {r \in Requests : rq[r].pc \in Holding /\ RepoOf[rq[r].id] = k}

\* The registrations rc match the requests rq.
Balanced(rq, rc) == \A k \in Repos : rc[k] = Cardinality(HoldersOf(rq, k))

\* The types of the requests: one that has begun has its id.
RequestTyped(q) == q \in Request /\ (q.pc # "new" => q.id \in Ids)

\* The types of the tasks: one that has begun has its id, and its handle once
\* it has taken it.
TaskTyped(u) ==
    /\ u \in Task
    /\ u.pc # "idle" => u.id \in Ids
    /\ u.pc \notin {"idle", "resolved"} => u.handle \in Requests

\* The types, without the bound on the counts.
Types ==
    /\ mounts \in [Ids -> Requests \cup {None}]
    /\ refcount \in [Repos -> Nat]
    /\ request = [r \in Requests |-> request[r]]
    /\ \A r \in Requests : RequestTyped(request[r])
    /\ task = [t \in Tasks |-> task[t]]
    /\ \A t \in Tasks : TaskTyped(task[t])
    /\ up \subseteq Requests
    /\ volume \subseteq Requests
    /\ signal \subseteq Requests
    /\ entries \subseteq Ids
    /\ restarts \in 0..MaxRestarts
    /\ \A r \in volume \cup signal : request[r].pc # "new"

\* What a registered handle is.
Registered ==
    /\ \A r \in Requests :
          request[r].pc \in {"started", "saving", "live"} => r \in up
    /\ \A i \in Ids : mounts[i] # None =>
          request[mounts[i]].pc = "live" /\ request[mounts[i]].id = i

\* What a task has taken out is its own and no longer registered.
Taken ==
    /\ \A t \in Tasks :
          /\ task[t].pc \in {"idle", "resolved"} => task[t].handle = None
          /\ task[t].handle # None =>
                request[task[t].handle].pc =
                   IF task[t].pc = "removed" THEN "unmounting" ELSE "unmounted"
    /\ \A t, u \in Tasks :
          t # u /\ task[t].handle # None => task[t].handle # task[u].handle

-----------------------------------------------------------------------------
\* Counting.

\* Holders are finitely many.
LEMMA HoldersFinite ==
    ASSUME NEW rq, NEW k
    PROVE  /\ IsFiniteSet(HoldersOf(rq, k))
           /\ Cardinality(HoldersOf(rq, k)) \in 0..Cardinality(Requests)
<1>1. HoldersOf(rq, k) \in SUBSET Requests
  BY DEF HoldersOf
<1>2. IsFiniteSet(Requests)
  BY MountsAssumption
<1>3. /\ IsFiniteSet(HoldersOf(rq, k))
      /\ Cardinality(HoldersOf(rq, k)) <= Cardinality(Requests)
  BY <1>1, <1>2, FS_Subset
<1>4. Cardinality(HoldersOf(rq, k)) \in Nat /\ Cardinality(Requests) \in Nat
  BY <1>2, <1>3, FS_CardinalityType
<1> QED BY <1>3, <1>4

\* When nobody starts or stops holding, the balance is kept.
LEMMA BalanceKept ==
    ASSUME NEW rq, NEW rq2, NEW rc, Balanced(rq, rc),
           \A q \in Requests : /\ rq2[q].pc \in Holding <=> rq[q].pc \in Holding
                               /\ rq[q].pc \in Holding => rq2[q].id = rq[q].id
    PROVE  Balanced(rq2, rc)
<1>1. ASSUME NEW k \in Repos PROVE HoldersOf(rq2, k) = HoldersOf(rq, k)
  <2>1. \A q \in Requests : q \in HoldersOf(rq2, k) <=> q \in HoldersOf(rq, k)
    BY DEF HoldersOf
  <2>2. HoldersOf(rq2, k) \subseteq Requests /\ HoldersOf(rq, k) \subseteq Requests
    BY DEF HoldersOf
  <2> QED BY <2>1, <2>2
<1> QED BY <1>1 DEF Balanced

\* register_mount by one more holder.
LEMMA BalanceAdded ==
    ASSUME NEW rq, NEW rq2, NEW rc \in [Repos -> Nat], Balanced(rq, rc),
           NEW r \in Requests,
           \A q \in Requests \ {r} : rq2[q] = rq[q],
           rq[r].pc \notin Holding, rq2[r].pc \in Holding
    PROVE  Balanced(rq2, [rc EXCEPT ![RepoOf[rq2[r].id]] = @ + 1])
<1> DEFINE j == RepoOf[rq2[r].id]
           after == [rc EXCEPT ![j] = @ + 1]
<1>1. ASSUME NEW k \in Repos PROVE after[k] = Cardinality(HoldersOf(rq2, k))
  <2>1. CASE k = j
    <3>1. HoldersOf(rq2, k) = HoldersOf(rq, k) \cup {r}
      <4>1. \A q \in Requests \ {r} : q \in HoldersOf(rq2, k) <=> q \in HoldersOf(rq, k)
        BY DEF HoldersOf
      <4>2. r \in HoldersOf(rq2, k)
        BY <2>1 DEF HoldersOf
      <4>3. HoldersOf(rq2, k) \subseteq Requests /\ HoldersOf(rq, k) \subseteq Requests
        BY DEF HoldersOf
      <4> QED BY <4>1, <4>2, <4>3
    <3>2. r \notin HoldersOf(rq, k)
      BY DEF HoldersOf
    <3>3. Cardinality(HoldersOf(rq2, k)) = Cardinality(HoldersOf(rq, k)) + 1
      BY <3>1, <3>2, HoldersFinite, FS_AddElement
    <3>4. after[k] = rc[k] + 1
      BY <2>1
    <3> QED BY <3>3, <3>4 DEF Balanced
  <2>2. CASE k # j
    <3>1. HoldersOf(rq2, k) = HoldersOf(rq, k)
      <4>1. \A q \in Requests \ {r} : q \in HoldersOf(rq2, k) <=> q \in HoldersOf(rq, k)
        BY DEF HoldersOf
      <4>2. r \notin HoldersOf(rq2, k) /\ r \notin HoldersOf(rq, k)
        BY <2>2 DEF HoldersOf
      <4>3. HoldersOf(rq2, k) \subseteq Requests /\ HoldersOf(rq, k) \subseteq Requests
        BY DEF HoldersOf
      <4> QED BY <4>1, <4>2, <4>3
    <3>2. after[k] = rc[k]
      BY <2>2
    <3> QED BY <3>1, <3>2 DEF Balanced
  <2> QED BY <2>1, <2>2
<1> QED BY <1>1 DEF Balanced

\* unregister_mount by one holder: the decrement never saturates.
LEMMA BalanceDropped ==
    ASSUME NEW rq, NEW rq2, NEW rc \in [Repos -> Nat], Balanced(rq, rc),
           NEW r \in Requests,
           \A q \in Requests \ {r} : rq2[q] = rq[q],
           rq[r].pc \in Holding, rq2[r].pc \notin Holding
    PROVE  Balanced(rq2, [rc EXCEPT ![RepoOf[rq[r].id]] = IF @ = 0 THEN 0 ELSE @ - 1])
<1> DEFINE j == RepoOf[rq[r].id]
           after == [rc EXCEPT ![j] = IF @ = 0 THEN 0 ELSE @ - 1]
<1>1. ASSUME NEW k \in Repos PROVE after[k] = Cardinality(HoldersOf(rq2, k))
  <2>1. CASE k = j
    <3>1. HoldersOf(rq2, k) = HoldersOf(rq, k) \ {r}
      <4>1. \A q \in Requests \ {r} : q \in HoldersOf(rq2, k) <=> q \in HoldersOf(rq, k)
        BY DEF HoldersOf
      <4>2. r \notin HoldersOf(rq2, k)
        BY DEF HoldersOf
      <4>3. HoldersOf(rq2, k) \subseteq Requests /\ HoldersOf(rq, k) \subseteq Requests
        BY DEF HoldersOf
      <4> QED BY <4>1, <4>2, <4>3
    <3>2. r \in HoldersOf(rq, k)
      BY <2>1 DEF HoldersOf
    <3>3. Cardinality(HoldersOf(rq2, k)) = Cardinality(HoldersOf(rq, k)) - 1
      BY <3>1, <3>2, HoldersFinite, FS_RemoveElement
    <3>4. HoldersOf(rq, k) # {}
      BY <3>2
    <3>5. Cardinality(HoldersOf(rq, k)) # 0
      BY <3>4, HoldersFinite, FS_EmptySet
    <3>6. rc[k] = Cardinality(HoldersOf(rq, k))
      BY DEF Balanced
    <3>7. after[k] = IF rc[k] = 0 THEN 0 ELSE rc[k] - 1
      BY <2>1
    <3> QED BY <3>3, <3>5, <3>6, <3>7
  <2>2. CASE k # j
    <3>1. HoldersOf(rq2, k) = HoldersOf(rq, k)
      <4>1. \A q \in Requests \ {r} : q \in HoldersOf(rq2, k) <=> q \in HoldersOf(rq, k)
        BY DEF HoldersOf
      <4>2. r \notin HoldersOf(rq2, k) /\ r \notin HoldersOf(rq, k)
        BY <2>2 DEF HoldersOf
      <4>3. HoldersOf(rq2, k) \subseteq Requests /\ HoldersOf(rq, k) \subseteq Requests
        BY DEF HoldersOf
      <4> QED BY <4>1, <4>2, <4>3
    <3>2. after[k] = rc[k]
      BY <2>2
    <3> QED BY <3>1, <3>2 DEF Balanced
  <2> QED BY <2>1, <2>2
<1> QED BY <1>1 DEF Balanced

-----------------------------------------------------------------------------
\* Types.

\* Stopping requests that have begun keeps the types of the three sets.
LEMMA StopTyped ==
    ASSUME Types, NEW R \in SUBSET Requests, Stop(R)
    PROVE  /\ up' \subseteq Requests /\ volume' \subseteq Requests
           /\ signal' \subseteq Requests
           /\ volume' \cup signal' \subseteq volume \cup signal
BY DEF Types, Stop

\* At most one request moves, and has then begun; at most one task moves.
RequestMoves ==
    \/ request' = request
    \/ \E r \in Requests : \E q \in Request :
          /\ q.pc # "new" /\ q.id \in Ids
          /\ request' = [request EXCEPT ![r] = q]

TaskMoves ==
    \/ task' = task
    \/ \E t \in Tasks : \E u \in Task :
          TaskTyped(u) /\ task' = [task EXCEPT ![t] = u]

\* Such a step keeps the types of the requests and the tasks.
LEMMA MovesTyped ==
    ASSUME Types, RequestMoves, TaskMoves
    PROVE  /\ request' = [r \in Requests |-> request'[r]]
           /\ \A r \in Requests : RequestTyped(request'[r])
           /\ \A r \in Requests : request[r].pc # "new" => request'[r].pc # "new"
           /\ task' = [t \in Tasks |-> task'[t]]
           /\ \A t \in Tasks : TaskTyped(task'[t])
<1>1. CASE request' = request /\ task' = task
  BY <1>1 DEF Types
<1>2. /\ request' = [r \in Requests |-> request'[r]]
      /\ \A r \in Requests : RequestTyped(request'[r])
      /\ \A r \in Requests : request[r].pc # "new" => request'[r].pc # "new"
  <2>1. CASE request' = request
    BY <2>1 DEF Types
  <2>2. ASSUME NEW r \in Requests, NEW q \in Request, q.pc # "new", q.id \in Ids,
               request' = [request EXCEPT ![r] = q]
        PROVE  /\ request' = [p \in Requests |-> request'[p]]
               /\ \A p \in Requests : RequestTyped(request'[p])
               /\ \A p \in Requests : request[p].pc # "new" => request'[p].pc # "new"
    <3>1. request' = [p \in Requests |-> request'[p]]
      BY <2>2 DEF Types
    <3>2. \A p \in Requests : request'[p] = IF p = r THEN q ELSE request[p]
      BY <2>2 DEF Types
    <3>3. RequestTyped(q)
      BY <2>2 DEF RequestTyped
    <3> QED BY <2>2, <3>1, <3>2, <3>3 DEF Types
  <2> QED BY <2>1, <2>2 DEF RequestMoves
<1>3. /\ task' = [t \in Tasks |-> task'[t]]
      /\ \A t \in Tasks : TaskTyped(task'[t])
  <2>1. CASE task' = task
    BY <2>1 DEF Types
  <2>2. ASSUME NEW t \in Tasks, NEW u \in Task, TaskTyped(u),
               task' = [task EXCEPT ![t] = u]
        PROVE  /\ task' = [v \in Tasks |-> task'[v]]
               /\ \A v \in Tasks : TaskTyped(task'[v])
    BY <2>2 DEF Types
  <2> QED BY <2>1, <2>2 DEF TaskMoves
<1> QED BY <1>2, <1>3

\* The rest of the types, for a step that is not a restart.
LEMMA StepTyped ==
    ASSUME Types, RequestMoves, TaskMoves,
           mounts' \in [Ids -> Requests \cup {None}],
           refcount' \in [Repos -> Nat],
           up' \subseteq Requests, volume' \subseteq Requests, signal' \subseteq Requests,
           entries' \subseteq Ids, restarts' = restarts,
           \A r \in (volume' \cup signal') \ (volume \cup signal) : request'[r].pc # "new"
    PROVE  Types'
<1>1. \A r \in volume' \cup signal' : request'[r].pc # "new"
  BY MovesTyped DEF Types
<1> QED BY <1>1, MovesTyped DEF Types

\* A change of pc is a move.
LEMMA AtMoves ==
    ASSUME Types, NEW r \in Requests, request[r].pc # "new",
           NEW pc \in Holding \cup {"failed", "unmounted"}, request' = At(r, pc)
    PROVE  RequestMoves /\ request'[r].pc = pc
<1> DEFINE q == [request[r] EXCEPT !.pc = pc]
<1>1. request' = [request EXCEPT ![r] = q]
  BY DEF At
<1>2. request[r] \in Request /\ request[r].id \in Ids
  BY DEF Types, RequestTyped
<1>3. q \in Request /\ q.pc = pc /\ q.id \in Ids
  BY <1>2 DEF Request
<1>4. pc # "new"
  BY DEF Holding, Lost
<1>5. request'[r] = q
  BY <1>1 DEF Types
<1> QED BY <1>1, <1>3, <1>4, <1>5 DEF RequestMoves

\* So is a task's next step, or its return.
LEMMA BecomeMoves ==
    ASSUME Types, NEW t \in Tasks, task[t].pc \notin {"idle", "resolved"},
           NEW pc \in {"stopping", "clearing", "saving"}, task' = Become(t, pc)
    PROVE  TaskMoves
<1> DEFINE u == [task[t] EXCEPT !.pc = pc]
<1>1. task' = [task EXCEPT ![t] = u]
  BY DEF Become
<1>2. task[t] \in Task /\ task[t].id \in Ids /\ task[t].handle \in Requests
  BY DEF Types, TaskTyped
<1>3. u \in Task /\ u.pc = pc /\ u.id = task[t].id /\ u.handle = task[t].handle
  BY <1>2 DEF Task
<1>4. TaskTyped(u)
  BY <1>2, <1>3 DEF TaskTyped
<1> QED BY <1>1, <1>3, <1>4 DEF TaskMoves

\* A task that returns is typed.
LEMMA IdleMoves ==
    ASSUME NEW t \in Tasks, task' = [task EXCEPT ![t] = IdleTask]
    PROVE  TaskMoves
<1>1. IdleTask \in Task /\ TaskTyped(IdleTask)
  BY DEF IdleTask, Task, TaskTyped
<1> QED BY <1>1 DEF TaskMoves

\* Registering keeps the types.
LEMMA RegisterTyped ==
    ASSUME Types, Registered, NEW r \in Requests, request[r].pc # "new", Register(r),
           entries' \subseteq Ids
    PROVE  Types'
<1> DEFINE id == request[r].id
           old == {mounts[id]} \ {None}
<1>1. id \in Ids
  BY DEF Types, RequestTyped
<1>2. old \in SUBSET Requests
  BY <1>1 DEF Types
<1>3. /\ up' \subseteq Requests /\ volume' \subseteq Requests /\ signal' \subseteq Requests
      /\ volume' \cup signal' \subseteq volume \cup signal
  BY <1>2, StopTyped DEF Register
<1>4. mounts' \in [Ids -> Requests \cup {None}]
  BY <1>1 DEF Types, Register
<1>5. request' = [q \in Requests |->
                     IF q = r THEN [request[r] EXCEPT !.pc = "live", !.read = {}]
                     ELSE IF q \in old THEN [request[q] EXCEPT !.pc = "replaced"]
                     ELSE request[q]]
  BY DEF Register
<1>6. \A q \in old : request[q].pc # "new"
  BY <1>1 DEF Registered
<1>7. ASSUME NEW q \in Requests PROVE RequestTyped(request'[q])
  <2>1. RequestTyped(request[q])
    BY DEF Types
  <2>2. CASE q = r
    BY <1>1, <1>5, <2>1, <2>2 DEF RequestTyped, Request, Holding, Lost
  <2>3. CASE q # r /\ q \in old
    BY <1>5, <1>6, <2>1, <2>3 DEF RequestTyped, Request, Holding, Lost
  <2>4. CASE q # r /\ q \notin old
    BY <1>5, <2>1, <2>4
  <2> QED BY <2>2, <2>3, <2>4
<1>8. \A q \in Requests : request'[q].pc = "new" => request[q].pc = "new"
  BY <1>5 DEF Types, RequestTyped, Request
<1>9. request' = [q \in Requests |-> request'[q]]
  BY <1>5
<1>10. UNCHANGED <<refcount, task, restarts>>
  BY DEF Register
<1>11. \A q \in volume' \cup signal' : request'[q].pc # "new"
  BY <1>3, <1>8 DEF Types
<1> QED BY <1>3, <1>4, <1>7, <1>9, <1>10, <1>11 DEF Types

\* A new daemon's state has the types.
LEMMA FreshTyped ==
    ASSUME Types, Fresh, volume' \subseteq volume
    PROVE  Types'
<1>1. request' = [r \in Requests |->
                     IF request[r].pc = "new" THEN NewRequest
                     ELSE [request[r] EXCEPT !.pc = "gone", !.read = {}]]
  BY DEF Fresh
<1>2. ASSUME NEW r \in Requests PROVE RequestTyped(request'[r])
  <2>1. CASE request[r].pc = "new"
    BY <1>1, <2>1 DEF RequestTyped, Request, NewRequest
  <2>2. CASE request[r].pc # "new"
    BY <1>1, <2>2 DEF Types, RequestTyped, Request
  <2> QED BY <2>1, <2>2
<1>3. \A r \in Requests : request'[r].pc = "new" => request[r].pc = "new"
  BY <1>1 DEF Types, RequestTyped, Request
<1>4. task' = [t \in Tasks |-> IdleTask] /\ TaskTyped(IdleTask)
  BY DEF Fresh, IdleTask, Task, TaskTyped
<1>5. restarts' \in 0..MaxRestarts
  <2>1. restarts < MaxRestarts /\ restarts' = restarts + 1 /\ restarts \in 0..MaxRestarts
    BY DEF Types, Fresh
  <2>2. MaxRestarts \in Nat
    BY MountsAssumption
  <2> QED BY <2>1, <2>2
<1>6. mounts' \in [Ids -> Requests \cup {None}] /\ refcount' \in [Repos -> Nat]
  BY DEF Fresh
<1>7. up' = {} /\ signal' = {} /\ entries' = {}
  BY DEF Fresh
<1>8. \A r \in volume' \cup signal' : request'[r].pc # "new"
  BY <1>3, <1>7 DEF Types
<1>9. request' = [r \in Requests |-> request'[r]] /\ task' = [t \in Tasks |-> task'[t]]
  BY <1>1, <1>4
<1>10. volume' \subseteq Requests
  BY DEF Types
<1> QED BY <1>2, <1>4, <1>5, <1>6, <1>7, <1>8, <1>9, <1>10 DEF Types

\* Counts stay natural numbers.
LEMMA ReleasedTyped ==
    ASSUME Types, NEW k
    PROVE  Released(k) \in [Repos -> Nat]
<1>1. ASSUME NEW n \in Nat PROVE (IF n = 0 THEN 0 ELSE n - 1) \in Nat
  OBVIOUS
<1>2. refcount \in [Repos -> Nat]
  BY DEF Types
<1>3. Released(k) = [j \in Repos |-> IF j = k
                                     THEN (IF refcount[k] = 0 THEN 0 ELSE refcount[k] - 1)
                                     ELSE refcount[j]]
  BY <1>2 DEF Released
<1> QED BY <1>1, <1>2, <1>3

\* Every step keeps the types.
LEMMA TypesStep ==
    ASSUME Types, Registered, Taken, [Next]_vars
    PROVE  Types'
<1>1. CASE UNCHANGED vars
  BY <1>1 DEF Types, vars
<1>2. ASSUME NEW r \in Requests, NEW i \in Ids, NEW b \in Backends, Prepare(r, i, b)
      PROVE  Types'
  <2>1. RepoOf[i] \in Repos /\ b \in {"nfs", "fskit"}
    BY MountsAssumption
  <2>2. refcount' \in [Repos -> Nat]
    BY <1>2, <2>1 DEF Types, Prepare
  <2> DEFINE q == [NewRequest EXCEPT !.pc = "fetching", !.id = i, !.backend = b]
  <2>3. q \in Request /\ q.pc # "new" /\ q.id \in Ids
    BY <2>1 DEF NewRequest, Request, Holding, Lost
  <2>4. request' = [request EXCEPT ![r] = q]
    BY <1>2 DEF Prepare
  <2>5. RequestMoves
    BY <2>3, <2>4 DEF RequestMoves
  <2>6. UNCHANGED <<mounts, task, up, volume, signal, entries, restarts>>
    BY <1>2 DEF Prepare
  <2> QED BY <2>2, <2>5, <2>6, StepTyped DEF Types, TaskMoves
<1>3. ASSUME NEW r \in Requests, FetchFails(r) PROVE Types'
  <2>1. refcount' \in [Repos -> Nat]
    BY <1>3, ReleasedTyped DEF FetchFails
  <2>2. RequestMoves
    BY <1>3, AtMoves DEF FetchFails
  <2> QED BY <1>3, <2>1, <2>2, StepTyped DEF Types, FetchFails, TaskMoves
<1>4. ASSUME NEW r \in Requests, FetchReturns(r) PROVE Types'
  <2>1. RequestMoves
    BY <1>4, AtMoves DEF FetchReturns, Holding, Lost
  <2> QED BY <1>4, <2>1, StepTyped DEF Types, FetchReturns, TaskMoves
<1>5. ASSUME NEW r \in Requests, BackendFails(r) PROVE Types'
  <2>1. RequestMoves
    BY <1>5, AtMoves DEF BackendFails, Holding, Lost
  <2> QED BY <1>5, <2>1, StepTyped DEF Types, BackendFails, TaskMoves
<1>6. ASSUME NEW r \in Requests, StartNfs(r) PROVE Types'
  <2>1. RequestMoves
    BY <1>6, AtMoves DEF StartNfs, Holding, Lost
  <2> QED BY <1>6, <2>1, StepTyped DEF Types, StartNfs, TaskMoves
<1>7. ASSUME NEW r \in Requests, InsertNfs(r) PROVE Types'
  <2>1. entries' \subseteq Ids /\ request[r].pc # "new" /\ Register(r)
    BY <1>7 DEF Types, InsertNfs
  <2> QED BY <2>1, RegisterTyped
<1>8. ASSUME NEW r \in Requests, StartFskit(r) PROVE Types'
  <2>1. RequestMoves /\ request'[r].pc = "started"
    BY <1>8, AtMoves DEF StartFskit, Holding, Lost
  <2>2. /\ up' = up \cup {r} /\ volume' = volume \cup {r}
        /\ UNCHANGED <<mounts, refcount, task, signal, entries, restarts>>
    BY <1>8 DEF StartFskit
  <2> QED BY <2>1, <2>2, StepTyped DEF Types, TaskMoves
<1>9. ASSUME NEW r \in Requests, AddRead(r) PROVE Types'
  <2> DEFINE q == [request[r] EXCEPT !.pc = "saving", !.read = entries]
  <2>1. request[r].pc = "started" /\ request' = [request EXCEPT ![r] = q]
    BY <1>9 DEF AddRead
  <2>2. request[r] \in Request /\ request[r].id \in Ids
    BY <2>1 DEF Types, RequestTyped
  <2>3. q \in Request /\ q.pc # "new" /\ q.id \in Ids
    BY <2>2 DEF Types, Request, Holding, Lost
  <2>4. RequestMoves
    BY <2>1, <2>3 DEF RequestMoves
  <2> QED BY <1>9, <2>4, StepTyped DEF Types, AddRead, TaskMoves
<1>10. ASSUME NEW r \in Requests, AddWriteInsert(r) PROVE Types'
  <2>1. request[r].pc = "saving" /\ Register(r)
        /\ entries' \in Written(request[r].read \cup {request[r].id})
    BY <1>10 DEF AddWriteInsert
  <2>2. request[r].read \subseteq Ids /\ request[r].id \in Ids
    BY <2>1 DEF Types, RequestTyped, Request
  <2>3. entries' \subseteq Ids
    BY <2>1, <2>2 DEF Types, Written
  <2> QED BY <2>1, <2>3, RegisterTyped
<1>11. ASSUME NEW r \in Requests, Eject(r) PROVE Types'
  BY <1>11, StepTyped DEF Types, Eject, RequestMoves, TaskMoves
<1>12. ASSUME NEW t \in Tasks, NEW i \in Ids, UnmountRpc(t, i) PROVE Types'
  <2> DEFINE u == [task[t] EXCEPT !.pc = "resolved", !.id = i]
  <2>1. task' = [task EXCEPT ![t] = u] /\ TaskTyped(task[t])
    BY <1>12 DEF UnmountRpc, Types
  <2>2. TaskTyped(u) /\ u \in Task
    BY <2>1 DEF TaskTyped, Task
  <2>3. TaskMoves
    BY <2>1, <2>2 DEF TaskMoves
  <2> QED BY <1>12, <2>3, StepTyped DEF Types, UnmountRpc, RequestMoves
<1>13. ASSUME NEW t \in Tasks, NEW r \in Requests, Watch(t, r) PROVE Types'
  <2> DEFINE u == [task[t] EXCEPT !.pc = "resolved", !.id = request[r].id, !.watched = r]
  <2>1. task' = [task EXCEPT ![t] = u] /\ TaskTyped(task[t]) /\ r \in signal
    BY <1>13 DEF Watch, Types
  <2>2. request[r].id \in Ids
    BY <2>1 DEF Types, RequestTyped
  <2>3. TaskTyped(u) /\ u \in Task
    BY <2>1, <2>2 DEF TaskTyped, Task
  <2>4. TaskMoves
    BY <2>1, <2>3 DEF TaskMoves
  <2> QED BY <1>13, <2>4, StepTyped DEF Types, Watch, RequestMoves
<1>14. ASSUME NEW t \in Tasks, RemoveNothing(t) PROVE Types'
  BY <1>14, IdleMoves, StepTyped DEF Types, RemoveNothing, RequestMoves
<1>15. ASSUME NEW t \in Tasks, Remove(t) PROVE Types'
  <2> DEFINE r == mounts[task[t].id]
             u == [task[t] EXCEPT !.pc = "removed", !.handle = r]
  <2>1. /\ task' = [task EXCEPT ![t] = u] /\ TaskTyped(task[t])
        /\ task[t].pc = "resolved" /\ r # None /\ request' = At(r, "unmounting")
    BY <1>15 DEF Remove, Types
  <2>2. task[t].id \in Ids
    BY <2>1 DEF TaskTyped
  <2>3. r \in Requests
    BY <2>1, <2>2 DEF Types
  <2>4. request[r].pc = "live"
    BY <2>1, <2>2 DEF Registered
  <2>5. TaskTyped(u) /\ u \in Task
    BY <2>1, <2>2, <2>3 DEF TaskTyped, Task
  <2>6. TaskMoves
    BY <2>1, <2>5 DEF TaskMoves
  <2>7. RequestMoves
    BY <2>1, <2>3, <2>4, AtMoves DEF Holding, Lost
  <2>8. mounts' = [mounts EXCEPT ![task[t].id] = None]
        /\ UNCHANGED <<refcount, up, volume, signal, entries, restarts>>
    BY <1>15 DEF Remove
  <2> QED BY <2>6, <2>7, <2>8, StepTyped DEF Types
<1>16. ASSUME NEW t \in Tasks, Unregister(t) PROVE Types'
  <2>1. task[t].pc = "removed" /\ task' = Become(t, "stopping")
    BY <1>16 DEF Unregister
  <2>2. TaskMoves
    BY <2>1, BecomeMoves
  <2>3. refcount' \in [Repos -> Nat]
    BY <1>16, ReleasedTyped DEF Unregister
  <2>4. task[t].handle \in Requests /\ request[task[t].handle].pc = "unmounting"
    BY <2>1, MountsAssumption DEF Types, TaskTyped, Taken
  <2>5. RequestMoves
    BY <1>16, <2>4, AtMoves DEF Unregister
  <2>6. UNCHANGED <<mounts, up, volume, signal, entries, restarts>>
    BY <1>16 DEF Unregister
  <2> QED BY <2>2, <2>3, <2>5, <2>6, StepTyped DEF Types
<1>17. ASSUME NEW t \in Tasks, Shutdown(t) PROVE Types'
  <2>1. task[t].pc = "stopping" /\ Stop({task[t].handle})
    BY <1>17 DEF Shutdown
  <2>2. task[t].handle \in Requests
    BY <2>1 DEF Types, TaskTyped
  <2>3. /\ up' \subseteq Requests /\ volume' \subseteq Requests /\ signal' \subseteq Requests
        /\ volume' \cup signal' \subseteq volume \cup signal
    BY <2>1, <2>2, StopTyped
  <2>4. TaskMoves
    BY <1>17, <2>1, IdleMoves, BecomeMoves DEF Shutdown
  <2> QED BY <1>17, <2>3, <2>4, StepTyped DEF Types, Shutdown, RequestMoves
<1>18. ASSUME NEW t \in Tasks, RemoveVolumeRead(t) PROVE Types'
  <2> DEFINE u == [task[t] EXCEPT !.pc = "saving", !.read = entries]
  <2>1. /\ task[t].pc = "clearing" /\ TaskTyped(task[t])
        /\ task' = [task EXCEPT ![t] = u] \/ task' = [task EXCEPT ![t] = IdleTask]
    BY <1>18 DEF RemoveVolumeRead, Types
  <2>2. TaskTyped(u) /\ u \in Task
    BY <2>1 DEF TaskTyped, Task, Types
  <2>3. TaskMoves
    BY <2>1, <2>2, IdleMoves DEF TaskMoves
  <2> QED BY <1>18, <2>3, StepTyped DEF Types, RemoveVolumeRead, RequestMoves
<1>19. ASSUME NEW t \in Tasks, RemoveVolumeWrite(t) PROVE Types'
  <2>1. TaskTyped(task[t]) /\ entries' \in Written(task[t].read \ {task[t].id})
    BY <1>19 DEF Types, RemoveVolumeWrite
  <2>2. entries' \subseteq Ids
    BY <2>1 DEF Types, Written, TaskTyped, Task
  <2> QED BY <1>19, <2>2, IdleMoves, StepTyped DEF Types, RemoveVolumeWrite, RequestMoves
<1>20. CASE CrashAndRestart
  BY <1>20, FreshTyped DEF CrashAndRestart
<1>21. CASE StopAndRestart
  BY <1>21, FreshTyped DEF StopAndRestart
<1> QED
  BY <1>1, <1>2, <1>3, <1>4, <1>5, <1>6, <1>7, <1>8, <1>9, <1>10, <1>11, <1>12,
     <1>13, <1>14, <1>15, <1>16, <1>17, <1>18, <1>19, <1>20, <1>21
  DEF Next, Serve, Teardown

-----------------------------------------------------------------------------
\* What is registered, and what tasks have taken.

\* The values of a change of pc.
LEMMA AtValues ==
    ASSUME Types, NEW r \in Requests, NEW pc, request' = At(r, pc)
    PROVE  /\ request'[r].pc = pc /\ request'[r].id = request[r].id
           /\ \A q \in Requests \ {r} : request'[q] = request[q]
<1>1. request = [q \in Requests |-> request[q]] /\ request[r] \in Request
  BY DEF Types, RequestTyped
<1>2. request' = [request EXCEPT ![r] = [request[r] EXCEPT !.pc = pc]]
  BY DEF At
<1> QED BY <1>1, <1>2 DEF Request

\* A request that is not registered moves on without being registered.
LEMMA RequestKeeps ==
    ASSUME Types, Registered, Taken, NEW r \in Requests,
           request[r].pc \notin {"live", "unmounting", "unmounted"},
           request'[r].pc # "live",
           request'[r].pc \in {"started", "saving"} => r \in up',
           \A q \in Requests \ {r} : request'[q] = request[q],
           up \subseteq up', mounts' = mounts, task' = task
    PROVE  Registered' /\ Taken'
<1>1. \A i \in Ids : mounts[i] # r
  BY MountsAssumption, SMTT(30) DEF Registered, Types
<1>2. \A t \in Tasks : task[t].handle # r
  BY MountsAssumption DEF Taken
<1>3. \A i \in Ids : mounts[i] # None => mounts[i] \in Requests \ {r}
  BY <1>1 DEF Types
<1>4. \A t \in Tasks : task[t].handle # None => task[t].handle \in Requests \ {r}
  BY <1>2 DEF Types, TaskTyped, Task
<1>5. Registered'
  BY <1>3 DEF Registered
<1>6. Taken'
  BY <1>4 DEF Taken
<1> QED BY <1>5, <1>6

\* A task that holds no handle stays that way.
LEMMA HandlelessKeeps ==
    ASSUME Types, Taken, NEW t \in Tasks, task[t].handle = None,
           task'[t].handle = None, 
           \A v \in Tasks \ {t} : task'[v] = task[v], request' = request
    PROVE  Taken'
BY DEF Taken

\* A task that holds a handle keeps it or lets it go.
LEMMA HolderKeeps ==
    ASSUME Types, Taken, NEW t \in Tasks,
           task[t].pc \in {"stopping", "clearing", "saving"},
           \/ task'[t] = IdleTask
           \/ /\ task'[t].pc \in {"stopping", "clearing", "saving"}
              /\ task'[t].handle = task[t].handle,
           \A v \in Tasks \ {t} : task'[v] = task[v], request' = request
    PROVE  Taken'
<1>1. CASE task'[t] = IdleTask
  BY <1>1 DEF Taken, IdleTask
<1>2. CASE /\ task'[t].pc \in {"stopping", "clearing", "saving"}
           /\ task'[t].handle = task[t].handle
  BY <1>2 DEF Taken
<1> QED BY <1>1, <1>2

\* Nothing is registered or taken in a new daemon.
LEMMA FreshKeeps ==
    ASSUME Types, Fresh
    PROVE  Registered' /\ Taken'
<1>1. \A r \in Requests : request'[r].pc \in {"new", "gone"}
  BY DEF Types, Fresh, RequestTyped, Request, NewRequest
<1>2. \A i \in Ids : mounts'[i] = None
  BY DEF Fresh
<1>3. \A t \in Tasks : task'[t].pc = "idle" /\ task'[t].handle = None
  BY DEF Fresh, IdleTask
<1>4. Registered'
  BY <1>1, <1>2 DEF Registered
<1>5. Taken'
  BY <1>3 DEF Taken
<1> QED BY <1>4, <1>5

\* A registration: the handle it replaces is stopped and nobody has taken it.
LEMMA RegisterKeeps ==
    ASSUME Types, Registered, Taken, NEW r \in Requests,
           request[r].pc \in {"started", "saving"}, Register(r)
    PROVE  Registered' /\ Taken'
<1> DEFINE id == request[r].id
           old == {mounts[id]} \ {None}
<1>1. id \in Ids
  BY DEF Types, RequestTyped
<1>2. /\ \A q \in old : request[q].pc = "live" /\ request[q].id = id
      /\ r \notin old
  BY <1>1 DEF Registered
<1>3. /\ mounts' = [mounts EXCEPT ![id] = r] /\ task' = task /\ up' = up \ old
      /\ request' = [q \in Requests |->
                        IF q = r THEN [request[r] EXCEPT !.pc = "live", !.read = {}]
                        ELSE IF q \in old THEN [request[q] EXCEPT !.pc = "replaced"]
                        ELSE request[q]]
  BY DEF Register, Stop
<1>4. \A q \in Requests : request[q] \in Request
  BY DEF Types, RequestTyped
<1>5. /\ request'[r].pc = "live" /\ request'[r].id = id
      /\ \A q \in Requests : q \in old => request'[q].pc = "replaced"
      /\ \A q \in Requests : q # r /\ q \notin old => request'[q] = request[q]
  BY <1>2, <1>3, <1>4 DEF Request
<1>6. \A q \in Requests : request'[q].pc \in {"started", "saving", "live"} => q \in up'
  BY <1>2, <1>3, <1>5 DEF Registered
<1>7. ASSUME NEW i \in Ids, mounts'[i] # None
      PROVE  request'[mounts'[i]].pc = "live" /\ request'[mounts'[i]].id = i
  <2>1. CASE i = id
    <3>1. mounts'[i] = r
      BY <1>1, <1>3, <2>1 DEF Types
    <3> QED BY <1>5, <2>1, <3>1
  <2>2. CASE i # id
    <3>1. mounts'[i] = mounts[i]
      BY <1>3, <2>2 DEF Types
    <3>2. /\ mounts[i] \in Requests /\ request[mounts[i]].pc = "live"
          /\ request[mounts[i]].id = i
      BY <1>7, <3>1 DEF Registered, Types
    <3>3. mounts[i] # r /\ mounts[i] \notin old
      BY <1>2, <2>2, <3>2
    <3> QED BY <1>5, <3>1, <3>2, <3>3
  <2> QED BY <2>1, <2>2
<1>8. \A t \in Tasks : task[t].handle # None =>
         request'[task[t].handle] = request[task[t].handle]
  <2> SUFFICES ASSUME NEW t \in Tasks, task[t].handle # None
               PROVE  request'[task[t].handle] = request[task[t].handle]
    OBVIOUS
  <2>1. task[t].handle \in Requests
    BY DEF Types, TaskTyped, Task
  <2>2. request[task[t].handle].pc \in {"unmounting", "unmounted"}
    BY DEF Taken
  <2> QED BY <1>2, <1>5, <2>1, <2>2
<1>9. Registered'
  BY <1>6, <1>7 DEF Registered
<1>10. Taken'
  <2>1. task' = task
    BY <1>3
  <2>2. \A t \in Tasks : task[t].handle # None =>
           request'[task[t].handle].pc = request[task[t].handle].pc
    BY <1>8
  <2> QED BY <2>1, <2>2 DEF Taken
<1> QED BY <1>9, <1>10

\* Every step keeps what the registry and the tasks hold.
LEMMA HandlesStep ==
    ASSUME Types, Registered, Taken, [Next]_vars
    PROVE  Registered' /\ Taken'
<1>1. CASE UNCHANGED vars
  BY <1>1 DEF Registered, Taken, vars
<1>2. ASSUME NEW r \in Requests, NEW i \in Ids, NEW b \in Backends, Prepare(r, i, b)
      PROVE  Registered' /\ Taken'
  <2>1. /\ request'[r].pc = "fetching"
        /\ \A q \in Requests \ {r} : request'[q] = request[q]
    BY <1>2 DEF Prepare, Types, NewRequest
  <2> QED BY <1>2, <2>1, RequestKeeps DEF Prepare
<1>3. ASSUME NEW r \in Requests, FetchFails(r) PROVE Registered' /\ Taken'
  BY <1>3, AtValues, RequestKeeps DEF FetchFails
<1>4. ASSUME NEW r \in Requests, FetchReturns(r) PROVE Registered' /\ Taken'
  BY <1>4, AtValues, RequestKeeps DEF FetchReturns
<1>5. ASSUME NEW r \in Requests, BackendFails(r) PROVE Registered' /\ Taken'
  BY <1>5, AtValues, RequestKeeps DEF BackendFails
<1>6. ASSUME NEW r \in Requests, StartNfs(r) PROVE Registered' /\ Taken'
  BY <1>6, AtValues, RequestKeeps DEF StartNfs
<1>7. ASSUME NEW r \in Requests, InsertNfs(r) PROVE Registered' /\ Taken'
  BY <1>7, RegisterKeeps DEF InsertNfs
<1>8. ASSUME NEW r \in Requests, StartFskit(r) PROVE Registered' /\ Taken'
  BY <1>8, AtValues, RequestKeeps DEF StartFskit
<1>9. ASSUME NEW r \in Requests, AddRead(r) PROVE Registered' /\ Taken'
  <2>1. request[r] \in Request
    BY DEF Types, RequestTyped
  <2>2. request' = [request EXCEPT ![r] = [request[r] EXCEPT !.pc = "saving", !.read = entries]]
    BY <1>9 DEF AddRead
  <2>3. request'[r].pc = "saving" /\ \A q \in Requests \ {r} : request'[q] = request[q]
    BY <2>1, <2>2 DEF Types, Request
  <2>4. r \in up
    BY <1>9 DEF AddRead, Registered
  <2> QED BY <1>9, <2>3, <2>4, RequestKeeps DEF AddRead
<1>10. ASSUME NEW r \in Requests, AddWriteInsert(r) PROVE Registered' /\ Taken'
  BY <1>10, RegisterKeeps DEF AddWriteInsert
<1>11. ASSUME NEW r \in Requests, Eject(r) PROVE Registered' /\ Taken'
  <2>1. UNCHANGED <<mounts, request, task, up>>
    BY <1>11 DEF Eject
  <2> QED BY <2>1 DEF Registered, Taken
<1>12. ASSUME NEW t \in Tasks, NEW i \in Ids, UnmountRpc(t, i)
       PROVE  Registered' /\ Taken'
  <2>1. /\ task[t].pc = "idle" /\ UNCHANGED <<mounts, request, up>>
        /\ task' = [task EXCEPT ![t] = [task[t] EXCEPT !.pc = "resolved", !.id = i]]
    BY <1>12 DEF UnmountRpc
  <2>2. task[t] \in Task /\ task[t].handle = None
    BY <2>1 DEF Types, TaskTyped, Taken
  <2>3. task'[t].handle = None /\ \A v \in Tasks \ {t} : task'[v] = task[v]
    BY <2>1, <2>2 DEF Types, Task
  <2> QED BY <2>1, <2>2, <2>3, HandlelessKeeps DEF Registered
<1>13. ASSUME NEW t \in Tasks, NEW r \in Requests, Watch(t, r)
       PROVE  Registered' /\ Taken'
  <2>1. /\ task[t].pc = "idle" /\ UNCHANGED <<mounts, request, up>>
        /\ task' = [task EXCEPT ![t] = [task[t] EXCEPT !.pc = "resolved",
                                           !.id = request[r].id, !.watched = r]]
    BY <1>13 DEF Watch
  <2>2. task[t] \in Task /\ task[t].handle = None
    BY <2>1 DEF Types, TaskTyped, Taken
  <2>3. task'[t].handle = None /\ \A v \in Tasks \ {t} : task'[v] = task[v]
    BY <2>1, <2>2 DEF Types, Task
  <2> QED BY <2>1, <2>2, <2>3, HandlelessKeeps DEF Registered
<1>14. ASSUME NEW t \in Tasks, RemoveNothing(t) PROVE Registered' /\ Taken'
  <2>1. task[t].pc = "resolved" /\ UNCHANGED <<mounts, request, up>>
        /\ task' = [task EXCEPT ![t] = IdleTask]
    BY <1>14 DEF RemoveNothing
  <2>2. task[t].handle = None
    BY <2>1 DEF Taken
  <2>3. task'[t].handle = None /\ \A v \in Tasks \ {t} : task'[v] = task[v]
    BY <2>1 DEF Types, IdleTask
  <2> QED BY <2>1, <2>2, <2>3, HandlelessKeeps DEF Registered
<1>15. ASSUME NEW t \in Tasks, Remove(t) PROVE Registered' /\ Taken'
  <2> DEFINE id == task[t].id
             r == mounts[id]
  <2>1. /\ task[t].pc = "resolved" /\ r # None /\ up' = up
        /\ mounts' = [mounts EXCEPT ![id] = None] /\ request' = At(r, "unmounting")
        /\ task' = [task EXCEPT ![t] = [task[t] EXCEPT !.pc = "removed", !.handle = r]]
    BY <1>15 DEF Remove
  <2>2. id \in Ids /\ task[t] \in Task
    BY <2>1 DEF Types, TaskTyped
  <2>3. r \in Requests /\ request[r].pc = "live" /\ request[r].id = id
    BY <2>1, <2>2 DEF Types, Registered
  <2>4. /\ request'[r].pc = "unmounting"
        /\ \A q \in Requests \ {r} : request'[q] = request[q]
    BY <2>1, <2>3, AtValues
  <2>5. /\ task'[t].pc = "removed" /\ task'[t].handle = r
        /\ \A v \in Tasks \ {t} : task'[v] = task[v]
    BY <2>1, <2>2 DEF Types, Task
  <2>6. \A i \in Ids : mounts'[i] # None => mounts'[i] = mounts[i] /\ i # id
    BY <2>1, <2>2 DEF Types
  <2>7. \A i \in Ids : mounts'[i] # None => mounts[i] \in Requests \ {r}
    <3>1. TAKE i \in Ids
    <3>2. HAVE mounts'[i] # None
    <3>3. mounts[i] # None /\ i # id
      BY ONLY <2>6, <3>1, <3>2
    <3>4. mounts[i] \in Requests
      BY <3>1, <3>3 DEF Types
    <3>5. request[mounts[i]].id = i
      BY <3>1, <3>3 DEF Registered
    <3> QED BY ONLY <2>3, <3>3, <3>4, <3>5
  <2>8. \A v \in Tasks : task[v].handle # r
    BY <2>1, <2>3 DEF Taken
  <2>9. \A v \in Tasks : task[v].handle # None => task[v].handle \in Requests \ {r}
    BY <2>8 DEF Types, TaskTyped, Task
  <2> HIDE DEF r, id
  <2>10. Registered'
    BY <2>1, <2>4, <2>6, <2>7 DEF Registered
  <2>11. Taken'
    <3>1. \A v \in Tasks \ {t} : task[v].handle # None =>
             request'[task[v].handle] = request[task[v].handle]
      BY <2>4, <2>9
    <3> QED BY <2>4, <2>5, <2>8, <3>1 DEF Taken
  <2> QED BY <2>10, <2>11
<1>16. ASSUME NEW t \in Tasks, Unregister(t) PROVE Registered' /\ Taken'
  <2> DEFINE r == task[t].handle
  <2>1. /\ task[t].pc = "removed" /\ UNCHANGED <<mounts, up>>
        /\ request' = At(r, "unmounted")
        /\ task' = [task EXCEPT ![t] = [task[t] EXCEPT !.pc = "stopping"]]
    BY <1>16 DEF Unregister, Become
  <2>2. task[t] \in Task /\ r \in Requests /\ r # None
    BY <2>1, MountsAssumption DEF Types, TaskTyped
  <2>3. request[r].pc = "unmounting"
    BY <2>1, <2>2 DEF Taken
  <2>4. /\ request'[r].pc = "unmounted"
        /\ \A q \in Requests \ {r} : request'[q] = request[q]
    BY <2>1, <2>2, AtValues
  <2>5. /\ task'[t].pc = "stopping" /\ task'[t].handle = r
        /\ \A v \in Tasks \ {t} : task'[v] = task[v]
    BY <2>1, <2>2 DEF Types, Task
  <2>6. \A i \in Ids : mounts[i] # None => mounts[i] \in Requests \ {r}
    BY <2>3 DEF Types, Registered
  <2>7. \A v \in Tasks \ {t} : task[v].handle # None => task[v].handle \in Requests \ {r}
    BY <2>2 DEF Types, TaskTyped, Task, Taken
  <2>8. Registered'
    BY <2>1, <2>4, <2>6 DEF Registered
  <2>9. Taken'
    <3>1. \A v \in Tasks \ {t} : task[v].handle # None =>
             request'[task[v].handle] = request[task[v].handle]
      BY <2>4, <2>7
    <3>2. \A v \in Tasks \ {t} : task[v].handle # r
      BY <2>2 DEF Taken
    <3> HIDE DEF r
    <3> QED BY <2>4, <2>5, <3>1, <3>2 DEF Taken
  <2> QED BY <2>8, <2>9
<1>17. ASSUME NEW t \in Tasks, Shutdown(t) PROVE Registered' /\ Taken'
  <2> DEFINE r == task[t].handle
  <2>1. /\ task[t].pc = "stopping" /\ UNCHANGED <<mounts, request>> /\ up' = up \ {r}
        /\ \/ task' = [task EXCEPT ![t] = [task[t] EXCEPT !.pc = "clearing"]]
           \/ task' = [task EXCEPT ![t] = IdleTask]
    BY <1>17 DEF Shutdown, Become, Stop
  <2>2. task[t] \in Task /\ r \in Requests /\ r # None
    BY <2>1, MountsAssumption DEF Types, TaskTyped
  <2>3. request[r].pc = "unmounted"
    BY <2>1, <2>2 DEF Taken
  <2>4. /\ \A v \in Tasks \ {t} : task'[v] = task[v]
        /\ \/ task'[t] = IdleTask
           \/ task'[t].pc = "clearing" /\ task'[t].handle = r
    BY <2>1, <2>2 DEF Types, Task
  <2>5. Registered'
    BY <2>1, <2>3 DEF Registered
  <2> QED BY <2>1, <2>4, <2>5, HolderKeeps
<1>18. ASSUME NEW t \in Tasks, RemoveVolumeRead(t) PROVE Registered' /\ Taken'
  <2>1. /\ task[t].pc = "clearing" /\ UNCHANGED <<mounts, request, up>>
        /\ \/ task' = [task EXCEPT ![t] = [task[t] EXCEPT !.pc = "saving", !.read = entries]]
           \/ task' = [task EXCEPT ![t] = IdleTask]
    BY <1>18 DEF RemoveVolumeRead
  <2>2. task[t] \in Task
    BY DEF Types, TaskTyped
  <2>3. /\ \A v \in Tasks \ {t} : task'[v] = task[v]
        /\ \/ task'[t] = IdleTask
           \/ task'[t].pc = "saving" /\ task'[t].handle = task[t].handle
    BY <2>1, <2>2 DEF Types, Task
  <2> QED BY <2>1, <2>3, HolderKeeps DEF Registered
<1>19. ASSUME NEW t \in Tasks, RemoveVolumeWrite(t) PROVE Registered' /\ Taken'
  <2>1. /\ task[t].pc = "saving" /\ UNCHANGED <<mounts, request, up>>
        /\ task' = [task EXCEPT ![t] = IdleTask]
    BY <1>19 DEF RemoveVolumeWrite
  <2>2. task'[t] = IdleTask /\ \A v \in Tasks \ {t} : task'[v] = task[v]
    BY <2>1 DEF Types
  <2> QED BY <2>1, <2>2, HolderKeeps DEF Registered
<1>20. CASE CrashAndRestart
  BY <1>20, FreshKeeps DEF CrashAndRestart
<1>21. CASE StopAndRestart
  BY <1>21, FreshKeeps DEF StopAndRestart
<1> QED
  BY <1>1, <1>2, <1>3, <1>4, <1>5, <1>6, <1>7, <1>8, <1>9, <1>10, <1>11, <1>12,
     <1>13, <1>14, <1>15, <1>16, <1>17, <1>18, <1>19, <1>20, <1>21
  DEF Next, Serve, Teardown

-----------------------------------------------------------------------------
\* The balance of registrations.

\* Nobody holds a registration when all requests are new or gone.
LEMMA BalanceEmpty ==
    ASSUME NEW rq, NEW rc, \A r \in Requests : rq[r].pc \in {"new", "gone"},
           \A k \in Repos : rc[k] = 0
    PROVE  Balanced(rq, rc)
<1>1. \A k \in Repos : HoldersOf(rq, k) = {}
  BY DEF HoldersOf, Holding, Lost
<1> QED BY <1>1, FS_EmptySet DEF Balanced

\* A request that goes on holding keeps the balance.
LEMMA HoldingKept ==
    ASSUME Types, Balanced(request, refcount), NEW r \in Requests,
           request[r].pc \in Holding, request'[r].pc \in Holding,
           request'[r].id = request[r].id,
           \A q \in Requests \ {r} : request'[q] = request[q],
           refcount' = refcount
    PROVE  Balanced(request', refcount')
<1>1. \A q \in Requests : /\ request'[q].pc \in Holding <=> request[q].pc \in Holding
                          /\ request'[q].id = request[q].id
  OBVIOUS
<1>2. Balanced(request', refcount)
  BY <1>1, BalanceKept
<1> QED BY <1>2

\* Registering a handle moves its request, and the one it replaces, among
\* the holders.
LEMMA RegisterBalanced ==
    ASSUME Types, Registered, Balanced(request, refcount), NEW r \in Requests,
           request[r].pc \in {"started", "saving"}, Register(r)
    PROVE  Balanced(request', refcount')
<1> DEFINE id == request[r].id
           old == {mounts[id]} \ {None}
<1>1. id \in Ids
  BY DEF Types, RequestTyped
<1>2. \A q \in old : request[q].pc = "live"
  BY <1>1 DEF Registered
<1>3. /\ refcount' = refcount
      /\ request' = [q \in Requests |->
                        IF q = r THEN [request[r] EXCEPT !.pc = "live", !.read = {}]
                        ELSE IF q \in old THEN [request[q] EXCEPT !.pc = "replaced"]
                        ELSE request[q]]
  BY DEF Register
<1>4. \A q \in Requests : request[q] \in Request
  BY DEF Types, RequestTyped
<1>5. \A q \in Requests : /\ request'[q].pc \in Holding <=> request[q].pc \in Holding
                          /\ request'[q].id = request[q].id
  BY <1>2, <1>3, <1>4 DEF Request, Holding, Lost
<1>6. Balanced(request', refcount)
  BY <1>5, BalanceKept, SMTT(30)
<1> QED BY <1>3, <1>6

\* Every step keeps the balance.
LEMMA BalanceStep ==
    ASSUME Types, Registered, Taken, Balanced(request, refcount), [Next]_vars
    PROVE  Balanced(request', refcount')
<1>1. CASE UNCHANGED <<request, refcount>>
  BY <1>1
<1>2. ASSUME NEW r \in Requests, NEW i \in Ids, NEW b \in Backends, Prepare(r, i, b)
      PROVE  Balanced(request', refcount')
  <2>1. /\ request'[r].pc = "fetching" /\ request'[r].id = i
        /\ \A q \in Requests \ {r} : request'[q] = request[q]
    BY <1>2 DEF Prepare, Types, NewRequest
  <2>2. request[r].pc \notin Holding /\ request'[r].pc \in Holding
    BY <1>2, <2>1 DEF Prepare, Holding, Lost
  <2>3. Balanced(request', [refcount EXCEPT ![RepoOf[request'[r].id]] = @ + 1])
    BY <2>1, <2>2, BalanceAdded DEF Types
  <2> QED BY <1>2, <2>1, <2>3 DEF Prepare
<1>3. ASSUME NEW r \in Requests, FetchFails(r) PROVE Balanced(request', refcount')
  <2>1. /\ request[r].pc = "fetching" /\ request'[r].pc = "failed"
        /\ \A q \in Requests \ {r} : request'[q] = request[q]
    BY <1>3, AtValues DEF FetchFails
  <2>2. request[r].pc \in Holding /\ request'[r].pc \notin Holding
    BY <2>1 DEF Holding, Lost
  <2>3. Balanced(request', Released(Repo(r)))
    BY <2>1, <2>2, BalanceDropped DEF Types, Released, Repo
  <2> QED BY <1>3, <2>3 DEF FetchFails
<1>4. ASSUME NEW r \in Requests, FetchReturns(r) PROVE Balanced(request', refcount')
  BY <1>4, AtValues, HoldingKept DEF FetchReturns, Holding, Lost
<1>5. ASSUME NEW r \in Requests, BackendFails(r) PROVE Balanced(request', refcount')
  BY <1>5, AtValues, HoldingKept DEF BackendFails, Holding, Lost
<1>6. ASSUME NEW r \in Requests, StartNfs(r) PROVE Balanced(request', refcount')
  BY <1>6, AtValues, HoldingKept DEF StartNfs, Holding, Lost
<1>7. ASSUME NEW r \in Requests, InsertNfs(r) PROVE Balanced(request', refcount')
  BY <1>7, RegisterBalanced DEF InsertNfs
<1>8. ASSUME NEW r \in Requests, StartFskit(r) PROVE Balanced(request', refcount')
  BY <1>8, AtValues, HoldingKept DEF StartFskit, Holding, Lost
<1>9. ASSUME NEW r \in Requests, AddRead(r) PROVE Balanced(request', refcount')
  <2>1. request[r] \in Request
    BY DEF Types, RequestTyped
  <2>2. /\ request[r].pc = "started" /\ refcount' = refcount
        /\ request' = [request EXCEPT ![r] =
                          [request[r] EXCEPT !.pc = "saving", !.read = entries]]
    BY <1>9 DEF AddRead
  <2>3. /\ request'[r].pc = "saving" /\ request'[r].id = request[r].id
        /\ \A q \in Requests \ {r} : request'[q] = request[q]
    BY <2>1, <2>2 DEF Types, Request
  <2> QED BY <2>2, <2>3, HoldingKept DEF Holding, Lost
<1>10. ASSUME NEW r \in Requests, AddWriteInsert(r) PROVE Balanced(request', refcount')
  BY <1>10, RegisterBalanced DEF AddWriteInsert
<1>15. ASSUME NEW t \in Tasks, Remove(t) PROVE Balanced(request', refcount')
  <2> DEFINE r == mounts[task[t].id]
  <2>1. task[t].pc = "resolved" /\ r # None /\ request' = At(r, "unmounting")
        /\ refcount' = refcount
    BY <1>15 DEF Remove
  <2>2. task[t].id \in Ids
    BY <2>1 DEF Types, TaskTyped
  <2>3. r \in Requests /\ request[r].pc = "live"
    BY <2>1, <2>2, ZenonT(60) DEF Types, Registered
  <2> QED BY <2>1, <2>3, AtValues, HoldingKept DEF Holding, Lost
<1>16. ASSUME NEW t \in Tasks, Unregister(t) PROVE Balanced(request', refcount')
  <2> DEFINE r == task[t].handle
  <2>1. /\ task[t].pc = "removed" /\ request' = At(r, "unmounted")
        /\ refcount' = Released(Repo(r))
    BY <1>16 DEF Unregister
  <2>2. r \in Requests /\ request[r].pc = "unmounting"
    BY <2>1, MountsAssumption DEF Types, TaskTyped, Taken
  <2>3. /\ request'[r].pc = "unmounted"
        /\ \A q \in Requests \ {r} : request'[q] = request[q]
    BY <2>1, <2>2, AtValues
  <2>4. request[r].pc \in Holding /\ request'[r].pc \notin Holding
    BY <2>2, <2>3 DEF Holding, Lost
  <2>5. Balanced(request', Released(Repo(r)))
    BY <2>2, <2>3, <2>4, BalanceDropped DEF Types, Released, Repo
  <2> QED BY <2>1, <2>5
<1>20. CASE Fresh
  <2>1. \A r \in Requests : request'[r].pc \in {"new", "gone"}
    BY <1>20 DEF Types, Fresh, RequestTyped, Request, NewRequest
  <2>2. \A k \in Repos : refcount'[k] = 0
    BY <1>20 DEF Fresh
  <2> QED BY <2>1, <2>2, BalanceEmpty
<1> QED
  BY <1>1, <1>2, <1>3, <1>4, <1>5, <1>6, <1>7, <1>8, <1>9, <1>10, <1>15, <1>16, <1>20
  DEF Next, Serve, Teardown, vars, Eject, UnmountRpc, Watch, RemoveNothing, Shutdown,
      RemoveVolumeRead, RemoveVolumeWrite, CrashAndRestart, StopAndRestart

-----------------------------------------------------------------------------
\* The inductive invariant.
IInv == Types /\ Registered /\ Taken /\ Balanced(request, refcount)

\* A new daemon satisfies it.
LEMMA InitIInv == Init => IInv
<1> SUFFICES ASSUME Init PROVE IInv
  OBVIOUS
<1>1. NewRequest \in Request /\ NewRequest.pc = "new"
  BY DEF NewRequest, Request
<1>2. \A r \in Requests : request[r] = NewRequest
  BY DEF Init
<1>3. IdleTask \in Task /\ IdleTask.pc = "idle" /\ IdleTask.handle = None
  BY DEF IdleTask, Task
<1>4. \A t \in Tasks : task[t] = IdleTask
  BY DEF Init
<1>5. Types
  <2>1. \A r \in Requests : RequestTyped(request[r])
    BY <1>1, <1>2 DEF RequestTyped
  <2>2. \A t \in Tasks : TaskTyped(task[t])
    BY <1>3, <1>4 DEF TaskTyped
  <2> QED BY <2>1, <2>2, MountsAssumption DEF Init, Types
<1>6. Registered
  BY <1>1, <1>2 DEF Init, Registered
<1>7. Taken
  BY <1>3, <1>4 DEF Taken
<1>8. Balanced(request, refcount)
  BY <1>1, <1>2, BalanceEmpty DEF Init
<1> QED BY <1>5, <1>6, <1>7, <1>8 DEF IInv

\* Every step keeps it.
LEMMA NextIInv == IInv /\ [Next]_vars => IInv'
<1> SUFFICES ASSUME IInv, [Next]_vars PROVE IInv'
  OBVIOUS
<1>1. Types'
  BY TypesStep DEF IInv
<1>2. Registered' /\ Taken'
  BY HandlesStep DEF IInv
<1>3. Balanced(request', refcount')
  BY BalanceStep DEF IInv
<1>4. Balanced(request, refcount)'
  BY <1>3 DEF Balanced, HoldersOf
<1> QED BY <1>1, <1>2, <1>4 DEF IInv

\* It holds in every reachable state.
LEMMA AlwaysIInv == Spec => []IInv
BY InitIInv, NextIInv, PTL DEF Spec

\* Whoever holds a registration is active or lost.
LEMMA SameHolders ==
    ASSUME NEW k
    PROVE  /\ Active(k) \cup Dangling(k) = HoldersOf(request, k)
           /\ Active(k) \cap Dangling(k) = {}
BY DEF Active, Dangling, HoldersOf, Repo, Holding

\* Type correctness of the registry, the requests and the tasks, with no more
\* registrations than requests.
THEOREM TypeCorrect == Spec => []TypeOK
<1>1. IInv => TypeOK
  <2> SUFFICES ASSUME IInv PROVE TypeOK
    OBVIOUS
  <2>1. request \in [Requests -> Request] /\ task \in [Tasks -> Task]
    BY DEF IInv, Types, RequestTyped, TaskTyped
  <2>2. refcount \in [Repos -> 0..Cardinality(Requests)]
    BY HoldersFinite DEF IInv, Types, Balanced
  <2> QED BY <2>1, <2>2 DEF IInv, Types, TypeOK
<1> QED BY <1>1, AlwaysIInv, PTL

\* register_mount and unregister_mount balance but for lost mounts: a
\* repository's refcount is its active mounts and the ones whose backend failed
\* or that another mount replaced.
THEOREM BalanceCorrect == Spec => []OnlyLostMountsDangle
<1>1. ASSUME IInv, NEW k \in Repos
      PROVE  refcount[k] = Cardinality(Active(k)) + Cardinality(Dangling(k))
  <2>1. /\ IsFiniteSet(HoldersOf(request, k))
        /\ refcount[k] = Cardinality(HoldersOf(request, k))
    BY <1>1, HoldersFinite DEF IInv, Types, Balanced
  <2>2. IsFiniteSet(Active(k)) /\ IsFiniteSet(Dangling(k))
    BY <2>1, SameHolders, FS_Subset
  <2>3. Cardinality(Active(k) \cup Dangling(k))
           = Cardinality(Active(k)) + Cardinality(Dangling(k)) - Cardinality(Active(k) \cap Dangling(k))
    BY <2>2, FS_Union
  <2>4. Cardinality(Active(k) \cap Dangling(k)) = 0
    BY SameHolders, FS_EmptySet
  <2>5. Cardinality(Active(k)) \in Nat /\ Cardinality(Dangling(k)) \in Nat
    BY <2>2, FS_CardinalityType
  <2>6. Active(k) \cup Dangling(k) = HoldersOf(request, k)
    BY SameHolders
  <2>7. Cardinality(Active(k) \cup Dangling(k)) = Cardinality(Active(k)) + Cardinality(Dangling(k))
    BY ONLY <2>3, <2>4, <2>5
  <2> QED BY ONLY <2>1, <2>6, <2>7
<1>2. IInv => OnlyLostMountsDangle
  BY <1>1 DEF OnlyLostMountsDangle
<1> QED BY <1>2, AlwaysIInv, PTL

\* What the registry has under an id is a live request with that id.
LEMMA ListedIsLive ==
    ASSUME IInv, NEW i \in Ids, mounts[i] # None
    PROVE  /\ mounts[i] \in Requests
           /\ request[mounts[i]].pc = "live" /\ request[mounts[i]].id = i
<1>1. mounts \in [Ids -> Requests \cup {None}] /\ Registered
  BY DEF IInv, Types
<1>2. mounts[i] \in Requests
  BY ONLY <1>1, i \in Ids, mounts[i] # None
<1>3. request[mounts[i]].pc = "live" /\ request[mounts[i]].id = i
  BY ONLY <1>1, i \in Ids, mounts[i] # None DEF Registered
<1> QED BY ONLY <1>2, <1>3

\* A registered mount's repository has a reservation entry, so eviction
\* protects its blobs until its own unmount.
THEOREM ReservationKept == Spec => []MountsKeepReservations
<1>1. IInv => MountsKeepReservations
  <2> SUFFICES ASSUME IInv, NEW i \in Ids, mounts[i] # None
               PROVE  refcount[RepoOf[i]] > 0
    BY DEF MountsKeepReservations
  <2> DEFINE r == mounts[i]
             k == RepoOf[i]
  <2>1. r \in Requests /\ request[r].pc = "live" /\ request[r].id = i
    BY ListedIsLive
  <2>2. r \in HoldersOf(request, k)
    BY <2>1 DEF HoldersOf, Holding, Lost
  <2>3. k \in Repos
    BY MountsAssumption
  <2>4. HoldersOf(request, k) # {}
    BY <2>2
  <2>5. /\ Cardinality(HoldersOf(request, k)) # 0
        /\ Cardinality(HoldersOf(request, k)) \in 0..Cardinality(Requests)
    BY <2>4, HoldersFinite, FS_EmptySet
  <2>6. refcount[k] = Cardinality(HoldersOf(request, k)) /\ refcount[k] \in Nat
    BY <2>3 DEF IInv, Types, Balanced
  <2> QED BY <2>5, <2>6
<1> QED BY <1>1, AlwaysIInv, PTL

\* What the registry lists has its backend running and no task tearing it
\* down.
THEOREM ListedServe == Spec => []ListedMountsServe
<1>1. IInv => ListedMountsServe
  <2> SUFFICES ASSUME IInv, NEW i \in Ids, mounts[i] # None
               PROVE  /\ mounts[i] \in up
                      /\ request[mounts[i]].id = i
                      /\ \A t \in Tasks : task[t].handle # mounts[i]
    BY DEF ListedMountsServe
  <2>1. /\ mounts[i] \in Requests /\ request[mounts[i]].pc = "live"
        /\ request[mounts[i]].id = i
    BY ListedIsLive
  <2>2. mounts[i] \in up
    BY <2>1 DEF IInv, Registered
  <2>3. \A t \in Tasks : task[t].handle # mounts[i]
    BY <2>1 DEF IInv, Taken
  <2> QED BY <2>1, <2>2, <2>3
<1> QED BY <1>1, AlwaysIInv, PTL
=============================================================================
