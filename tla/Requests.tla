------------------------------ MODULE Requests ------------------------------
(***************************************************************************)
(* What a mount request asks of the network, up to the snapshot fetch, and *)
(* how the daemon accounts for it: prepare_mount's resolution of a package *)
(* through the resolution cache and the npm, PyPI and crates.io resolvers, *)
(* GitHubProvider's resolution of the git ref, and check_rate_limit, which *)
(* counts every answer of the GitHub API in the bucket the provider's      *)
(* counter key names and remembers a throttle.                             *)
(*                                                                         *)
(* The counter table is a DashMap of Arcs: a bucket is looked up in one    *)
(* step and added to in another, and the placeholder bucket of a ref that  *)
(* is being resolved is removed by whoever resolved it.  Steps of several  *)
(* mounts interleave; a mount makes one request at a time (requests of one *)
(* mount that overlap share a bucket that is never removed).               *)
(*                                                                         *)
(* One package, released as versions 1, 2, ... to every registry at once,  *)
(* from one repository whose branch is at the last release.                *)
(***************************************************************************)
EXTENDS Naturals, Sequences, FiniteSetsExt

CONSTANTS
    Mounts,         \* mount requests
    Specs,          \* the sources they name
    GitHeads,       \* versions whose npm metadata has a gitHead
    Nothing,        \* no entry, bucket, call or time
    TTL,            \* config.latest_ttl_secs
    MaxVersion,     \* bound: releases
    MaxTime,        \* bound: the clock
    MaxEvents,      \* bound: requests, restarts and failures
    MaxCalls        \* bound: answers of the GitHub API

Versions == 1..MaxVersion
Times == 0..MaxTime
Registries == {"npm", "pypi", "crate"}

\* A parsed SourceSpec: version 0 stands for "latest" or, of a github source,
\* for the branch.
SourceSpec == [provider : Registries \cup {"github"}, version : 0..MaxVersion]

ASSUME RequestsAssumption ==
    /\ IsFiniteSet(Mounts)
    /\ Specs \subseteq SourceSpec
    /\ {TTL, MaxTime, MaxEvents, MaxCalls} \subseteq Nat
    /\ GitHeads \subseteq Versions
    /\ MaxVersion \in Nat \ {0}
    /\ Nothing \notin Nat \cup Seq(Nat)

VARIABLES
    clock,      \* now_secs()
    since,      \* when each version was released, None before that
    entries,    \* ResolutionCache::entries
    file,       \* the resolution cache's JSON file
    mount,      \* the mount requests
    events,     \* requests, restarts and failures
    table,      \* Observability::counters
    buckets,    \* every MountCounters made, in the table or not
    throttled,  \* the gauge's secondary_throttle_state is Active
    answered,   \* history: answers received for each git ref
    crossed,    \* history: refs two mounts were resolving at once
    slowest     \* history: the longest time from an answer to its entry

requestsVars == <<clock, since, entries, file, mount, events, table, buckets,
          throttled, answered, crossed, slowest>>

-----------------------------------------------------------------------------
\* Git refs, and the commit "resolving" of a placeholder CounterKey.
Refs == ({"tag", "head"} \X Versions) \cup {<<"branch", 0>>}
Commits == Versions
Resolving == 0
CounterKey == Refs \X (Commits \cup {Resolving})

MountCounters == [rest : Nat, throttles : Nat]
NewCounters == [rest |-> 0, throttles |-> 0]

Released == {v \in Versions : since[v] # Nothing}
Last == Max(Released)

\* is_latest, from the source as the user wrote it.
IsLatest(s) == s.provider # "github" /\ s.version = 0

\* CachedResolution: `asked` remembers when the registry named the version.
CachedResolution == [ref : Refs, version : Versions, at : Times,
                     latest : BOOLEAN, asked : Times]

\* get: a pinned entry does not expire, a latest one does after the TTL.
Hit(s) ==
    /\ s.provider # "github"
    /\ entries[s] # Nothing
    /\ entries[s].latest => clock - entries[s].at <= TTL

\* A request, the call it has under way and what is remembered of it.
Call == [step : {"rest", "mark", "throttle"}, bucket : Nat,
         result : {"Ok", "Throttled", "Err"}]

ASSUME NoCallAssumption == Nothing \notin Call

Mount == [pc : {"idle", "latest", "resolve", "put", "resolving", "dropping",
                "merging", "content"},
          spec : Specs \cup {Nothing},
          version : 0..MaxVersion,
          ref : Refs \cup {Nothing},
          commit : Commits \cup {Resolving},
          looked : Times,
          asked : Times,
          held : Nat,
          call : Call \cup {Nothing}]

NewMount == [pc |-> "idle", spec |-> Nothing, version |-> 0, ref |-> Nothing,
             commit |-> Resolving, looked |-> 0, asked |-> 0, held |-> 0,
             call |-> Nothing]

\* Requests whose counter key is the placeholder, or which are folding it in.
Window == {"resolving", "dropping", "merging"}

RequestsInit ==
    /\ clock = 0
    /\ since = [v \in Versions |-> IF v = 1 THEN 0 ELSE Nothing]
    /\ entries = [s \in Specs |-> Nothing]
    /\ file = [s \in Specs |-> Nothing]
    /\ mount = [m \in Mounts |-> NewMount]
    /\ events = 0
    /\ table = [k \in CounterKey |-> 0]
    /\ buckets = <<>>
    /\ throttled = FALSE
    /\ answered = [r \in Refs |-> NewCounters]
    /\ crossed = {}
    /\ slowest = 0

accounts == <<table, buckets, throttled, answered>>

-----------------------------------------------------------------------------
(* prepare_mount: the package's git ref.                                   *)

\* m's fetch_snapshot_inner starts on `ref`: the placeholder key is set.
StartFetch(m, with) ==
    /\ mount' = [mount EXCEPT ![m] = with]
    /\ crossed' = IF \E n \in Mounts \ {m} : mount[n].pc \in Window /\ mount[n].ref = with.ref
                  THEN crossed \cup {with.ref} ELSE crossed

\* The source is parsed and looked up.  A github source names its ref.
PrepareMount(m, s) ==
    LET new == [NewMount EXCEPT !.spec = s, !.looked = clock,
                                !.version = s.version]
    IN  /\ mount[m].pc = "idle"
        /\ events < MaxEvents
        /\ events' = events + 1
        /\ \/ /\ s.provider = "github"
              /\ StartFetch(m, [new EXCEPT !.pc = "resolving",
                    !.ref = IF s.version = 0 THEN <<"branch", 0>>
                                             ELSE <<"tag", s.version>>])
           \/ /\ Hit(s)
              /\ StartFetch(m, [new EXCEPT !.pc = "resolving",
                    !.ref = entries[s].ref, !.version = entries[s].version])
           \/ /\ s.provider # "github"
              /\ ~Hit(s)
              /\ mount' = [mount EXCEPT ![m] =
                    [new EXCEPT !.pc = IF IsLatest(s) THEN "latest" ELSE "resolve"]]
              /\ UNCHANGED crossed
        /\ UNCHANGED <<clock, since, entries, file, accounts, slowest>>

\* fetch_registry_json fails: 404, 429, another status, no answer or no JSON;
\* or the answer lacks the field the resolver reads (NoSourceRepo).
RegistryFails(m) ==
    /\ mount[m].pc \in {"latest", "resolve"}
    /\ mount' = [mount EXCEPT ![m] = NewMount]
    /\ UNCHANGED <<clock, since, entries, file, accounts, crossed, slowest, events>>

\* resolve_latest: the version the registry calls the latest.
ResolveLatest(m) ==
    /\ mount[m].pc = "latest"
    /\ mount' = [mount EXCEPT ![m].pc = "resolve", ![m].version = Last,
                              ![m].asked = clock]
    /\ UNCHANGED <<clock, since, entries, file, accounts, crossed, slowest, events>>

\* A resolver's answer: the ref, to be stored.
Resolved(m, ref) ==
    /\ mount' = [mount EXCEPT ![m].pc = "put", ![m].ref = ref]
    /\ UNCHANGED <<clock, since, entries, file, accounts, crossed, slowest, events>>

\* npm: the metadata of this version, its gitHead when it has one, else the
\* tag.
ResolveNpm(m) ==
    /\ mount[m].pc = "resolve"
    /\ mount[m].spec.provider = "npm"
    /\ mount[m].version \in Released
    /\ Resolved(m, <<IF mount[m].version \in GitHeads THEN "head" ELSE "tag",
                     mount[m].version>>)

\* PyPI: the metadata of this version, and the tag.
ResolvePyPI(m) ==
    /\ mount[m].pc = "resolve"
    /\ mount[m].spec.provider = "pypi"
    /\ mount[m].version \in Released
    /\ Resolved(m, <<"tag", mount[m].version>>)

\* crates.io: the metadata of the crate, whatever the version, and the tag.
ResolveCrate(m) ==
    /\ mount[m].pc = "resolve"
    /\ mount[m].spec.provider = "crate"
    /\ Resolved(m, <<"tag", mount[m].version>>)

\* persist: the whole map, by rename; a failure is only logged.
Persist(new) ==
    \/ file' = new /\ UNCHANGED events
    \/ events < MaxEvents /\ events' = events + 1 /\ UNCHANGED file

\* Mutant: is_latest is computed once the version has been filled in.
PutPinned(m) ==
    LET r == mount[m]
        new == [entries EXCEPT ![r.spec] =
                  [ref |-> r.ref, version |-> r.version, at |-> clock,
                   latest |-> FALSE, asked |-> r.asked]]
    IN  /\ r.pc = "put"
        /\ entries' = new
        /\ Persist(new)
        /\ slowest' = IF IsLatest(r.spec) THEN Max({slowest, clock - r.asked})
                      ELSE slowest
        /\ StartFetch(m, [r EXCEPT !.pc = "resolving"])
        /\ UNCHANGED <<clock, since, accounts>>

\* put, under the cache's mutex; then the snapshot fetch starts.
Put(m) ==
    LET r == mount[m]
        new == [entries EXCEPT ![r.spec] =
                  [ref |-> r.ref, version |-> r.version, at |-> clock,
                   latest |-> IsLatest(r.spec), asked |-> r.asked]]
    IN  /\ r.pc = "put"
        /\ entries' = new
        /\ Persist(new)
        /\ slowest' = IF IsLatest(r.spec) THEN Max({slowest, clock - r.asked})
                      ELSE slowest
        /\ StartFetch(m, [r EXCEPT !.pc = "resolving"])
        /\ UNCHANGED <<clock, since, accounts>>

-----------------------------------------------------------------------------
(* GitHub's answers and their accounting.                                  *)

\* ThrottleClassifier::classify, on what it reads of status and headers.
Classify(a) ==
    CASE a.status = "denied" /\ a.retryAfter -> "Secondary"
      [] a.status # "ok" /\ a.remaining = 0 /\ a.reset -> "Primary"
      [] a.status = "ok" -> "Ok"
      [] OTHER -> "Other"

\* classify_response and get_json's own look at the status.
Result(a) ==
    CASE Classify(a) = "Secondary" -> "Throttled"
      [] Classify(a) = "Ok" -> "Ok"
      [] OTHER -> "Err"

\* `denied` is a 403 or a 429; retryAfter and reset: the header parses.
Answers == [status : {"ok", "denied", "failed"}, retryAfter : BOOLEAN,
            remaining : {Nothing, 0, 1}, reset : BOOLEAN]

Results == {Result(a) : a \in Answers}

\* The provider's counter_key: the placeholder until the ref is resolved.
KeyOf(m) == <<mount[m].ref, mount[m].commit>>

\* Mutant: the bucket is looked up and never made.
BucketIfAny(key) == table[key]

\* counters_for: the key's bucket, made when it has none.
BucketAt(key) == IF table[key] = 0 THEN Len(buckets) + 1 ELSE table[key]
CountersFor(key) ==
    /\ table' = [table EXCEPT ![key] = BucketAt(key)]
    /\ buckets' = IF table[key] = 0 THEN Append(buckets, NewCounters) ELSE buckets

AddTo(b, field) ==
    buckets' = [buckets EXCEPT ![b][field] = @ + 1]

\* The call is over.  A ref's commit is known or the request fails; content
\* (the tree, blobs, and the mount's later reads) fails the request or not.
Return(m) ==
    LET r == [mount[m] EXCEPT !.call = Nothing]
        commit == IF r.ref[1] = "branch" THEN Last ELSE r.ref[2]
    IN  \/ mount[m].call.result # "Ok" /\ mount' = [mount EXCEPT ![m] = NewMount]
        \/ r.pc = "content" /\ mount' = [mount EXCEPT ![m] = r]
        \/ /\ r.pc = "resolving"
           /\ mount[m].call.result = "Ok"
           /\ mount' = [mount EXCEPT ![m] =
                 [NewMount EXCEPT !.pc = "dropping", !.ref = r.ref, !.commit = commit]]

\* get_json's answer arrives and check_rate_limit looks its bucket up.  The
\* tag of a version that is not out does not resolve.
GetJson(m) ==
    LET r == mount[m]
        key == KeyOf(m)
        unknown == r.pc = "resolving" /\ r.ref[1] = "tag" /\ r.ref[2] \notin Released
    IN  /\ r.pc \in {"resolving", "content"}
        /\ r.call = Nothing
        /\ MapThenSumSet(LAMBDA f : answered[f].rest, Refs) < MaxCalls
        /\ \E res \in Results :
              /\ unknown => res # "Ok"
              /\ events' = events + (IF res = "Ok" THEN 0 ELSE 1)
              /\ events' <= MaxEvents
              /\ mount' = [mount EXCEPT ![m].call =
                    [step |-> "rest", bucket |-> BucketAt(key), result |-> res]]
              /\ answered' = [answered EXCEPT ![r.ref] =
                    [rest |-> @.rest + 1,
                     throttles |-> @.throttles + (IF res = "Throttled" THEN 1 ELSE 0)]]
        /\ CountersFor(key)
        /\ UNCHANGED <<clock, since, entries, file, throttled, crossed, slowest>>

\* The request for the ref fails with no answer.
SendFails(m) ==
    /\ mount[m].pc = "resolving"
    /\ mount[m].call = Nothing
    /\ mount' = [mount EXCEPT ![m] = NewMount]
    /\ UNCHANGED <<clock, since, entries, file, accounts, crossed, slowest, events>>

\* record_rest_call on the bucket (update_gauge's figures are only shown).
Record(m) ==
    LET c == mount[m].call
    IN  /\ c # Nothing
        /\ c.step = "rest"
        /\ AddTo(c.bucket, "rest")
        /\ IF c.result = "Throttled"
           THEN mount' = [mount EXCEPT ![m].call.step = "mark"]
           ELSE Return(m)
        /\ UNCHANGED <<clock, since, entries, file, table, throttled, answered,
                       crossed, slowest, events>>

\* mark_secondary_throttle, and the bucket is looked up again.
Mark(m) ==
    /\ mount[m].call # Nothing
    /\ mount[m].call.step = "mark"
    /\ throttled' = TRUE
    /\ mount' = [mount EXCEPT ![m].call.step = "throttle",
                              ![m].call.bucket = BucketAt(KeyOf(m))]
    /\ CountersFor(KeyOf(m))
    /\ UNCHANGED <<clock, since, entries, file, answered, crossed, slowest, events>>

\* record_throttle_event; the call fails as RateLimited.
RecordThrottle(m) ==
    /\ mount[m].call # Nothing
    /\ mount[m].call.step = "throttle"
    /\ AddTo(mount[m].call.bucket, "throttles")
    /\ Return(m)
    /\ UNCHANGED <<clock, since, entries, file, table, throttled, answered, crossed, slowest, events>>

\* Mutant: the placeholder is never folded in.
DropNever(m) ==
    /\ mount[m].pc = "dropping"
    /\ mount' = [mount EXCEPT ![m].pc = "content"]
    /\ UNCHANGED <<clock, since, entries, file, accounts, crossed, slowest, events>>

\* Mutant: the placeholder's bucket is read and left in the table.
DropNothing(m) ==
    LET key == <<mount[m].ref, Resolving>>
    IN  /\ mount[m].pc = "dropping"
        /\ mount' = [mount EXCEPT ![m].pc = IF table[key] = 0 THEN "content" ELSE "merging",
                                  ![m].held = table[key]]
        /\ UNCHANGED <<clock, since, entries, file, accounts, crossed, slowest, events>>

\* merge_and_drop_placeholder: the placeholder leaves the table; without one
\* there is nothing to do.
DropPlaceholder(m) ==
    LET key == <<mount[m].ref, Resolving>>
    IN  /\ mount[m].pc = "dropping"
        /\ mount' = [mount EXCEPT ![m].pc = IF table[key] = 0 THEN "content" ELSE "merging",
                                  ![m].held = table[key]]
        /\ table' = [table EXCEPT ![key] = 0]
        /\ UNCHANGED <<clock, since, entries, file, buckets, throttled, answered,
                       crossed, slowest, events>>

\* merge_from_snapshot: every counter is added.
Merge(counters, snap) ==
    [rest |-> counters.rest + snap.rest,
     throttles |-> counters.throttles + snap.throttles]

\* The rest of it: the removed bucket's snapshot goes into the commit's.
MergeIn(m) ==
    LET key == KeyOf(m)
        snap == buckets[mount[m].held]
    IN  /\ mount[m].pc = "merging"
        /\ table' = [table EXCEPT ![key] = BucketAt(key)]
        /\ buckets' = IF table[key] = 0
                      THEN Append(buckets, Merge(NewCounters, snap))
                      ELSE [buckets EXCEPT ![table[key]] = Merge(@, snap)]
        /\ mount' = [mount EXCEPT ![m].pc = "content", ![m].held = 0]
        /\ UNCHANGED <<clock, since, entries, file, throttled, answered, crossed, slowest, events>>

\* The mount is over, or its snapshot fetch failed with no answer.
Unmount(m) ==
    /\ mount[m].pc = "content"
    /\ mount[m].call = Nothing
    /\ mount' = [mount EXCEPT ![m] = NewMount]
    /\ UNCHANGED <<clock, since, entries, file, accounts, crossed, slowest, events>>

-----------------------------------------------------------------------------
Tick ==
    /\ clock < MaxTime
    /\ clock' = clock + 1
    /\ UNCHANGED <<since, entries, file, mount, accounts, crossed, slowest, events>>

NewRelease ==
    /\ Last < MaxVersion
    /\ since' = [since EXCEPT ![Last + 1] = clock]
    /\ UNCHANGED <<clock, entries, file, mount, accounts, crossed, slowest, events>>

\* The daemon goes down and up: ResolutionCache::load reads the file, a file
\* it cannot parse is a cold start; Observability is in memory only.
Restart ==
    /\ events < MaxEvents
    /\ events' = events + 1
    /\ entries' \in {file, [s \in Specs |-> Nothing]}
    /\ mount' = [m \in Mounts |-> NewMount]
    /\ table' = [k \in CounterKey |-> 0]
    /\ buckets' = <<>>
    /\ throttled' = FALSE
    /\ answered' = [r \in Refs |-> NewCounters]
    /\ crossed' = {}
    /\ UNCHANGED <<clock, since, file, slowest>>

RequestsNext ==
    \/ \E m \in Mounts :
          \/ \E s \in Specs : PrepareMount(m, s)
          \/ RegistryFails(m) \/ ResolveLatest(m)
          \/ ResolveNpm(m) \/ ResolvePyPI(m) \/ ResolveCrate(m) \/ Put(m)
          \/ GetJson(m) \/ SendFails(m)
          \/ Record(m) \/ Mark(m) \/ RecordThrottle(m)
          \/ DropPlaceholder(m) \/ MergeIn(m) \/ Unmount(m)
    \/ Tick
    \/ NewRelease
    \/ Restart

RequestsSpec == RequestsInit /\ [][RequestsNext]_requestsVars

-----------------------------------------------------------------------------
\* Every value is of the code's type, and a bucket that is referred to exists.
RequestsTypeOK ==
    /\ clock \in Times
    /\ since \in [Versions -> Times \cup {Nothing}]
    /\ entries \in [Specs -> CachedResolution \cup {Nothing}]
    /\ file \in [Specs -> CachedResolution \cup {Nothing}]
    /\ mount \in [Mounts -> Mount]
    /\ buckets \in Seq(MountCounters)
    /\ events \in 0..MaxEvents
    /\ table \in [CounterKey -> 0..Len(buckets)]
    /\ throttled \in BOOLEAN
    /\ answered \in [Refs -> MountCounters]
    /\ crossed \subseteq Refs
    /\ slowest \in Times
    /\ \A m \in Mounts : /\ mount[m].held \in 0..Len(buckets)
                         /\ mount[m].call # Nothing => mount[m].call.bucket \in 1..Len(buckets)

\* The buckets of a ref: those in the table and those being folded in.
InTable(r) == {table[<<r, c>>] : c \in Commits \cup {Resolving}} \ {0}
Folding(r) ==
    {mount[m].held : m \in {n \in Mounts : mount[n].ref = r /\ mount[n].pc = "merging"}}
BucketsOf(r) == InTable(r) \cup Folding(r)

\* The sum of one counter over the buckets S of bs: its counts, numbered.
Total(bs, S, field) == Cardinality(UNION {{b} \X (1..bs[b][field]) : b \in S})

\* A request has an answer of r's that it has not yet added.
Owes(x, r, field) ==
    /\ x.ref = r
    /\ x.call # Nothing
    /\ IF field = "rest" THEN x.call.step = "rest" ELSE x.call.result = "Throttled"

Due(r, field) == {m \in Mounts : Owes(mount[m], r, field)}

\* What the status report will show of a ref's calls once the adds under way
\* are made: its buckets, those being folded in, and the adds to come.
Counted(r, field) == Total(buckets, BucketsOf(r), field) + Cardinality(Due(r, field))

\* No answer of the GitHub API is counted twice, and none is lost but for a
\* ref that two mounts were resolving at the same time (rest_calls_total and
\* throttle_events, through merge_and_drop_placeholder's removal of a bucket
\* others may hold).
CallsAreCounted ==
    \A r \in Refs : \A field \in {"rest", "throttles"} :
        /\ Counted(r, field) <= answered[r][field]
        /\ r \notin crossed => Counted(r, field) = answered[r][field]

\* status_report: the summaries leave the placeholders out.
StatusMounts == {k \in CounterKey : table[k] # 0 /\ k[2] # Resolving}

\* A mount past the resolution of its ref is in the report under its commit,
\* its resolve_ref call included, also when an earlier attempt left its
\* placeholder behind (the purpose fetch_snapshot_inner states for seeding
\* and folding in the placeholder bucket).
ResolvesAreShown ==
    \A m \in Mounts :
        mount[m].pc = "content" /\ mount[m].ref \notin crossed =>
            KeyOf(m) \in StatusMounts /\ buckets[table[KeyOf(m)]].rest >= 1

\* A pinned package is mounted at its version.  One mounted as `latest` is at
\* a version that was the latest no longer ago than the TTL plus the longest
\* time a resolution took from the registry's answer to its entry: across
\* restarts, and when two requests resolve it at once and the older answer is
\* stored last (ResolutionCache::get and put).
VersionsAreRight ==
    \A m \in Mounts :
        mount[m].pc \in {"put", "resolving"}
            /\ mount[m].spec.provider # "github" =>
            LET v == mount[m].version
            IN  IF IsLatest(mount[m].spec)
                THEN /\ v \in Released
                     /\ v = Last \/ since[v + 1] + TTL + slowest >= mount[m].looked
                ELSE v = mount[m].spec.version
=============================================================================
