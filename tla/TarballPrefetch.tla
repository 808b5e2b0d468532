--------------------------- MODULE TarballPrefetch ---------------------------
(***************************************************************************)
(* dispatch_tarball_for_requests in crates/ctxfs-provider-git: mounts of   *)
(* one (host, owner, repo, commit) that want its tarball share a download  *)
(* through the singleflight registry.  The first to find the registry      *)
(* empty inserts a slot and leads; whoever enters the slot's OnceCell      *)
(* first downloads, the others wait for its result; the leader removes the *)
(* slot.  The cache is looked at before the claim.  The archive's regular  *)
(* files are verified against the manifest, which also has the links.      *)
(*                                                                         *)
(* A slot is named by its leader.  A caller's future may be dropped; the   *)
(* extraction it started goes on in its blocking thread.                   *)
(***************************************************************************)
EXTENDS Naturals, Sequences

CONSTANTS
    Callers,        \* calls, one per mount
    Paths,          \* paths of the repository
    Blobs,          \* digests of contents
    Tree,           \* the commit's manifest
    Archive,        \* the entries of its tarball
    None,           \* no slot, no caller, no path
    MaxEvictions,   \* bound: blobs evicted
    MaxCancels      \* bound: callers dropped

TreeEntries == [path : Paths, type : {"blob", "tree", "commit"}, sha : Blobs]

\* An entry's name is unsafe (not UTF-8, absolute, with a control character or
\* a ..), or leads under the archive's one directory; None, to it.
TarEntries == [safe : BOOLEAN, path : Paths \cup {None}, sha : Blobs,
               type : {"regular", "directory", "symlink"}]

ASSUME TarballPrefetchAssumption ==
    /\ None \notin Callers
    /\ MaxEvictions \in Nat
    /\ MaxCancels \in Nat

ASSUME ManifestAssumption ==
    /\ None \notin Paths
    /\ Tree \subseteq TreeEntries
    /\ \A d, e \in Tree : d.path = e.path => d = e
    /\ Archive \in Seq(TarEntries)

VARIABLES
    missing,    \* blobs not in the cache
    registry,   \* TarballSingleflightMap at this key
    cell,       \* TarballSlot::cell of each slot
    running,    \* the caller inside the cell's get_or_init
    caller,     \* the calls
    left,       \* how many archive entries a caller's extraction has not read
    downloads,  \* tarball API calls made
    evictions,  \* blobs evicted so far
    cancels     \* callers dropped so far

vars == <<missing, registry, cell, running, caller, left, downloads,
          evictions, cancels>>

-----------------------------------------------------------------------------
TARBALL_REDIRECT_MAX_DEPTH == 3

\* tree_entry_to_request: the links are requested like the files.
Requests == {e \in Tree : e.type = "blob"}

Wanted == {e.sha : e \in Requests}

\* build_path_to_sha_size_from_requests.
Expected(path) == {r.sha : r \in {e \in Requests : e.path = path}}

\* validate_tar_entry_path.
Valid(e) == e.safe /\ (e.path = None => e.type = "directory")

\* Mutant: a file of the manifest goes in, whatever its content.
KeptUnverified(e) == Valid(e) /\ e.type = "regular" /\ Expected(e.path) # {}

\* The entries that go into the cache: regular files of the manifest, with the
\* content it says.
Kept(e) == Valid(e) /\ e.type = "regular" /\ e.sha \in Expected(e.path)

\* What is remembered of the look at the cache: `alone`, no other call was
\* under way; `before`, the downloads made until then.
Caller == [pc : {"new", "checked", "waiting", "asking", "extracting", "filled",
                 "done", "cancelled"},
           slot : Callers \cup {None},
           alone : BOOLEAN,
           before : Nat,
           hops : 0..TARBALL_REDIRECT_MAX_DEPTH,
           outcome : {"none", "ok", "err"}]

NewCaller == [pc |-> "new", slot |-> None, alone |-> FALSE, before |-> 0,
              hops |-> 0, outcome |-> "none"]

Over == {"new", "done", "cancelled"}

\* Inside a download.
Fetching == {"asking", "extracting"}

Init ==
    /\ missing = Wanted
    /\ registry = None
    /\ cell = [c \in Callers |-> "none"]
    /\ running = [c \in Callers |-> None]
    /\ caller = [c \in Callers |-> NewCaller]
    /\ left = [c \in Callers |-> 0]
    /\ downloads = 0
    /\ evictions = 0
    /\ cancels = 0

\* contains_all, before the claim: nothing to do when every blob is cached.
Check(c) ==
    /\ caller[c].pc = "new"
    /\ caller' = [caller EXCEPT ![c] =
           IF missing = {}
           THEN [NewCaller EXCEPT !.pc = "done", !.outcome = "ok"]
           ELSE [NewCaller EXCEPT !.pc = "checked",
                    !.alone = \A d \in Callers : caller[d].pc \in Over,
                    !.before = downloads]]
    /\ UNCHANGED <<missing, registry, cell, running, left, downloads,
                   evictions, cancels>>

\* claim_singleflight_slot: the registry's slot, inserted if there is none.
Claim(c) ==
    LET slot == IF registry = None THEN c ELSE registry
    IN  /\ caller[c].pc = "checked"
        /\ registry' = slot
        /\ caller' = [caller EXCEPT ![c].pc = "waiting", ![c].slot = slot]
        /\ UNCHANGED <<missing, cell, running, left, downloads, evictions, cancels>>

\* Mutant: the slot leaves the registry when the download starts.
BeginReleases(c) ==
    LET slot == caller[c].slot
    IN  /\ caller[c].pc = "waiting"
        /\ cell[slot] = "none"
        /\ running[slot] = None
        /\ registry' = IF slot = c THEN None ELSE registry
        /\ running' = [running EXCEPT ![slot] = c]
        /\ caller' = [caller EXCEPT ![c].pc = "asking"]
        /\ downloads' = downloads + 1
        /\ UNCHANGED <<missing, cell, left, evictions, cancels>>

\* Mutant: only the leader initialises the cell.
BeginLeads(c) ==
    LET slot == caller[c].slot
    IN  /\ caller[c].pc = "waiting"
        /\ slot = c
        /\ cell[slot] = "none"
        /\ running[slot] = None
        /\ running' = [running EXCEPT ![slot] = c]
        /\ caller' = [caller EXCEPT ![c].pc = "asking"]
        /\ downloads' = downloads + 1
        /\ UNCHANGED <<missing, registry, cell, left, evictions, cancels>>

\* get_or_init: the cell is empty and nobody is initialising it.
Begin(c) ==
    LET slot == caller[c].slot
    IN  /\ caller[c].pc = "waiting"
        /\ cell[slot] = "none"
        /\ running[slot] = None
        /\ running' = [running EXCEPT ![slot] = c]
        /\ caller' = [caller EXCEPT ![c].pc = "asking"]
        /\ downloads' = downloads + 1
        /\ UNCHANGED <<missing, registry, cell, left, evictions, cancels>>

\* The API and the codeload host redirect; a target that is not the codeload
\* host, and a chain that is too long, are errors.
Redirect(c) ==
    /\ caller[c].pc = "asking"
    /\ caller[c].hops < TARBALL_REDIRECT_MAX_DEPTH
    /\ caller' = [caller EXCEPT ![c].hops = @ + 1]
    /\ UNCHANGED <<missing, registry, cell, running, left, downloads,
                   evictions, cancels>>

\* The archive comes, and a blocking thread extracts it.
Answer(c) ==
    /\ caller[c].pc = "asking"
    /\ caller' = [caller EXCEPT ![c].pc = "extracting", ![c].hops = 0]
    /\ left' = [left EXCEPT ![c] = Len(Archive)]
    /\ UNCHANGED <<missing, registry, cell, running, downloads, evictions, cancels>>

\* The next entry is finalised into the cache or passed over; also after the
\* caller was dropped.
Extract(c) ==
    LET e == Archive[Len(Archive) - left[c] + 1]
    IN  /\ left[c] > 0
        /\ left' = [left EXCEPT ![c] = @ - 1]
        /\ missing' = IF Kept(e) THEN missing \ Expected(e.path) ELSE missing
        /\ UNCHANGED <<registry, cell, running, caller, downloads, evictions, cancels>>

\* The cell gets the download's result.
Fill(c, outcome) ==
    /\ cell' = [cell EXCEPT ![caller[c].slot] = outcome]
    /\ running' = [running EXCEPT ![caller[c].slot] = None]
    /\ caller' = [caller EXCEPT ![c].pc = "filled", ![c].hops = 0, ![c].outcome = outcome]
    /\ left' = [left EXCEPT ![c] = 0]
    /\ UNCHANGED <<missing, registry, downloads, evictions, cancels>>

FinishOk(c) ==
    /\ caller[c].pc = "extracting"
    /\ left[c] = 0
    /\ Fill(c, "ok")

\* The API call, a redirect, the stream or a write fails.
FinishErr(c) ==
    /\ caller[c].pc \in Fetching
    /\ Fill(c, "err")

\* get_or_init returns the value another caller stored.
Await(c) ==
    LET slot == caller[c].slot
    IN  /\ caller[c].pc = "waiting"
        /\ cell[slot] # "none"
        /\ caller' = [caller EXCEPT ![c].pc = "filled", ![c].outcome = cell[slot]]
        /\ UNCHANGED <<missing, registry, cell, running, left, downloads,
                       evictions, cancels>>

\* Mutant: nobody removes the slot.
ReleaseNothing(c) ==
    /\ caller[c].pc = "filled"
    /\ caller' = [caller EXCEPT ![c].pc = "done"]
    /\ UNCHANGED <<missing, registry, cell, running, left, downloads,
                   evictions, cancels>>

\* SlotClaim::release: the leader removes its own slot.
Release(c) ==
    /\ caller[c].pc = "filled"
    /\ registry' = IF caller[c].slot = c /\ registry = c THEN None ELSE registry
    /\ caller' = [caller EXCEPT ![c].pc = "done"]
    /\ UNCHANGED <<missing, cell, running, left, downloads, evictions, cancels>>

\* The caller's future is dropped; an initialiser gives the empty cell back.
Cancel(c) ==
    /\ cancels < MaxCancels
    /\ caller[c].pc \in {"waiting"} \cup Fetching
    /\ cancels' = cancels + 1
    /\ caller' = [caller EXCEPT ![c].pc = "cancelled"]
    /\ running' = [s \in Callers |-> IF running[s] = c THEN None ELSE running[s]]
    /\ UNCHANGED <<missing, registry, cell, left, downloads, evictions>>

Evict(b) ==
    /\ evictions < MaxEvictions
    /\ b \in Wanted \ missing
    /\ missing' = missing \cup {b}
    /\ evictions' = evictions + 1
    /\ UNCHANGED <<registry, cell, running, caller, left, downloads, cancels>>

Advance(c) ==
    \/ Claim(c) \/ Begin(c) \/ Await(c) \/ Release(c)
    \/ Redirect(c) \/ Answer(c) \/ Extract(c) \/ FinishOk(c) \/ FinishErr(c)

Next ==
    \/ \E c \in Callers : Check(c) \/ Cancel(c) \/ Advance(c)
    \/ \E b \in Blobs : Evict(b)

Spec == Init /\ [][Next]_vars

\* Tasks are scheduled and downloads end.
FairSpec == Spec /\ \A c \in Callers : WF_vars(Advance(c))

-----------------------------------------------------------------------------
\* Type invariant of the registry, the slots and the calls.
TypeOK ==
    /\ missing \subseteq Wanted
    /\ registry \in Callers \cup {None}
    /\ cell \in [Callers -> {"none", "ok", "err"}]
    /\ running \in [Callers -> Callers \cup {None}]
    /\ caller \in [Callers -> Caller]
    /\ left \in [Callers -> 0..Len(Archive)]
    /\ downloads \in Nat
    /\ evictions \in 0..MaxEvictions
    /\ cancels \in 0..MaxCancels
    /\ \A c \in Callers : caller[c].pc \in {"waiting", "filled"} \cup Fetching
                            => caller[c].slot \in Callers

\* Two mounts never download the tarball at the same time, whoever leads, and
\* also when a dropped leader's waiter takes over.
OneFetcher ==
    \A c, d \in Callers :
       {caller[c].pc, caller[d].pc} \subseteq Fetching => c = d

\* A mount that finds blobs missing when no other is under way is answered from
\* a download begun since: no result of an earlier mount is left for it in the
\* registry.
LaterMountsFetch ==
    \A c \in Callers :
       caller[c].pc = "done" /\ caller[c].alone => downloads > caller[c].before

\* ... as long as no caller was dropped: the slot of a dropped leader stays, with
\* the result its waiter stored.
UndroppedMountsFetch == cancels = 0 => LaterMountsFetch

\* The contents the archive has at the manifest's paths, as files.
Carried ==
    {r.sha : r \in {q \in Requests :
        \E i \in DOMAIN Archive :
           Archive[i] = [safe |-> TRUE, path |-> q.path, sha |-> q.sha, type |-> "regular"]}}

\* A mount that is told the tarball is in finds in the cache what the archive
\* carries of its manifest (nothing evicted), and nothing else came from it: a
\* link, a file the archive leaves out or has changed is still missing.
OkMeansCached ==
    evictions = 0 =>
       \A c \in Callers : caller[c].outcome = "ok" => missing = Wanted \ Carried

\* Every mount gets past the prefetch, also the waiters of a dropped leader.
EveryCallerReturns ==
    \A c \in Callers : caller[c].pc = "checked" ~> caller[c].pc \in Over
=============================================================================
