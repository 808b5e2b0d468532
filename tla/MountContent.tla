---------------------------- MODULE MountContent ----------------------------
(***************************************************************************)
(* What a mount request promises, with no cache and no provider in sight:  *)
(* a branch moves from commit to commit; a request takes the commit that   *)
(* the branch names at one moment while it is looked up, and either ends   *)
(* or shows that commit's content, which stays as it is until the mount    *)
(* ends.                                                                   *)
(***************************************************************************)
CONSTANTS
    Requests,
    Commits,
    Contents,   \* what each commit's mount shows
    None

VARIABLES
    head,       \* the commit that the branch names
    mount       \* each request's mount

vars == <<head, mount>>

-----------------------------------------------------------------------------
\* A mount without a commit or a content, and one with both or the first.
Bare(state) == [state |-> state, commit |-> None, content |-> None]

Init ==
    /\ head \in Commits
    /\ mount = [r \in Requests |-> Bare("idle")]

MoveRef(c) ==
    /\ head' = c
    /\ UNCHANGED mount

Ask(r) ==
    /\ mount[r].state = "idle"
    /\ mount' = [mount EXCEPT ![r] = Bare("asked")]
    /\ UNCHANGED head

\* The commit is chosen once, from what the branch names now.
Pin(r) ==
    /\ mount[r].state = "asked"
    /\ mount' = [mount EXCEPT ![r] = [Bare("pinned") EXCEPT !.commit = head]]
    /\ UNCHANGED head

\* The mount shows the commit it was pinned to, wherever the branch is now.
Show(r) ==
    /\ mount[r].state = "pinned"
    /\ mount' = [mount EXCEPT ![r] =
           [state |-> "mounted", commit |-> @.commit, content |-> Contents[@.commit]]]
    /\ UNCHANGED head

\* Requests are refused and mounts end, one of them or all of a daemon's.
End(ended) ==
    /\ \A r \in ended : mount[r].state # "idle"
    /\ mount' = [r \in Requests |-> IF r \in ended THEN Bare("ended") ELSE mount[r]]
    /\ UNCHANGED head

Next ==
    \/ \E c \in Commits : MoveRef(c)
    \/ \E r \in Requests : Ask(r) \/ Pin(r) \/ Show(r)
    \/ \E ended \in SUBSET Requests : End(ended)

Spec == Init /\ [][Next]_vars
=============================================================================
