----------------------------- MODULE MCCommands -----------------------------
(***************************************************************************)
(* Two specifications that share no variable in one run, each with the     *)
(* other at rest: what commands mount and unmount (CliMounts), and what    *)
(* the mount requests ask of the network (Requests).                       *)
(*                                                                         *)
(* CliMounts on two mounts of two sources at a time: at a point that both  *)
(* have, at a point of one's own, and at an FSKit mount's link path, where *)
(* the user is at work.  Requests by `latest`, by a version the crates     *)
(* registry may not have released yet, and by the branch.                  *)
(***************************************************************************)
EXTENDS CliMounts, Requests, TLC

CONSTANTS s1, s2, p1, p2, l1

VARIABLES half, part

MCPairs == {<<s1, p1>>, <<s2, p1>>, <<s1, p2>>, <<s1, l1>>}

MCSpecs == {[provider |-> "npm", version |-> 0],
            [provider |-> "pypi", version |-> 1],
            [provider |-> "crate", version |-> 2],
            [provider |-> "github", version |-> 0]}

\* Terminals and requests are interchangeable.
CommandsSymmetry == Permutations(Clients) \cup Permutations(Mounts)

\* What commands mount.
Mounted == {{<<s1, p1>>, <<s2, p1>>}, {<<s1, p1>>, <<s1, p2>>},
            {<<s1, p2>>, <<s1, l1>>}}

\* What is requested: by `latest` or a version of one ref, or by what a mount has
\* a ref of its own for.
Requested == {{s \in MCSpecs : s.provider \in {"npm", "pypi"}},
              {s \in MCSpecs : s.provider \in {"crate", "github"}}}

\* Commands are about some pairs, their paths, or ids; the user works at their
\* link paths.
About(pairs) ==
    LET paths == {q[2] : q \in pairs}
    IN  /\ \A c \in Clients :
              /\ cmd'[c].asked \subseteq pairs
              /\ cmd'[c].targets \subseteq Sources \cup paths
        /\ \A l \in Links \ paths : path'[l] = path[l]

\* Mounts request some specs.
For(specs) == \A m \in Mounts : mount'[m].spec \in specs \cup {Nothing}

CommandsInit ==
    /\ Init
    /\ RequestsInit
    /\ \/ half = "commands" /\ part \in Mounted
       \/ half = "requests" /\ part \in Requested

CommandsNext ==
    /\ UNCHANGED <<half, part>>
    /\ \/ half = "commands" /\ Next /\ About(part) /\ UNCHANGED requestsVars
       \/ half = "requests" /\ RequestsNext /\ For(part) /\ UNCHANGED vars

CommandsSpec == CommandsInit /\ [][CommandsNext]_<<vars, requestsVars, half, part>>
=============================================================================
