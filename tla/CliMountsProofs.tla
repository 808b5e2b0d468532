--------------------------- MODULE CliMountsProofs ---------------------------
(***************************************************************************)
(* Proofs about the command line's mounts of CliMounts, for any number of  *)
(* terminals, commands and faults and for any sources, paths and pairs,    *)
(* shared points included.                                                 *)
(*                                                                         *)
(* The argument for OrphansAreTold: what the daemon registers keeps its    *)
(* pair (Entries), a server that still runs is only mounted, or to be      *)
(* mounted, at the point it was registered for (Placed, Own), so that      *)
(* whoever takes its kernel mount away has its point for a target, and at  *)
(* a point of one source the daemon can only find that server there        *)
(* (FoundAlone): the call ends it, or the user is told.                    *)
(***************************************************************************)
EXTENDS CliMounts, TLAPS

-----------------------------------------------------------------------------
(* Types.                                                                  *)

\* Server n is in one of the kernel mounts K.
In(K, n) == \E p \in Points : \E i \in 1..Len(K[p]) : K[p][i] = n

\* TypeOK, with the number of servers made.
TypeInv == TypeOK /\ made \in Nat

\* What TypeOK says, server by server.
LEMMA Types ==
    TypeInv <=>
       /\ registry \in [Sources -> Entry \cup {None}] /\ up \in BOOLEAN /\ late \subseteq Pairs
       /\ kernel \in [Points -> Seq(Nat)] /\ path \in [Links -> AtPath]
       /\ cmd \in [Clients -> Cmd] /\ begun \in 0..MaxCommands /\ faults \in 0..MaxFaults
       /\ \A s \in Sources : registry[s] # None => registry[s].server \in 1..made
       /\ \A n : In(kernel, n) => n \in 1..made
       /\ told \subseteq 1..made /\ made \in Nat
BY DEF TypeInv, TypeOK, Live, InKernel, In

\* The same of the next state.
LEMMA NextTypes ==
    ASSUME registry' \in [Sources -> Entry \cup {None}], up' \in BOOLEAN, late' \subseteq Pairs,
           kernel' \in [Points -> Seq(Nat)], path' \in [Links -> AtPath],
           cmd' \in [Clients -> Cmd], begun' \in 0..MaxCommands, faults' \in 0..MaxFaults,
           \A s \in Sources : registry'[s] # None => registry'[s].server \in 1..made',
           \A n : In(kernel', n) => n \in 1..made',
           told' \subseteq 1..made', made' \in Nat
    PROVE  TypeInv'
<1>1. Live' \subseteq 1..made'
  BY DEF Live
<1>2. InKernel' \subseteq 1..made'
  BY DEF InKernel, In
<1>3. (Live \cup InKernel \cup told)' \subseteq 1..made'
  BY <1>1, <1>2
<1>4. QED
  BY <1>3 DEF TypeInv, TypeOK

\* The kernel's servers.
LEMMA Kernels == \A n : n \in InKernel <=> In(kernel, n)
BY DEF InKernel, In

\* The daemon's servers.
LEMMA Lives == \A n : n \in Live <=> \E s \in Sources : registry[s] # None /\ registry[s].server = n
BY DEF Live

\* An entry.
LEMMA EntryType ==
    ASSUME TypeInv, NEW s \in Sources, registry[s] # None
    PROVE  registry[s] \in Entry /\ registry[s].path \in Paths /\ registry[s].server \in Nat
<1>1. registry[s] \in Entry
  BY Types
<1>2. QED
  BY <1>1 DEF Entry

\* Faults are counted.
LEMMA FaultType ==
    ASSUME faults \in 0..MaxFaults, Fault \/ NoFault
    PROVE  faults' \in 0..MaxFaults
<1>1. CASE Fault
  BY <1>1, CliMountsAssumption DEF Fault
<1>2. CASE NoFault
  BY <1>2 DEF NoFault
<1>3. QED
  BY <1>1, <1>2

\* A command after a step of its own.
LEMMA CmdUpdate ==
    ASSUME TypeInv, NEW c \in Clients, NEW k \in Cmd, cmd' = [cmd EXCEPT ![c] = k]
    PROVE  /\ cmd' \in [Clients -> Cmd]
           /\ cmd'[c] = k
           /\ \A d \in Clients \ {c} : cmd'[d] = cmd[d]
<1>1. cmd \in [Clients -> Cmd]
  BY Types
<1>2. QED
  BY <1>1

\* The idle command.
LEMMA IdleType == Idle \in Cmd
BY DEF Idle, Cmd, AtPath, Users

\* What is at a link path after one is cleared or set.
LEMMA PathType ==
    ASSUME TypeInv, NEW l, NEW a \in AtPath
    PROVE  [path EXCEPT ![l] = a] \in [Links -> AtPath]
<1>1. path \in [Links -> AtPath]
  BY Types
<1>2. QED
  BY <1>1

\* A command and its fields.
LEMMA CmdType ==
    ASSUME TypeInv, NEW c \in Clients
    PROVE  /\ cmd \in [Clients -> Cmd] /\ cmd[c] \in Cmd
           /\ cmd[c].asked \subseteq Pairs /\ cmd[c].got \subseteq Pairs \X Nat
           /\ cmd[c].targets \subseteq Sources \cup Paths
           /\ cmd[c].target \in Sources \cup Paths \cup {None}
<1>1. cmd \in [Clients -> Cmd] /\ cmd[c] \in Cmd
  BY Types
<1>2. QED
  BY <1>1 DEF Cmd

\* A pair.
LEMMA PairType ==
    ASSUME NEW q \in Pairs
    PROVE  q[1] \in Sources /\ q[2] \in Paths /\ q = <<q[1], q[2]>>
BY CliMountsAssumption

-----------------------------------------------------------------------------
(* Kernel mounts at a point.                                               *)

\* L is K with one more kernel mount, n, at p; L is K with one less at p.
Pushed(K, p, n, L) == L = [K EXCEPT ![p] = <<n>> \o @]
Popped(K, p, L) == K[p] # <<>> /\ L = [K EXCEPT ![p] = Tail(@)]

\* A kernel mount goes on top of the ones at its point.
LEMMA Push ==
    ASSUME NEW K \in [Points -> Seq(Nat)], NEW p \in Points, NEW n \in Nat,
           NEW L, Pushed(K, p, n, L)
    PROVE  /\ L \in [Points -> Seq(Nat)]
           /\ \A r \in Points \ {p} : L[r] = K[r]
           /\ \A i \in 1..Len(L[p]) : \/ i = 1 /\ L[p][i] = n
                                      \/ i - 1 \in 1..Len(K[p]) /\ L[p][i] = K[p][i - 1]
           /\ \A m : In(L, m) <=> m = n \/ In(K, m)
<1>1. K[p] \in Seq(Nat) /\ <<n>> \in Seq(Nat) /\ Len(<<n>>) = 1 /\ <<n>>[1] = n
  OBVIOUS
<1>2. L[p] = <<n>> \o K[p]
  BY DEF Pushed
<1>3. L[p] \in Seq(Nat) /\ Len(L[p]) = Len(K[p]) + 1 /\ Len(K[p]) \in Nat
  BY <1>1, <1>2
<1>4. L \in [Points -> Seq(Nat)]
  BY <1>3 DEF Pushed
<1>5. \A r \in Points \ {p} : L[r] = K[r]
  BY DEF Pushed
<1>6. \A i \in 1..Len(L[p]) : L[p][i] = IF i = 1 THEN n ELSE K[p][i - 1]
  BY <1>1, <1>2, <1>3
<1>7. \A i \in 1..Len(L[p]) : \/ i = 1 /\ L[p][i] = n
                              \/ i - 1 \in 1..Len(K[p]) /\ L[p][i] = K[p][i - 1]
  BY <1>3, <1>6
<1>8. ASSUME NEW m PROVE In(L, m) <=> m = n \/ In(K, m)
  <2>1. ASSUME In(L, m) PROVE m = n \/ In(K, m)
    <3>1. PICK r \in Points : \E i \in 1..Len(L[r]) : L[r][i] = m
      BY <2>1 DEF In
    <3>2. PICK i \in 1..Len(L[r]) : L[r][i] = m
      BY <3>1
    <3>3. CASE r = p
      <4>1. (i = 1 /\ m = n) \/ (i - 1 \in 1..Len(K[p]) /\ m = K[p][i - 1])
        <5>1. i \in 1..Len(L[p]) /\ L[p][i] = m
          BY ONLY <3>2, <3>3
        <5>2. QED
          BY ONLY <1>7, <5>1
      <4>2. QED
        BY ONLY <4>1, p \in Points DEF In
    <3>4. CASE r # p
      <4>1. L[r] = K[r]
        BY ONLY <1>5, <3>1, <3>4
      <4>2. QED
        BY ONLY <3>1, <3>2, <4>1 DEF In
    <3>5. QED
      BY ONLY <3>3, <3>4
  <2>2. In(L, n)
    <3>1. 1 \in 1..Len(L[p])
      BY ONLY <1>3
    <3>2. L[p][1] = n
      BY ONLY <1>6, <3>1
    <3>3. QED
      BY ONLY <3>1, <3>2, p \in Points DEF In
  <2>3. ASSUME In(K, m) PROVE In(L, m)
    <3>1. PICK r \in Points : \E i \in 1..Len(K[r]) : K[r][i] = m
      BY <2>3 DEF In
    <3>2. PICK i \in 1..Len(K[r]) : K[r][i] = m
      BY <3>1
    <3>3. CASE r = p
      <4>1. i + 1 \in 1..Len(L[p]) /\ i + 1 # 1 /\ (i + 1) - 1 = i
        BY <1>3, <3>3
      <4>2. L[p][i + 1] = m
        BY <1>6, <3>2, <3>3, <4>1
      <4>3. QED
        BY <4>1, <4>2 DEF In
    <3>4. CASE r # p
      BY <1>5, <3>2, <3>4 DEF In
    <3>5. QED
      BY <3>3, <3>4
  <2>4. QED
    BY <2>1, <2>2, <2>3
<1>9. QED
  BY <1>4, <1>5, <1>7, <1>8

\* The kernel umount takes the last mount of its point.
LEMMA Pop ==
    ASSUME NEW K \in [Points -> Seq(Nat)], NEW p \in Points, NEW L, Popped(K, p, L)
    PROVE  /\ L \in [Points -> Seq(Nat)]
           /\ \A r \in Points \ {p} : L[r] = K[r]
           /\ \A i \in 1..Len(L[p]) : i + 1 \in 1..Len(K[p]) /\ L[p][i] = K[p][i + 1]
           /\ \A m : In(L, m) => In(K, m)
<1>1. L[p] = Tail(K[p]) /\ K[p] \in Seq(Nat) /\ K[p] # <<>>
  BY DEF Popped
<1>2. L[p] \in Seq(Nat) /\ Len(L[p]) = Len(K[p]) - 1 /\ Len(K[p]) \in Nat
  BY <1>1
<1>3. L \in [Points -> Seq(Nat)]
  BY <1>2 DEF Popped
<1>4. \A r \in Points \ {p} : L[r] = K[r]
  BY DEF Popped
<1>5. \A i \in 1..Len(L[p]) : i + 1 \in 1..Len(K[p]) /\ L[p][i] = K[p][i + 1]
  BY <1>1, <1>2
<1>6. ASSUME NEW m, In(L, m) PROVE In(K, m)
  BY <1>4, <1>5, <1>6 DEF In
<1>7. QED
  BY <1>3, <1>4, <1>5, <1>6

-----------------------------------------------------------------------------
(* The invariant.                                                          *)

\* What a command has, by where it is: servers only between its mount calls and
\* their kernel mounts, NFS points apart from FSKit links, a point for a target
\* only in an unmount call, and the link it named only when it named one.
Shape(k) ==
    /\ k.pc \notin {"rpc", "cleanup"} => k.got = {}
    /\ k.pc = "stat" => k.op = "fskit"
    /\ \A q \in k.asked : k.op = "fskit" <=> q[2] \in Links
    /\ \A g \in k.got : k.op = "fskit" <=> g[1][2] \in Links
    /\ k.target \in Points => k.pc \in {"cleanup", "unrpc"}
    /\ k.pc = "umount" => k.seen \notin Sources
    /\ k.pc = "unrpc" /\ k.seen \in Sources => k.target \in Links /\ k.op = "unmount"
    /\ k.pc = "unrpc" => k.target \in k.targets
    /\ k.op = "unmount" => \E t \in Sources \cup Paths : k.targets = {t}

\* Command k still has the server registered for s, or its point for a target.
Hand(s, k) ==
    \/ \E g \in k.got : g[2] = registry[s].server
    \/ k.target = registry[s].path

\* An NFS mount at a point that is its source's alone.
Obliged(s) ==
    registry[s] # None /\ ~registry[s].fskit /\ ~Shared(registry[s].path)

Entries ==
    \A s \in Sources : registry[s] # None =>
        /\ <<s, registry[s].path>> \in Pairs
        /\ registry[s].fskit <=> registry[s].path \in Links

Placed ==
    \A p \in Points : \A i \in 1..Len(kernel[p]) : \A s \in Sources :
        registry[s] # None /\ registry[s].server = kernel[p][i] => registry[s].path = p

Own ==
    \A c \in Clients : \A g \in cmd[c].got :
        /\ g[2] \in 1..made
        /\ cmd[c].op = "serve" => g[2] \in told
        /\ \A s \in Sources :
              registry[s] # None /\ registry[s].server = g[2] => registry[s].path = g[1][2]

Kept ==
    \A s \in Sources : Obliged(s) =>
        \/ In(kernel, registry[s].server)
        \/ registry[s].server \in told
        \/ \E c \in Clients : Hand(s, cmd[c])

CliInv ==
    /\ TypeInv
    /\ \A c \in Clients : Shape(cmd[c])
    /\ Entries /\ Placed /\ Own /\ Kept

\* The idle command has nothing.
LEMMA IdleShape == Idle \in Cmd /\ Shape(Idle) /\ Idle.got = {}
<1>1. None \notin Points
  BY CliMountsAssumption DEF Paths
<1>2. QED
  BY <1>1, IdleType DEF Idle, Shape

\* One command's step that registers nothing: it may take servers off the
\* registry and kernel mounts away, mount what it has, and tell the user.
LEMMA CommandStep ==
    ASSUME CliInv, NEW c \in Clients, NEW k \in Cmd, cmd' = [cmd EXCEPT ![c] = k],
           Shape(k), k.got \subseteq cmd[c].got, k.got # {} => k.op = cmd[c].op,
           made' = made, up' \in BOOLEAN, late' \subseteq Pairs, path' \in [Links -> AtPath],
           begun' \in 0..MaxCommands, faults' \in 0..MaxFaults,
           told \subseteq told', told' \subseteq 1..made,
           registry' \in [Sources -> Entry \cup {None}],
           \A s \in Sources : registry'[s] = registry[s] \/ registry'[s] = None,
           kernel' \in [Points -> Seq(Nat)],
           \A p \in Points : \A i \in 1..Len(kernel'[p]) :
              \/ \E j \in 1..Len(kernel[p]) : kernel'[p][i] = kernel[p][j]
              \/ \E g \in cmd[c].got : g[1][2] = p /\ g[2] = kernel'[p][i],
           \A s \in Sources :
              Obliged(s) /\ registry'[s] = registry[s]
              /\ (In(kernel, registry[s].server) \/ Hand(s, cmd[c])) =>
                 \/ In(kernel', registry[s].server)
                 \/ registry[s].server \in told'
                 \/ Hand(s, k)
    PROVE  CliInv'
<1>1. TypeInv /\ Entries /\ Placed /\ Own /\ Kept /\ \A d \in Clients : Shape(cmd[d])
  BY DEF CliInv
<1>2. cmd' \in [Clients -> Cmd] /\ cmd'[c] = k /\ \A d \in Clients \ {c} : cmd'[d] = cmd[d]
  BY <1>1, CmdUpdate
<1>3. \A s \in Sources : registry'[s] # None => registry[s] # None /\ registry'[s] = registry[s]
  OBVIOUS
<1>4. TypeInv'
  <2>1. \A s \in Sources : registry'[s] # None => registry'[s].server \in 1..made'
    BY <1>1, <1>3, Types
  <2>2. ASSUME NEW n, In(kernel', n) PROVE n \in 1..made'
    <3>1. PICK p \in Points : \E i \in 1..Len(kernel'[p]) : kernel'[p][i] = n
      BY <2>2 DEF In
    <3>2. PICK i \in 1..Len(kernel'[p]) : kernel'[p][i] = n
      BY <3>1
    <3>3. \/ \E j \in 1..Len(kernel[p]) : kernel'[p][i] = kernel[p][j]
          \/ \E g \in cmd[c].got : g[1][2] = p /\ g[2] = kernel'[p][i]
      OBVIOUS
    <3>4. \/ \E j \in 1..Len(kernel[p]) : kernel[p][j] = n
          \/ \E g \in cmd[c].got : g[2] = n
      BY ONLY <3>2, <3>3
    <3>5. QED
      BY <1>1, <3>4, Types DEF In, Own
  <2>3. told' \subseteq 1..made' /\ made' \in Nat
    BY <1>1, Types
  <2>4. QED
    BY <1>2, <2>1, <2>2, <2>3, NextTypes
<1>5. \A d \in Clients : Shape(cmd[d])'
  <2>1. ASSUME NEW d \in Clients PROVE Shape(cmd[d])'
    <3>1. Shape(cmd'[d])
      BY <1>1, <1>2
    <3>2. QED
      BY <3>1 DEF Shape
  <2>2. QED
    BY <2>1
<1>6. Entries'
  BY <1>1, <1>3 DEF Entries
<1>7. Placed'
  <2>1. ASSUME NEW p \in Points, NEW i \in 1..Len(kernel'[p]), NEW s \in Sources,
               registry'[s] # None, registry'[s].server = kernel'[p][i]
        PROVE  registry'[s].path = p
    <3>1. registry[s] # None /\ registry'[s] = registry[s]
      BY <1>3, <2>1
    <3>2. CASE \E j \in 1..Len(kernel[p]) : kernel'[p][i] = kernel[p][j]
      <4>1. PICK j \in 1..Len(kernel[p]) : kernel'[p][i] = kernel[p][j]
        BY <3>2
      <4>2. registry[s].server = kernel[p][j]
        BY ONLY <2>1, <3>1, <4>1
      <4>3. registry[s].path = p
        BY ONLY <1>1, <3>1, <4>2, p \in Points, s \in Sources, j \in 1..Len(kernel[p]) DEF Placed
      <4>4. QED
        BY ONLY <3>1, <4>3
    <3>3. CASE \E g \in cmd[c].got : g[1][2] = p /\ g[2] = kernel'[p][i]
      BY <1>1, <2>1, <3>1, <3>3 DEF Own
    <3>4. QED
      BY <3>2, <3>3
  <2>2. QED
    BY <2>1 DEF Placed
<1>8. Own'
  <2>1. ASSUME NEW d \in Clients, NEW g \in cmd'[d].got
        PROVE  /\ g \in cmd[d].got
               /\ cmd'[d].op = cmd[d].op
    BY <1>2, <2>1
  <2>2. QED
    BY <1>1, <1>3, <2>1 DEF Own
<1>9. Kept'
  <2>1. ASSUME NEW s \in Sources, Obliged(s)'
        PROVE  \/ In(kernel', registry'[s].server)
               \/ registry'[s].server \in told'
               \/ \E d \in Clients : Hand(s, cmd[d])'
    <3>1. registry[s] # None /\ registry'[s] = registry[s] /\ Obliged(s)
      BY <1>3, <2>1 DEF Obliged, Shared
    <3>2. Hand(s, k) => Hand(s, cmd[c])'
      BY <1>2, <3>1 DEF Hand
    <3>3. ASSUME NEW d \in Clients, d # c, Hand(s, cmd[d]) PROVE Hand(s, cmd[d])'
      <4>1. cmd'[d] = cmd[d]
        BY <1>2, <3>3
      <4>2. QED
        BY <3>1, <3>3, <4>1 DEF Hand
    <3>4. \/ In(kernel, registry[s].server)
          \/ registry[s].server \in told
          \/ \E d \in Clients : Hand(s, cmd[d])
      BY <1>1, <3>1 DEF Kept
    <3>5. CASE In(kernel, registry[s].server) \/ Hand(s, cmd[c])
      BY <3>1, <3>2, <3>5
    <3>6. CASE registry[s].server \in told
      BY <3>1, <3>6
    <3>7. CASE \E d \in Clients : d # c /\ Hand(s, cmd[d])
      BY <3>3, <3>7
    <3>8. QED
      BY <3>4, <3>5, <3>6, <3>7
  <2>2. ASSUME NEW s \in Sources, Obliged(s)'
        PROVE  \/ In(kernel, registry[s].server)'
               \/ (registry[s].server \in told)'
               \/ (\E d \in Clients : Hand(s, cmd[d]))'
    BY <2>1, <2>2 DEF In
  <2>3. QED
    BY <2>2 DEF Kept
<1>10. QED
  BY <1>4, <1>5, <1>6, <1>7, <1>8, <1>9 DEF CliInv

\* One command's step about itself, paths and counters.
LEMMA QuietStep ==
    ASSUME CliInv, NEW c \in Clients, NEW k \in Cmd, cmd' = [cmd EXCEPT ![c] = k],
           Shape(k), k.got \subseteq cmd[c].got, k.got # {} => k.op = cmd[c].op,
           UNCHANGED <<registry, up, made, kernel, told>>,
           late' \subseteq Pairs, path' \in [Links -> AtPath], begun' \in 0..MaxCommands,
           faults' = faults \/ Fault \/ NoFault,
           \A s \in Sources :
              Obliged(s) /\ Hand(s, cmd[c]) =>
                 In(kernel, registry[s].server) \/ registry[s].server \in told \/ Hand(s, k)
    PROVE  CliInv'
<1>1. TypeInv
  BY DEF CliInv
<1>2. faults' \in 0..MaxFaults
  BY <1>1, FaultType, Types DEF NoFault
<1>3. /\ made' = made /\ up' \in BOOLEAN /\ told \subseteq told' /\ told' \subseteq 1..made
      /\ registry' \in [Sources -> Entry \cup {None}]
      /\ kernel' \in [Points -> Seq(Nat)]
      /\ \A s \in Sources : registry'[s] = registry[s]
  BY <1>1, Types
<1>4. \A p \in Points : \A i \in 1..Len(kernel'[p]) :
         \E j \in 1..Len(kernel[p]) : kernel'[p][i] = kernel[p][j]
  OBVIOUS
<1>5. \A n : In(kernel', n) <=> In(kernel, n)
  BY DEF In
<1>6. QED
  BY <1>2, <1>3, <1>4, <1>5, CommandStep

\* The entry that do_mount writes, the others being left alone.
Registers(q) ==
    /\ made' = made + 1
    /\ registry'[q[1]].path = q[2] /\ registry'[q[1]].server = made + 1
    /\ registry'[q[1]].fskit <=> q[2] \in Links
    /\ \A s \in Sources \ {q[1]} : registry'[s] = registry[s]

\* DaemonMount.
LEMMA DaemonMountStep ==
    ASSUME TypeInv, NEW q \in Pairs, DaemonMount(q)
    PROVE  /\ Registers(q)
           /\ registry' \in [Sources -> Entry \cup {None}] /\ made' \in Nat
           /\ 1..made \subseteq 1..made' /\ made + 1 \in 1..made'
           /\ \A s \in Sources : registry'[s] # None => registry'[s].server \in 1..made'
<1>1. (q[2] \in Links) \in BOOLEAN
  OBVIOUS
<1>2. PICK b \in BOOLEAN : b = (q[2] \in Links)
  BY <1>1
<1>3. PICK e : e = [path |-> q[2], server |-> made + 1, fskit |-> b]
  OBVIOUS
<1>4. registry \in [Sources -> Entry \cup {None}] /\ made \in Nat
  BY Types
<1>5. q[1] \in Sources /\ q[2] \in Paths
  BY PairType
<1>6. e \in Entry /\ e.path = q[2] /\ e.server = made + 1 /\ e.fskit = b
  BY <1>3, <1>4, <1>5 DEF Entry
<1>7. registry' = [registry EXCEPT ![q[1]] = e] /\ made' = made + 1
  BY <1>2, <1>3 DEF DaemonMount
<1>8. /\ registry'[q[1]] = e /\ \A s \in Sources \ {q[1]} : registry'[s] = registry[s]
      /\ registry' \in [Sources -> Entry \cup {None}]
  BY <1>4, <1>5, <1>6, <1>7
<1>9. made' \in Nat /\ 1..made \subseteq 1..made' /\ made + 1 \in 1..made'
  BY <1>4, <1>7
<1>10. \A s \in Sources : registry'[s] # None => registry'[s].server \in 1..made'
  BY <1>6, <1>8, <1>9, Types
<1>11. QED
  BY <1>2, <1>6, <1>7, <1>8, <1>9, <1>10 DEF Registers

\* The daemon registers a mount, which some command gets or its user is told
\* of: the servers the others have are older ones.
LEMMA RegisterStep ==
    ASSUME CliInv, NEW q \in Pairs, DaemonMount(q),
           cmd' \in [Clients -> Cmd], \A d \in Clients : Shape(cmd'[d]),
           \A d \in Clients : /\ cmd[d].got \subseteq cmd'[d].got
                              /\ cmd'[d].got \subseteq cmd[d].got \cup {<<q, made + 1>>}
                              /\ cmd'[d].op = cmd[d].op /\ cmd'[d].target = cmd[d].target,
           told \subseteq told', told' \subseteq told \cup {made + 1},
           made + 1 \in told' \/ \E d \in Clients : <<q, made + 1>> \in cmd'[d].got,
           \A d \in Clients : cmd[d].op = "serve" /\ <<q, made + 1>> \in cmd'[d].got =>
              made + 1 \in told',
           UNCHANGED <<up, kernel, path, begun, faults>>, late' \subseteq Pairs
    PROVE  CliInv'
<1>1. TypeInv /\ Entries /\ Placed /\ Own /\ Kept /\ made \in Nat
  BY Types DEF CliInv
<1>2. /\ Registers(q)
      /\ registry' \in [Sources -> Entry \cup {None}] /\ made' \in Nat
      /\ 1..made \subseteq 1..made' /\ made + 1 \in 1..made'
      /\ \A s \in Sources : registry'[s] # None => registry'[s].server \in 1..made'
  BY <1>1, DaemonMountStep
<1>3. q[1] \in Sources /\ q = <<q[1], q[2]>>
  BY PairType
<1>4. \A s \in Sources : s # q[1] => registry'[s] = registry[s]
  BY <1>2 DEF Registers
<1>5. /\ registry'[q[1]].path = q[2] /\ registry'[q[1]].server = made + 1
      /\ registry'[q[1]].fskit <=> q[2] \in Links
  BY <1>2 DEF Registers
<1>6. TypeInv'
  <2>1. told' \subseteq 1..made' /\ \A n : In(kernel', n) => n \in 1..made'
    BY <1>1, <1>2, Types
  <2>2. QED
    BY <1>1, <1>2, <2>1, NextTypes, Types
<1>7. Entries'
  BY <1>1, <1>3, <1>4, <1>5 DEF Entries
<1>8. made + 1 \notin 1..made
  BY <1>1
<1>9. Placed'
  <2>1. ASSUME NEW p \in Points, NEW i \in 1..Len(kernel[p]), NEW s \in Sources,
               registry'[s] # None, registry'[s].server = kernel[p][i]
        PROVE  registry'[s].path = p
    <3>1. kernel[p][i] \in 1..made
      BY <1>1, Types DEF In
    <3>2. s # q[1]
      BY <1>5, <1>8, <2>1, <3>1
    <3>3. QED
      BY <1>1, <1>4, <2>1, <3>2 DEF Placed
  <2>2. QED
    BY <2>1 DEF Placed
<1>10. Own'
  <2>1. ASSUME NEW d \in Clients, NEW g \in cmd'[d].got
        PROVE  /\ g[2] \in 1..made'
               /\ cmd'[d].op = "serve" => g[2] \in told'
               /\ \A s \in Sources :
                     registry'[s] # None /\ registry'[s].server = g[2] => registry'[s].path = g[1][2]
    <3>1. CASE g \in cmd[d].got
      <4>1. /\ g[2] \in 1..made /\ (cmd[d].op = "serve" => g[2] \in told)
            /\ \A s \in Sources :
                  registry[s] # None /\ registry[s].server = g[2] => registry[s].path = g[1][2]
        BY <1>1, <3>1 DEF Own
      <4>2. QED
        BY <1>2, <1>4, <1>5, <1>8, <4>1
    <3>2. CASE g = <<q, made + 1>>
      <4>1. g[2] = made + 1 /\ g[1] = q
        BY <3>2
      <4>2. ASSUME NEW s \in Sources, registry'[s] # None, registry'[s].server = made + 1
            PROVE  registry'[s].path = q[2]
        <5>1. s # q[1] => registry[s] # None /\ registry[s].server = made + 1
          BY <1>4, <4>2
        <5>2. s = q[1]
          BY <1>1, <1>8, <5>1, Types
        <5>3. QED
          BY <1>5, <5>2
      <4>3. QED
        BY <1>2, <2>1, <3>2, <4>1, <4>2
    <3>3. QED
      BY <2>1, <3>1, <3>2
  <2>2. QED
    BY <2>1 DEF Own
<1>11. Kept'
  <2>1. ASSUME NEW s \in Sources, Obliged(s)'
        PROVE  \/ In(kernel', registry'[s].server)
               \/ registry'[s].server \in told'
               \/ \E d \in Clients : Hand(s, cmd[d])'
    <3>1. CASE s = q[1]
      <4>1. ASSUME NEW d \in Clients, <<q, made + 1>> \in cmd'[d].got PROVE Hand(s, cmd[d])'
        <5>1. <<q, made + 1>>[2] = registry'[s].server
          BY <1>5, <3>1
        <5>2. QED
          BY <4>1, <5>1 DEF Hand
      <4>2. QED
        BY <1>5, <3>1, <4>1
    <3>2. CASE s # q[1]
      <4>1. registry'[s] = registry[s]
        BY <1>4, <3>2
      <4>2. Obliged(s)
        BY <2>1, <4>1 DEF Obliged, Shared
      <4>3. ASSUME NEW d \in Clients, Hand(s, cmd[d]) PROVE Hand(s, cmd[d])'
        BY <4>1, <4>3 DEF Hand
      <4>4. \/ In(kernel, registry[s].server)
            \/ registry[s].server \in told
            \/ \E d \in Clients : Hand(s, cmd[d])
        BY <1>1, <4>2 DEF Kept
      <4>5. QED
        BY <4>1, <4>3, <4>4
    <3>3. QED
      BY <3>1, <3>2
  <2>2. ASSUME NEW s \in Sources, Obliged(s)'
        PROVE  \/ In(kernel, registry[s].server)'
               \/ (registry[s].server \in told)'
               \/ (\E d \in Clients : Hand(s, cmd[d]))'
    BY <2>1, <2>2 DEF In
  <2>3. QED
    BY <2>2 DEF Kept
<1>12. \A d \in Clients : Shape(cmd[d])'
  BY DEF Shape
<1>13. QED
  BY <1>6, <1>7, <1>9, <1>10, <1>11, <1>12 DEF CliInv

-----------------------------------------------------------------------------
(* Starting a command, and its look at a link path.                        *)

\* Who is obliged is mounted at a point.
LEMMA ObligedPoint ==
    ASSUME CliInv, NEW s \in Sources, Obliged(s)
    PROVE  /\ registry[s] # None /\ registry[s].path \in Points
           /\ <<s, registry[s].path>> \in Pairs /\ registry[s].server \in 1..made
BY Types, PairType DEF CliInv, Entries, Obliged, Paths

\* A command with no servers and no point for a target is in nobody's way.
LEMMA NoHand ==
    ASSUME CliInv, NEW k, k.got = {}, k.target \notin Points, NEW s \in Sources, Obliged(s)
    PROVE  ~Hand(s, k)
BY ObligedPoint DEF Hand

\* A command starts.
LEMMA BeginInv ==
    ASSUME CliInv, NEW c \in Clients, NEW k \in Cmd, Begin(c, k), Shape(k), k.got = {}
    PROVE  CliInv'
<1>1. TypeInv /\ Shape(cmd[c])
  BY DEF CliInv
<1>2. /\ cmd[c].pc = "idle" /\ begun < MaxCommands /\ begun' = begun + 1
      /\ cmd' = [cmd EXCEPT ![c] = k]
      /\ UNCHANGED <<registry, up, late, made, kernel, path, faults, told>>
  BY DEF Begin
<1>3. begun' \in 0..MaxCommands
  BY <1>1, <1>2, CliMountsAssumption, Types
<1>4. cmd[c].got = {} /\ cmd[c].target \notin Points
  BY <1>1, <1>2 DEF Shape
<1>5. late' \subseteq Pairs /\ path' \in [Links -> AtPath]
  BY <1>1, <1>2, Types
<1>6. \A s \in Sources : Obliged(s) => ~Hand(s, cmd[c])
  BY <1>4, NoHand
<1>7. QED
  BY <1>2, <1>3, <1>5, <1>6, QuietStep

\* StartMount.
LEMMA StartMountInv ==
    ASSUME CliInv, NEW c \in Clients, StartMount(c)
    PROVE  CliInv'
<1>1. PICK pairs \in (SUBSET Pairs) \ {{}}, op \in {"mount", "serve", "batch", "fskit"} :
          /\ \A q \in pairs : q[2] \in (IF op = "fskit" THEN Links ELSE Points)
          /\ Begin(c, [Idle EXCEPT !.op = op, !.asked = pairs,
                !.pc = CASE op = "batch" -> "list" [] op = "fskit" -> "stat"
                         [] OTHER -> "rpc"])
  BY DEF StartMount
<1>2. PICK pc \in {"list", "stat", "rpc"} :
         /\ pc = CASE op = "batch" -> "list" [] op = "fskit" -> "stat" [] OTHER -> "rpc"
         /\ pc = "stat" => op = "fskit"
  OBVIOUS
<1>3. PICK k : k = [Idle EXCEPT !.op = op, !.asked = pairs, !.pc = pc]
  OBVIOUS
<1>4. /\ k \in Cmd /\ k.op = op /\ k.asked = pairs /\ k.pc = pc
      /\ k.got = {} /\ k.target = None /\ k.targets = {}
  BY <1>3, IdleType DEF Idle, Cmd
<1>5. \A q \in pairs : op = "fskit" <=> q[2] \in Links
  BY <1>1, CliMountsAssumption
<1>6. None \notin Points
  BY CliMountsAssumption DEF Paths
<1>7. Shape(k)
  BY <1>2, <1>4, <1>5, <1>6 DEF Shape
<1>8. Begin(c, k)
  BY <1>1, <1>2, <1>3
<1>9. QED
  BY <1>4, <1>7, <1>8, BeginInv

\* An unmounting command as it starts.
LEMMA StartTargets ==
    ASSUME NEW op \in {"unmount", "all", "stop"}, NEW targets \in SUBSET (Sources \cup Paths),
           op = "unmount" => \E t \in Sources \cup Paths : targets = {t},
           NEW k, k = [Idle EXCEPT !.op = op, !.pc = "umount", !.targets = targets]
    PROVE  k \in Cmd /\ Shape(k) /\ k.got = {}
<1>1. /\ k \in Cmd /\ k.op = op /\ k.asked = {} /\ k.pc = "umount"
      /\ k.got = {} /\ k.target = None /\ k.targets = targets /\ k.seen = "absent"
  BY IdleType DEF Idle, Cmd
<1>2. "absent" \notin Sources /\ None \notin Points
  BY CliMountsAssumption DEF Paths
<1>3. QED
  BY <1>1, <1>2 DEF Shape

\* StartUnmount.
LEMMA StartUnmountInv ==
    ASSUME CliInv, NEW c \in Clients, StartUnmount(c)
    PROVE  CliInv'
<1>1. PICK t \in Sources \cup Paths :
        Begin(c, [Idle EXCEPT !.op = "unmount", !.pc = "umount", !.targets = {t}])
  BY DEF StartUnmount
<1>2. PICK targets \in SUBSET (Sources \cup Paths) : targets = {t}
  OBVIOUS
<1>3. PICK k : k = [Idle EXCEPT !.op = "unmount", !.pc = "umount", !.targets = targets]
  OBVIOUS
<1>4. k \in Cmd /\ Shape(k) /\ k.got = {}
  BY <1>2, <1>3, StartTargets
<1>5. Begin(c, k)
  BY <1>1, <1>2, <1>3
<1>6. QED
  BY <1>4, <1>5, BeginInv

\* StartAll.
LEMMA StartAllInv ==
    ASSUME CliInv, NEW c \in Clients, StartAll(c)
    PROVE  CliInv'
<1>1. PICK op \in {"all", "stop"}, under \in {Points, Paths} :
        Begin(c, [Idle EXCEPT !.op = op, !.pc = "umount", !.targets =
                {IF op = "all" THEN registry[s].path ELSE s :
                    s \in {t \in Sources : registry[t] # None /\ registry[t].path \in under}}])
  BY DEF StartAll
<1>2. PICK targets : targets = {IF op = "all" THEN registry[s].path ELSE s :
                    s \in {t \in Sources : registry[t] # None /\ registry[t].path \in under}}
  OBVIOUS
<1>3. targets \in SUBSET (Sources \cup Paths)
  BY <1>2, EntryType DEF CliInv
<1>4. PICK k : k = [Idle EXCEPT !.op = op, !.pc = "umount", !.targets = targets]
  OBVIOUS
<1>5. k \in Cmd /\ Shape(k) /\ k.got = {}
  BY <1>3, <1>4, StartTargets
<1>6. Begin(c, k)
  BY <1>1, <1>2, <1>4
<1>7. QED
  BY <1>5, <1>6, BeginInv

\* SkipActive.
LEMMA SkipActiveInv ==
    ASSUME CliInv, NEW c \in Clients, SkipActive(c)
    PROVE  CliInv'
<1>1. TypeInv /\ Shape(cmd[c]) /\ cmd[c] \in Cmd /\ cmd \in [Clients -> Cmd]
  BY CmdType DEF CliInv
<1>2. \E asked \in SUBSET cmd[c].asked :
         cmd' = [cmd EXCEPT ![c].pc = "rpc", ![c].asked = asked]
  <2>1. PICK active : active = {registry[s].path : s \in {t \in Sources : registry[t] # None}}
    OBVIOUS
  <2>2. CASE cmd' = [cmd EXCEPT ![c].pc = "rpc", ![c].asked = {q \in @ : q[2] \notin active}]
    <3>1. cmd' = [cmd EXCEPT ![c].pc = "rpc", ![c].asked = {q \in cmd[c].asked : q[2] \notin active}]
      BY <1>1, <2>2 DEF Cmd
    <3>2. QED
      BY <3>1
  <2>3. CASE cmd' = [cmd EXCEPT ![c].pc = "rpc"]
    <3>1. cmd' = [cmd EXCEPT ![c].pc = "rpc", ![c].asked = cmd[c].asked]
      BY <1>1, <2>3 DEF Cmd
    <3>2. QED
      BY <3>1
  <2>4. QED
    BY <2>1, <2>2, <2>3 DEF SkipActive
<1>3. PICK asked \in SUBSET cmd[c].asked :
         cmd' = [cmd EXCEPT ![c].pc = "rpc", ![c].asked = asked]
  BY <1>2
<1>4. PICK k : k = [cmd[c] EXCEPT !.pc = "rpc", !.asked = asked]
  OBVIOUS
<1>5. /\ k \in Cmd /\ k.pc = "rpc" /\ k.asked = asked /\ k.got = cmd[c].got /\ k.op = cmd[c].op
      /\ k.target = cmd[c].target /\ k.targets = cmd[c].targets /\ k.seen = cmd[c].seen
  BY <1>1, <1>3, <1>4 DEF Cmd
<1>6. cmd' = [cmd EXCEPT ![c] = k]
  BY <1>1, <1>3, <1>4
<1>7. cmd[c].pc = "list" /\ (Fault \/ NoFault)
      /\ UNCHANGED <<registry, up, late, made, kernel, path, begun, told>>
  BY DEF SkipActive
<1>8. Shape(k)
  BY <1>1, <1>3, <1>5, <1>7 DEF Shape
<1>9. late' \subseteq Pairs /\ path' \in [Links -> AtPath] /\ begun' \in 0..MaxCommands
  BY <1>1, <1>7, Types
<1>10. cmd[c].got = {} /\ cmd[c].target \notin Points
  BY <1>1, <1>7 DEF Shape
<1>11. \A s \in Sources : Obliged(s) => ~Hand(s, cmd[c])
  BY <1>10, NoHand
<1>12. QED
  BY <1>5, <1>6, <1>7, <1>8, <1>9, <1>11, QuietStep

\* A look at a link path, or what is done after it, by a command that has no
\* servers and no point for a target.
LEMMA LookInv ==
    ASSUME CliInv, NEW c \in Clients, NEW k \in Cmd, cmd' = [cmd EXCEPT ![c] = k],
           cmd[c].pc \in {"stat", "clear", "remove"}, Shape(k), k.got = {},
           UNCHANGED <<registry, up, late, made, kernel, begun, faults, told>>,
           path' \in [Links -> AtPath]
    PROVE  CliInv'
<1>1. TypeInv /\ Shape(cmd[c])
  BY DEF CliInv
<1>2. cmd[c].got = {} /\ cmd[c].target \notin Points
  BY <1>1 DEF Shape
<1>3. late' \subseteq Pairs /\ begun' \in 0..MaxCommands
  BY <1>1, Types
<1>4. \A s \in Sources : Obliged(s) => ~Hand(s, cmd[c])
  BY <1>2, NoHand
<1>5. QED
  BY <1>2, <1>3, <1>4, QuietStep

\* StatPath.
LEMMA StatPathInv ==
    ASSUME CliInv, NEW c \in Clients, StatPath(c)
    PROVE  CliInv'
<1>1. TypeInv /\ Shape(cmd[c]) /\ cmd[c] \in Cmd /\ cmd \in [Clients -> Cmd]
  BY CmdType DEF CliInv
<1>2. PICK q \in cmd[c].asked :
         cmd' = [cmd EXCEPT ![c].pc = IF path[q[2]] = "absent" THEN "rpc" ELSE "clear",
                            ![c].seen = path[q[2]], ![c].target = q[2]]
  BY DEF StatPath
<1>3. /\ cmd[c].pc = "stat"
      /\ UNCHANGED <<registry, up, late, made, kernel, path, begun, faults, told>>
  BY DEF StatPath
<1>4. q[2] \in Links /\ q[2] \in Paths /\ path[q[2]] \in AtPath /\ q[2] \notin Points
      /\ cmd[c].op = "fskit"
  <2>1. q[2] \in Links /\ cmd[c].op = "fskit"
    BY <1>1, <1>3 DEF Shape
  <2>2. QED
    BY <1>1, <2>1, CliMountsAssumption, Types DEF Paths
<1>5. PICK pc \in {"rpc", "clear"} : pc = IF path[q[2]] = "absent" THEN "rpc" ELSE "clear"
  OBVIOUS
<1>6. PICK k : k = [cmd[c] EXCEPT !.pc = pc, !.seen = path[q[2]], !.target = q[2]]
  OBVIOUS
<1>7. /\ k \in Cmd /\ k.pc = pc /\ k.got = cmd[c].got /\ k.target = q[2] /\ k.op = cmd[c].op
      /\ k.asked = cmd[c].asked /\ k.targets = cmd[c].targets
  BY <1>1, <1>4, <1>6 DEF Cmd
<1>8. cmd' = [cmd EXCEPT ![c] = k]
  BY <1>1, <1>2, <1>5, <1>6
<1>9. Shape(k) /\ k.got = {}
  BY <1>1, <1>3, <1>4, <1>7 DEF Shape
<1>10. path' \in [Links -> AtPath]
  BY <1>1, <1>3, Types
<1>11. QED
  BY <1>3, <1>7, <1>8, <1>9, <1>10, LookInv

\* The command goes on after its look, or is done.
LEMMA ClearedCmd ==
    ASSUME CliInv, NEW c \in Clients, cmd[c].pc \in {"clear", "remove"},
           cmd' = Cleared(c) \/ cmd' = Ended(c)
    PROVE  \E k \in Cmd : cmd' = [cmd EXCEPT ![c] = k] /\ Shape(k) /\ k.got = {}
<1>1. TypeInv /\ Shape(cmd[c]) /\ cmd[c] \in Cmd /\ cmd \in [Clients -> Cmd]
  BY CmdType DEF CliInv
<1>2. CASE cmd' = [cmd EXCEPT ![c] = Idle]
  BY <1>2, IdleShape
<1>3. CASE cmd' = [cmd EXCEPT ![c] = [@ EXCEPT !.pc = "rpc"]] /\ cmd[c].op = "fskit"
  <2>1. PICK k : k = [cmd[c] EXCEPT !.pc = "rpc"]
    OBVIOUS
  <2>2. /\ k \in Cmd /\ k.pc = "rpc" /\ k.got = cmd[c].got /\ k.target = cmd[c].target
        /\ k.asked = cmd[c].asked /\ k.targets = cmd[c].targets /\ k.op = cmd[c].op
    BY <1>1, <2>1 DEF Cmd
  <2>3. cmd' = [cmd EXCEPT ![c] = k]
    BY <1>1, <1>3, <2>1
  <2>4. Shape(k) /\ k.got = {}
    BY <1>1, <1>3, <2>2 DEF Shape
  <2>5. QED
    BY <2>2, <2>3, <2>4
<1>4. QED
  BY <1>2, <1>3 DEF Cleared, Ended

\* RemoveDir, CheckLink and RemoveLink.
LEMMA ClearInv ==
    ASSUME CliInv, NEW c \in Clients, RemoveDir(c) \/ CheckLink(c) \/ RemoveLink(c)
    PROVE  CliInv'
<1>1. TypeInv /\ Shape(cmd[c]) /\ cmd[c] \in Cmd /\ cmd \in [Clients -> Cmd]
  BY CmdType DEF CliInv
<1>2. /\ cmd[c].pc \in {"clear", "remove"}
      /\ UNCHANGED <<registry, up, late, made, kernel, begun, faults, told>>
  BY DEF RemoveDir, CheckLink, RemoveLink
<1>3. path' \in [Links -> AtPath]
  <2>1. \E l : path' = path \/ path' = [path EXCEPT ![l] = "absent"]
    BY DEF RemoveDir, CheckLink, RemoveLink
  <2>2. "absent" \in AtPath
    BY DEF AtPath, Users
  <2>3. QED
    BY <1>1, <2>1, <2>2, PathType, Types
<1>4. CASE cmd' = Cleared(c) \/ cmd' = Ended(c)
  BY <1>2, <1>3, <1>4, ClearedCmd, LookInv
<1>5. CASE cmd' = [cmd EXCEPT ![c].pc = "remove"]
  <2>1. PICK k : k = [cmd[c] EXCEPT !.pc = "remove"]
    OBVIOUS
  <2>2. /\ k \in Cmd /\ k.pc = "remove" /\ k.got = cmd[c].got /\ k.target = cmd[c].target
        /\ k.asked = cmd[c].asked /\ k.targets = cmd[c].targets /\ k.op = cmd[c].op
    BY <1>1, <2>1 DEF Cmd
  <2>3. cmd' = [cmd EXCEPT ![c] = k]
    BY <1>1, <1>5, <2>1
  <2>4. Shape(k) /\ k.got = {}
    BY <1>1, <1>2, <2>2 DEF Shape
  <2>5. QED
    BY <1>2, <1>3, <2>2, <2>3, <2>4, LookInv
<1>6. QED
  BY <1>4, <1>5 DEF RemoveDir, CheckLink, RemoveLink

-----------------------------------------------------------------------------
(* Mounting.                                                               *)

\* MountRefused and MountTimesOut.
LEMMA MountFailsInv ==
    ASSUME CliInv, NEW c \in Clients, MountRefused(c) \/ MountTimesOut(c)
    PROVE  CliInv'
<1>1. TypeInv /\ Shape(cmd[c]) /\ cmd[c] \in Cmd /\ cmd \in [Clients -> Cmd]
  BY CmdType DEF CliInv
<1>2. /\ cmd[c].pc = "rpc" /\ (Fault \/ NoFault)
      /\ UNCHANGED <<registry, up, made, kernel, path, begun, told>>
  BY DEF MountRefused, MountTimesOut
<1>3. PICK q \in cmd[c].asked : /\ cmd' = [cmd EXCEPT ![c].asked = @ \ {q}]
                                /\ late' = late \/ late' = late \cup {q}
  BY DEF MountRefused, MountTimesOut
<1>4. late' \subseteq Pairs /\ path' \in [Links -> AtPath] /\ begun' \in 0..MaxCommands
  <2>1. q \in Pairs
    BY <1>1, CmdType
  <2>2. QED
    BY <1>1, <1>2, <1>3, <2>1, Types
<1>5. PICK k : k = [cmd[c] EXCEPT !.asked = cmd[c].asked \ {q}]
  OBVIOUS
<1>6. /\ k \in Cmd /\ k.pc = "rpc" /\ k.got = cmd[c].got /\ k.target = cmd[c].target
      /\ k.op = cmd[c].op /\ k.asked = cmd[c].asked \ {q} /\ k.targets = cmd[c].targets
  BY <1>1, <1>2, <1>5 DEF Cmd
<1>7. cmd' = [cmd EXCEPT ![c] = k]
  BY <1>1, <1>3, <1>5
<1>8. Shape(k)
  BY <1>1, <1>2, <1>6 DEF Shape
<1>9. \A s \in Sources : Hand(s, cmd[c]) => Hand(s, k)
  BY <1>6 DEF Hand
<1>10. QED
  BY <1>2, <1>4, <1>6, <1>7, <1>8, <1>9, QuietStep

\* MountAnswered.
LEMMA MountAnsweredInv ==
    ASSUME CliInv, NEW c \in Clients, MountAnswered(c)
    PROVE  CliInv'
<1>1. /\ TypeInv /\ cmd[c] \in Cmd /\ cmd \in [Clients -> Cmd] /\ made \in Nat
      /\ \A d \in Clients : Shape(cmd[d])
  BY CmdType, Types DEF CliInv
<1>2. /\ cmd[c].pc = "rpc"
      /\ UNCHANGED <<up, late, kernel, path, begun, faults>>
  BY DEF MountAnswered
<1>3. PICK q \in cmd[c].asked :
        /\ DaemonMount(q)
        /\ cmd' = [cmd EXCEPT ![c].asked = @ \ {q}, ![c].got = @ \cup {<<q, made + 1>>}]
        /\ told' = IF cmd[c].op = "serve" THEN told \cup {made + 1} ELSE told
  BY DEF MountAnswered
<1>4. q \in Pairs /\ late' \subseteq Pairs
  BY <1>1, <1>2, CmdType, Types
<1>5. PICK g : g = <<q, made + 1>>
  OBVIOUS
<1>6. g \in Pairs \X Nat /\ g[1] = q
  BY <1>1, <1>4, <1>5
<1>7. PICK got \in SUBSET (Pairs \X Nat) : got = cmd[c].got \cup {g}
  <2>1. cmd[c].got \subseteq Pairs \X Nat
    BY <1>1, CmdType
  <2>2. cmd[c].got \cup {g} \in SUBSET (Pairs \X Nat)
    BY <1>6, <2>1
  <2>3. QED
    BY <2>2
<1>8. PICK k : k = [cmd[c] EXCEPT !.asked = cmd[c].asked \ {q}, !.got = got]
  OBVIOUS
<1>9. /\ k \in Cmd /\ k.pc = "rpc" /\ k.target = cmd[c].target /\ k.op = cmd[c].op
      /\ k.got = got /\ k.asked = cmd[c].asked \ {q} /\ k.targets = cmd[c].targets
  BY <1>1, <1>2, <1>8 DEF Cmd
<1>10. cmd' = [cmd EXCEPT ![c] = k]
  BY <1>1, <1>3, <1>5, <1>7, <1>8
<1>11. Shape(k)
  <2>1. \A h \in k.got : h \in cmd[c].got \/ h[1] = q
    BY <1>6, <1>7, <1>9
  <2>2. QED
    BY <1>1, <1>2, <1>3, <1>9, <2>1 DEF Shape
<1>12. cmd' \in [Clients -> Cmd] /\ cmd'[c] = k /\ \A d \in Clients \ {c} : cmd'[d] = cmd[d]
  BY <1>1, <1>9, <1>10, CmdUpdate
<1>13. \A d \in Clients : Shape(cmd'[d])
  BY <1>1, <1>11, <1>12
<1>14. \A d \in Clients : /\ cmd[d].got \subseteq cmd'[d].got
                          /\ cmd'[d].got \subseteq cmd[d].got \cup {g}
                          /\ cmd'[d].op = cmd[d].op /\ cmd'[d].target = cmd[d].target
  BY <1>7, <1>9, <1>12
<1>15. told \subseteq told' /\ told' \subseteq told \cup {made + 1}
       /\ (cmd[c].op = "serve" => made + 1 \in told')
  BY <1>3
<1>16. g \in cmd'[c].got
  BY <1>7, <1>9, <1>12
<1>17. \A d \in Clients : cmd[d].op = "serve" /\ g \in cmd'[d].got => made + 1 \in told'
  <2>1. ASSUME NEW d \in Clients, cmd[d].op = "serve", g \in cmd'[d].got, d # c PROVE FALSE
    <3>1. g \in cmd[d].got
      BY <1>12, <2>1
    <3>2. g[2] \in 1..made
      BY <2>1, <3>1 DEF CliInv, Own
    <3>3. QED
      BY <1>1, <1>5, <3>2
  <2>2. QED
    BY <1>15, <2>1
<1>18. QED
  BY <1>2, <1>3, <1>4, <1>5, <1>12, <1>13, <1>14, <1>15, <1>16, <1>17, RegisterStep

\* LateMount.
LEMMA LateMountInv ==
    ASSUME CliInv, NEW q \in Pairs, LateMount(q)
    PROVE  CliInv'
<1>1. UNCHANGED <<up, kernel, path, cmd, begun, faults>> /\ late' \subseteq Pairs
  BY Types DEF LateMount, CliInv
<1>2. CASE UNCHANGED <<registry, made, told>>
  <2>1. TypeInv'
    BY <1>1, <1>2, NextTypes, Types DEF CliInv
  <2>2. QED
    BY <1>1, <1>2, <2>1 DEF CliInv, Entries, Placed, Own, Kept, Obliged, Hand, In
<1>3. CASE DaemonMount(q) /\ told' = told \cup {made + 1}
  <2>1. cmd' \in [Clients -> Cmd] /\ \A d \in Clients : Shape(cmd'[d])
    BY <1>1, Types DEF CliInv
  <2>2. \A d \in Clients : /\ cmd[d].got \subseteq cmd'[d].got
                           /\ cmd'[d].got \subseteq cmd[d].got \cup {<<q, made + 1>>}
                           /\ cmd'[d].op = cmd[d].op /\ cmd'[d].target = cmd[d].target
    BY <1>1
  <2>3. told \subseteq told' /\ told' \subseteq told \cup {made + 1} /\ made + 1 \in told'
    BY <1>3
  <2>4. QED
    BY <1>1, <1>3, <2>1, <2>2, <2>3, RegisterStep
<1>4. QED
  BY <1>2, <1>3 DEF LateMount

\* KernelMount.
LEMMA KernelMountInv ==
    ASSUME CliInv, NEW c \in Clients, NEW g \in cmd[c].got, KernelMount(c, g)
    PROVE  CliInv'
<1>1. TypeInv /\ Shape(cmd[c]) /\ cmd[c] \in Cmd /\ cmd \in [Clients -> Cmd]
  BY CmdType DEF CliInv
<1>2. /\ cmd[c].pc = "rpc" /\ (Fault \/ NoFault) /\ cmd[c].op \in {"mount", "batch"}
      /\ UNCHANGED <<registry, up, late, made, path, begun, told>>
  BY DEF KernelMount
<1>3. /\ g[1] \in Pairs /\ g[2] \in Nat /\ g[1][2] \in Points /\ g[1][2] \in Paths
      /\ g[2] \in 1..made
  <2>1. g[1] \in Pairs /\ g[2] \in Nat
    BY <1>1, CmdType
  <2>2. g[1][2] \notin Links
    BY <1>1, <1>2 DEF Shape
  <2>3. QED
    BY <2>1, <2>2, PairType DEF Paths, CliInv, Own
<1>4. /\ late' \subseteq Pairs /\ path' \in [Links -> AtPath] /\ begun' \in 0..MaxCommands
      /\ faults' \in 0..MaxFaults /\ told' \subseteq 1..made
      /\ registry' \in [Sources -> Entry \cup {None}] /\ kernel \in [Points -> Seq(Nat)]
      /\ up' \in BOOLEAN
  BY <1>1, <1>2, FaultType, Types
<1>5. CASE /\ Pushed(kernel, g[1][2], g[2], kernel')
           /\ cmd' = [cmd EXCEPT ![c].got = @ \ {g}]
  <2>1. PICK k : k = [cmd[c] EXCEPT !.got = cmd[c].got \ {g}]
    OBVIOUS
  <2>2. /\ k \in Cmd /\ k.pc = "rpc" /\ k.got = cmd[c].got \ {g} /\ k.op = cmd[c].op
        /\ k.asked = cmd[c].asked /\ k.targets = cmd[c].targets /\ k.target = cmd[c].target
    BY <1>1, <1>2, <2>1 DEF Cmd
  <2>3. cmd' = [cmd EXCEPT ![c] = k]
    BY <1>1, <1>5, <2>1
  <2>4. Shape(k)
    BY <1>1, <1>2, <2>2 DEF Shape
  <2>5. PICK p \in Points : p = g[1][2]
    BY <1>3
  <2>6. /\ kernel' \in [Points -> Seq(Nat)]
        /\ \A r \in Points \ {p} : kernel'[r] = kernel[r]
        /\ \A i \in 1..Len(kernel'[p]) :
              \/ i = 1 /\ kernel'[p][i] = g[2]
              \/ i - 1 \in 1..Len(kernel[p]) /\ kernel'[p][i] = kernel[p][i - 1]
        /\ \A m : In(kernel', m) <=> m = g[2] \/ In(kernel, m)
    <3>1. kernel \in [Points -> Seq(Nat)] /\ g[2] \in Nat /\ Pushed(kernel, p, g[2], kernel')
      BY <1>3, <1>4, <1>5, <2>5
    <3>2. PICK K, n, L : /\ K = kernel /\ n = g[2] /\ L = kernel' /\ Pushed(K, p, n, L)
                         /\ K \in [Points -> Seq(Nat)] /\ n \in Nat
      BY <3>1
    <3>3. /\ L \in [Points -> Seq(Nat)]
          /\ \A r \in Points \ {p} : L[r] = K[r]
          /\ \A i \in 1..Len(L[p]) : \/ i = 1 /\ L[p][i] = n
                                     \/ i - 1 \in 1..Len(K[p]) /\ L[p][i] = K[p][i - 1]
          /\ \A m : In(L, m) <=> m = n \/ In(K, m)
      BY ONLY <3>2, p \in Points, Push
    <3>4. QED
      BY ONLY <3>2, <3>3
  <2>7. ASSUME NEW r \in Points, NEW i \in 1..Len(kernel'[r])
        PROVE  \/ \E j \in 1..Len(kernel[r]) : kernel'[r][i] = kernel[r][j]
               \/ \E h \in cmd[c].got : h[1][2] = r /\ h[2] = kernel'[r][i]
    <3>1. CASE r = p
      <4>1. \/ kernel'[r][i] = g[2]
            \/ \E j \in 1..Len(kernel[r]) : kernel'[r][i] = kernel[r][j]
        BY ONLY <2>6, <3>1, i \in 1..Len(kernel'[r])
      <4>2. QED
        BY <2>5, <3>1, <4>1
    <3>2. CASE r # p
      <4>1. kernel'[r] = kernel[r]
        BY <2>6, <3>2
      <4>2. QED
        BY ONLY <4>1, i \in 1..Len(kernel'[r])
    <3>3. QED
      BY <3>1, <3>2
  <2>8. ASSUME NEW s \in Sources, In(kernel, registry[s].server) \/ Hand(s, cmd[c])
        PROVE  In(kernel', registry[s].server) \/ Hand(s, k)
    BY <2>2, <2>6, <2>8 DEF Hand
  <2>9. QED
    BY <1>2, <1>4, <2>2, <2>3, <2>4, <2>6, <2>7, <2>8, CommandStep
<1>6. CASE /\ UNCHANGED kernel
           /\ cmd' = [cmd EXCEPT ![c].got = @ \ {g}, ![c].pc = "cleanup", ![c].target = g[1][2]]
  <2>1. PICK k : k = [cmd[c] EXCEPT !.got = cmd[c].got \ {g}, !.pc = "cleanup", !.target = g[1][2]]
    OBVIOUS
  <2>2. /\ k \in Cmd /\ k.pc = "cleanup" /\ k.got = cmd[c].got \ {g} /\ k.op = cmd[c].op
        /\ k.asked = cmd[c].asked /\ k.targets = cmd[c].targets /\ k.target = g[1][2]
    BY <1>1, <1>3, <2>1 DEF Cmd
  <2>3. cmd' = [cmd EXCEPT ![c] = k]
    BY <1>1, <1>6, <2>1
  <2>4. Shape(k)
    BY <1>1, <1>2, <2>2 DEF Shape
  <2>5. ASSUME NEW s \in Sources, Obliged(s), Hand(s, cmd[c]) PROVE Hand(s, k)
    <3>1. cmd[c].target # registry[s].path
      BY <1>1, <1>2, <2>5, ObligedPoint DEF Shape
    <3>2. CASE \E h \in k.got : h[2] = registry[s].server
      BY <3>2 DEF Hand
    <3>3. CASE g[2] = registry[s].server
      <4>1. registry[s].path = g[1][2]
        BY <2>5, <3>3 DEF CliInv, Own, Obliged
      <4>2. QED
        BY <2>2, <4>1 DEF Hand
    <3>4. QED
      BY <2>2, <2>5, <3>1, <3>2, <3>3 DEF Hand
  <2>6. QED
    BY <1>2, <1>4, <1>6, <2>2, <2>3, <2>4, <2>5, QuietStep
<1>7. QED
  BY <1>5, <1>6 DEF KernelMount, Pushed

\* Link.
LEMMA LinkInv ==
    ASSUME CliInv, NEW c \in Clients, NEW g \in cmd[c].got, Link(c, g)
    PROVE  CliInv'
<1>1. TypeInv /\ Shape(cmd[c]) /\ cmd[c] \in Cmd /\ cmd \in [Clients -> Cmd]
  BY CmdType DEF CliInv
<1>2. /\ cmd[c].pc = "rpc" /\ cmd[c].op = "fskit" /\ cmd' = [cmd EXCEPT ![c].got = @ \ {g}]
      /\ UNCHANGED <<registry, up, late, made, kernel, begun, faults, told>>
  BY DEF Link
<1>3. g[1] \in Pairs /\ g[1][2] \in Links /\ g[1][1] \in AtPath /\ g[1][2] \notin Points
  <2>1. g[1] \in Pairs
    BY <1>1, CmdType
  <2>2. g[1][2] \in Links
    BY <1>1, <1>2 DEF Shape
  <2>3. QED
    BY <2>1, <2>2, PairType, CliMountsAssumption DEF AtPath
<1>4. path' \in [Links -> AtPath]
  <2>1. path' = path \/ path' = [path EXCEPT ![g[1][2]] = g[1][1]]
    BY DEF Link
  <2>2. QED
    BY <1>1, <1>3, <2>1, PathType, Types
<1>5. PICK k : k = [cmd[c] EXCEPT !.got = cmd[c].got \ {g}]
  OBVIOUS
<1>6. /\ k \in Cmd /\ k.pc = "rpc" /\ k.got = cmd[c].got \ {g} /\ k.op = cmd[c].op
      /\ k.asked = cmd[c].asked /\ k.targets = cmd[c].targets /\ k.target = cmd[c].target
  BY <1>1, <1>2, <1>5 DEF Cmd
<1>7. cmd' = [cmd EXCEPT ![c] = k]
  BY <1>1, <1>2, <1>5
<1>8. Shape(k)
  BY <1>1, <1>2, <1>6 DEF Shape
<1>9. ASSUME NEW s \in Sources, Obliged(s), Hand(s, cmd[c]) PROVE Hand(s, k)
  <2>1. registry[s] # None /\ registry[s].path \in Points
    BY <1>9, ObligedPoint
  <2>2. g[2] # registry[s].server
    BY <1>3, <2>1 DEF CliInv, Own
  <2>3. QED
    BY <1>6, <1>9, <2>2 DEF Hand
<1>10. late' \subseteq Pairs /\ begun' \in 0..MaxCommands
  BY <1>1, <1>2, Types
<1>11. QED
  BY <1>2, <1>4, <1>6, <1>7, <1>8, <1>9, <1>10, QuietStep

\* MountEnds.
LEMMA MountEndsInv ==
    ASSUME CliInv, NEW c \in Clients, MountEnds(c)
    PROVE  CliInv'
<1>1. TypeInv /\ Shape(cmd[c])
  BY DEF CliInv
<1>2. /\ cmd[c].pc = "rpc" /\ (cmd[c].got = {} \/ cmd[c].op = "serve")
      /\ cmd' = [cmd EXCEPT ![c] = Idle]
      /\ UNCHANGED <<registry, up, late, made, kernel, path, begun, faults, told>>
  BY DEF MountEnds
<1>3. late' \subseteq Pairs /\ path' \in [Links -> AtPath] /\ begun' \in 0..MaxCommands
  BY <1>1, <1>2, Types
<1>4. ASSUME NEW s \in Sources, Obliged(s), Hand(s, cmd[c]) PROVE registry[s].server \in told
  <2>1. cmd[c].target # registry[s].path
    BY <1>1, <1>2, <1>4, ObligedPoint DEF Shape
  <2>2. QED
    BY <1>2, <1>4, <2>1 DEF Hand, CliInv, Own
<1>5. QED
  BY <1>2, <1>3, <1>4, IdleShape, QuietStep

-----------------------------------------------------------------------------
(* Unmounting.                                                             *)

\* An unmount call about the mounts of sources S: the daemon ends one, or the
\* user is told of what stays.
Calls(S) ==
    \/ UNCHANGED told /\ \E s \in S : DaemonUnmount(s)
    \/ UNCHANGED registry /\ told' = told \cup {registry[s].server : s \in S}

\* What a call leaves.
LEMMA CallsLeave ==
    ASSUME TypeInv, NEW S \in SUBSET Sources, \A s \in S : registry[s] # None, Calls(S)
    PROVE  /\ registry' \in [Sources -> Entry \cup {None}]
           /\ \A s \in Sources : registry'[s] = registry[s] \/ registry'[s] = None
           /\ told \subseteq told' /\ told' \subseteq 1..made
           /\ \A s \in S : (\A t \in S : s = t) /\ registry'[s] = registry[s] =>
                              registry[s].server \in told'
<1>1. registry \in [Sources -> Entry \cup {None}] /\ told \subseteq 1..made
  BY Types
<1>2. CASE UNCHANGED told /\ \E s \in S : DaemonUnmount(s)
  <2>1. PICK s \in S : registry' = [registry EXCEPT ![s] = None]
    BY <1>2 DEF DaemonUnmount
  <2>2. /\ registry' \in [Sources -> Entry \cup {None}] /\ registry'[s] = None
        /\ \A t \in Sources : t # s => registry'[t] = registry[t]
    BY <1>1, <2>1
  <2>3. QED
    BY <1>1, <1>2, <2>2
<1>3. CASE UNCHANGED registry /\ told' = told \cup {registry[s].server : s \in S}
  <2>1. \A s \in S : registry[s].server \in 1..made
    BY Types
  <2>2. QED
    BY <1>1, <1>3, <2>1
<1>4. QED
  BY <1>2, <1>3 DEF Calls

\* At a point of one source, the daemon finds that source's mount only.
LEMMA FoundAlone ==
    ASSUME CliInv, NEW s \in Sources, Obliged(s)
    PROVE  Found(registry[s].path) = {s}
<1>1. /\ registry[s].path \in Points /\ <<s, registry[s].path>> \in Pairs
      /\ registry[s] # None /\ ~Shared(registry[s].path)
  BY ObligedPoint DEF Obliged
<1>2. registry[s].path \notin Sources
  BY <1>1, CliMountsAssumption DEF Paths
<1>3. ASSUME NEW t \in Found(registry[s].path) PROVE t = s
  <2>1. t \in Sources /\ registry[t] # None /\ registry[t].path = registry[s].path
    BY <1>2 DEF Found
  <2>2. <<t, registry[s].path>> \in Pairs
    BY <2>1 DEF CliInv, Entries
  <2>3. <<t, registry[s].path>>[2] = registry[s].path /\ <<s, registry[s].path>>[2] = registry[s].path
    OBVIOUS
  <2>4. <<t, registry[s].path>> = <<s, registry[s].path>>
    BY <1>1, <2>2, <2>3 DEF Shared
  <2>5. QED
    BY <2>4
<1>4. s \in Found(registry[s].path)
  BY <1>1 DEF Found
<1>5. QED
  BY <1>3, <1>4

\* A command that is through with its call, about mounts S that include what is
\* at its target when that is a point.
LEMMA CallInv ==
    ASSUME CliInv, NEW c \in Clients, NEW k \in Cmd, cmd' = [cmd EXCEPT ![c] = k],
           Shape(k), k.got = cmd[c].got, k.got # {} => k.op = cmd[c].op,
           NEW S \in SUBSET Sources, \A s \in S : registry[s] # None, Calls(S),
           cmd[c].target \in Points => S = Found(cmd[c].target),
           UNCHANGED <<up, late, made, kernel, path, begun>>,
           faults' = faults \/ Fault \/ NoFault
    PROVE  CliInv'
<1>1. TypeInv /\ Shape(cmd[c])
  BY DEF CliInv
<1>2. /\ registry' \in [Sources -> Entry \cup {None}]
      /\ \A s \in Sources : registry'[s] = registry[s] \/ registry'[s] = None
      /\ told \subseteq told' /\ told' \subseteq 1..made
      /\ \A s \in S : (\A t \in S : s = t) /\ registry'[s] = registry[s] =>
                         registry[s].server \in told'
  BY <1>1, CallsLeave
<1>3. /\ late' \subseteq Pairs /\ path' \in [Links -> AtPath] /\ begun' \in 0..MaxCommands
      /\ faults' \in 0..MaxFaults /\ up' \in BOOLEAN /\ kernel' \in [Points -> Seq(Nat)]
  BY <1>1, FaultType, Types DEF NoFault
<1>4. \A n : In(kernel', n) <=> In(kernel, n)
  BY DEF In
<1>5. \A p \in Points : \A i \in 1..Len(kernel'[p]) :
         \E j \in 1..Len(kernel[p]) : kernel'[p][i] = kernel[p][j]
  OBVIOUS
<1>6. ASSUME NEW s \in Sources, Obliged(s), registry'[s] = registry[s], Hand(s, cmd[c])
      PROVE  registry[s].server \in told' \/ Hand(s, k)
  <2>1. CASE cmd[c].target = registry[s].path
    <3>1. S = {s}
      BY <1>6, <2>1, FoundAlone, ObligedPoint
    <3>2. QED
      BY <1>2, <1>6, <3>1
  <2>2. CASE cmd[c].target # registry[s].path
    BY <1>6, <2>2 DEF Hand
  <2>3. QED
    BY <2>1, <2>2
<1>7. QED
  BY <1>2, <1>3, <1>4, <1>5, <1>6, CommandStep

\* Cleanup.
LEMMA CleanupInv ==
    ASSUME CliInv, NEW c \in Clients, Cleanup(c)
    PROVE  CliInv'
<1>1. TypeInv /\ Shape(cmd[c]) /\ cmd[c] \in Cmd /\ cmd \in [Clients -> Cmd]
  BY CmdType DEF CliInv
<1>2. /\ cmd[c].pc = "cleanup" /\ (Fault \/ NoFault)
      /\ UNCHANGED <<up, late, made, kernel, path, begun>>
      /\ cmd' = [cmd EXCEPT ![c].pc = "rpc", ![c].target = None]
  BY DEF Cleanup
<1>3. Calls(Found(cmd[c].target))
  BY DEF Cleanup, Calls
<1>4. PICK k : k = [cmd[c] EXCEPT !.pc = "rpc", !.target = None]
  OBVIOUS
<1>5. /\ k \in Cmd /\ k.pc = "rpc" /\ k.target = None /\ k.op = cmd[c].op
      /\ k.got = cmd[c].got /\ k.asked = cmd[c].asked /\ k.targets = cmd[c].targets
  BY <1>1, <1>4 DEF Cmd
<1>6. cmd' = [cmd EXCEPT ![c] = k]
  BY <1>1, <1>2, <1>4
<1>7. None \notin Points
  BY CliMountsAssumption DEF Paths
<1>8. Shape(k)
  BY <1>1, <1>2, <1>5, <1>7 DEF Shape
<1>9. Found(cmd[c].target) \in SUBSET Sources /\ \A s \in Found(cmd[c].target) : registry[s] # None
  BY DEF Found
<1>10. QED
  BY <1>2, <1>3, <1>5, <1>6, <1>8, <1>9, CallInv

\* The daemon finds what a command wants among its mounts; at a point, by it.
LEMMA WantedType ==
    ASSUME NEW c \in Clients, Shape(cmd[c]), cmd[c].pc = "unrpc"
    PROVE  /\ Wanted(c) \in SUBSET Sources /\ \A s \in Wanted(c) : registry[s] # None
           /\ cmd[c].target \in Points => Wanted(c) = Found(cmd[c].target)
<1>1. Points \cap Links = {}
  BY CliMountsAssumption
<1>2. QED
  BY <1>1 DEF Wanted, Found, HasVolume, Shape

\* UnmountRpc.
LEMMA UnmountRpcInv ==
    ASSUME CliInv, NEW c \in Clients, UnmountRpc(c)
    PROVE  CliInv'
<1>1. TypeInv /\ Shape(cmd[c]) /\ cmd[c] \in Cmd /\ cmd \in [Clients -> Cmd]
  BY CmdType DEF CliInv
<1>2. /\ cmd[c].pc = "unrpc" /\ TargetDone(c) /\ (faults' = faults \/ Fault \/ NoFault)
      /\ UNCHANGED <<up, late, made, kernel, path, begun>>
  BY DEF UnmountRpc
<1>3. Calls(Wanted(c))
  BY DEF UnmountRpc, Calls
<1>4. cmd[c].got = {}
  BY <1>1, <1>2 DEF Shape
<1>5. \E k \in Cmd : cmd' = [cmd EXCEPT ![c] = k] /\ Shape(k) /\ k.got = {}
  <2>1. PICK rest : rest = cmd[c].targets \ {cmd[c].target}
    OBVIOUS
  <2>2. CASE cmd' = [cmd EXCEPT ![c] = [@ EXCEPT !.pc = "clear"]] /\ cmd[c].seen \in Sources
    <3>1. PICK k : k = [cmd[c] EXCEPT !.pc = "clear"]
      OBVIOUS
    <3>2. /\ k \in Cmd /\ k.pc = "clear" /\ k.target = cmd[c].target /\ k.op = cmd[c].op
          /\ k.got = cmd[c].got /\ k.asked = cmd[c].asked /\ k.targets = cmd[c].targets
      BY <1>1, <3>1 DEF Cmd
    <3>3. cmd' = [cmd EXCEPT ![c] = k]
      BY <1>1, <2>2, <3>1
    <3>4. k.target \notin Points
      BY <1>1, <1>2, <2>2, <3>2, CliMountsAssumption DEF Shape
    <3>5. Shape(k)
      BY <1>1, <1>2, <1>4, <3>2, <3>4 DEF Shape
    <3>6. QED
      BY <1>4, <3>2, <3>3, <3>5
  <2>3. CASE cmd' = [cmd EXCEPT ![c] = Idle]
    BY <2>3, IdleShape
  <2>4. CASE /\ cmd' = [cmd EXCEPT ![c] = [@ EXCEPT !.pc = "umount", !.targets = rest,
                                                    !.target = None]]
             /\ ~(rest = {} /\ cmd[c].op # "stop")
    <3>1. PICK k : k = [cmd[c] EXCEPT !.pc = "umount", !.targets = rest, !.target = None]
      OBVIOUS
    <3>2. /\ k \in Cmd /\ k.pc = "umount" /\ k.target = None /\ k.op = cmd[c].op
          /\ k.got = cmd[c].got /\ k.asked = cmd[c].asked /\ k.targets = rest
          /\ k.seen = cmd[c].seen
      BY <1>1, <2>1, <3>1 DEF Cmd
    <3>3. cmd' = [cmd EXCEPT ![c] = k]
      BY <1>1, <2>4, <3>1
    <3>4. cmd[c].op # "unmount"
      BY <1>1, <1>2, <2>1, <2>4 DEF Shape
    <3>5. None \notin Points
      BY CliMountsAssumption DEF Paths
    <3>6. Shape(k)
      BY <1>1, <1>2, <1>4, <3>2, <3>4, <3>5 DEF Shape
    <3>7. QED
      BY <1>4, <3>2, <3>3, <3>6
  <2>5. QED
    BY <1>2, <2>1, <2>2, <2>3, <2>4 DEF TargetDone
<1>6. PICK k \in Cmd : cmd' = [cmd EXCEPT ![c] = k] /\ Shape(k) /\ k.got = {}
  BY <1>5
<1>7. /\ Wanted(c) \in SUBSET Sources /\ \A s \in Wanted(c) : registry[s] # None
      /\ cmd[c].target \in Points => Wanted(c) = Found(cmd[c].target)
  BY <1>1, <1>2, WantedType
<1>8. QED
  BY <1>2, <1>3, <1>4, <1>6, <1>7, CallInv

\* Umount: whoever takes a kernel mount away has its point for a target.
LEMMA UmountInv ==
    ASSUME CliInv, NEW c \in Clients, Umount(c)
    PROVE  CliInv'
<1>1. TypeInv /\ Shape(cmd[c]) /\ cmd[c] \in Cmd /\ cmd \in [Clients -> Cmd]
  BY CmdType DEF CliInv
<1>2. cmd[c].pc = "umount" /\ UNCHANGED <<up, late, made, path, begun, told>>
  BY DEF Umount
<1>3. PICK t \in cmd[c].targets :
        /\ cmd' = [cmd EXCEPT ![c].pc = "unrpc", ![c].target = t,
                              ![c].seen = IF ViaLink(c, t) THEN path[t] ELSE @]
        /\ faults' = faults \/ Fault \/ NoFault
        /\ \/ UNCHANGED <<kernel, registry>>
           \/ t \in Points /\ Popped(kernel, t, kernel') /\ UNCHANGED registry
           \/ /\ path[t] \in Sources /\ UNCHANGED kernel
              /\ registry' = [registry EXCEPT ![path[t]] = None]
  BY DEF Umount, Popped
<1>4. t \in Sources \cup Paths
  BY <1>1, CmdType
<1>5. PICK seen : seen = IF ViaLink(c, t) THEN path[t] ELSE cmd[c].seen
  OBVIOUS
<1>6. seen \in AtPath /\ (seen \in Sources => t \in Links /\ cmd[c].op = "unmount")
  <2>1. cmd[c].seen \in AtPath /\ cmd[c].seen \notin Sources
    BY <1>1, <1>2 DEF Cmd, Shape
  <2>2. QED
    BY <1>5, <2>1 DEF ViaLink, AtPath
<1>7. PICK k : k = [cmd[c] EXCEPT !.pc = "unrpc", !.target = t, !.seen = seen]
  OBVIOUS
<1>8. /\ k \in Cmd /\ k.pc = "unrpc" /\ k.target = t /\ k.op = cmd[c].op /\ k.seen = seen
      /\ k.got = cmd[c].got /\ k.asked = cmd[c].asked /\ k.targets = cmd[c].targets
  BY <1>1, <1>4, <1>6, <1>7 DEF Cmd
<1>9. cmd' = [cmd EXCEPT ![c] = k]
  BY <1>1, <1>3, <1>5, <1>7
<1>10. cmd[c].got = {} /\ cmd[c].target \notin Points /\ k.got = {}
  BY <1>1, <1>2, <1>8 DEF Shape
<1>11. Shape(k)
  BY <1>1, <1>2, <1>6, <1>8, <1>10 DEF Shape
<1>12. /\ late' \subseteq Pairs /\ path' \in [Links -> AtPath] /\ begun' \in 0..MaxCommands
       /\ faults' \in 0..MaxFaults /\ up' \in BOOLEAN /\ kernel \in [Points -> Seq(Nat)]
       /\ registry \in [Sources -> Entry \cup {None}] /\ told' \subseteq 1..made
  BY <1>1, <1>2, <1>3, FaultType, Types DEF NoFault
<1>13. /\ registry' \in [Sources -> Entry \cup {None}]
       /\ \A s \in Sources : registry'[s] = registry[s] \/ registry'[s] = None
  BY <1>3, <1>12
<1>14. \A s \in Sources : Obliged(s) => ~Hand(s, cmd[c])
  BY <1>10, NoHand
<1>15. /\ CliInv /\ c \in Clients /\ k \in Cmd /\ cmd' = [cmd EXCEPT ![c] = k] /\ Shape(k)
       /\ k.got \subseteq cmd[c].got /\ (k.got # {} => k.op = cmd[c].op) /\ made' = made /\ told \subseteq told'
       /\ late' \subseteq Pairs /\ path' \in [Links -> AtPath] /\ begun' \in 0..MaxCommands
       /\ faults' \in 0..MaxFaults /\ up' \in BOOLEAN /\ told' \subseteq 1..made
       /\ registry' \in [Sources -> Entry \cup {None}]
       /\ \A s \in Sources : registry'[s] = registry[s] \/ registry'[s] = None
  BY <1>2, <1>8, <1>9, <1>10, <1>11, <1>12, <1>13
<1>16. CASE UNCHANGED kernel
  <2>1. \A n : In(kernel', n) <=> In(kernel, n)
    BY <1>16 DEF In
  <2>2. \A p \in Points : \A i \in 1..Len(kernel'[p]) :
           \/ \E j \in 1..Len(kernel[p]) : kernel'[p][i] = kernel[p][j]
           \/ \E g \in cmd[c].got : g[1][2] = p /\ g[2] = kernel'[p][i]
    BY <1>16
  <2>3. kernel' \in [Points -> Seq(Nat)]
    BY <1>12, <1>16
  <2>4. \A s \in Sources :
           Obliged(s) /\ registry'[s] = registry[s]
           /\ (In(kernel, registry[s].server) \/ Hand(s, cmd[c])) =>
              \/ In(kernel', registry[s].server)
              \/ registry[s].server \in told'
              \/ Hand(s, k)
    BY <1>14, <2>1
  <2>5. QED
    BY ONLY <1>15, <2>2, <2>3, <2>4, CommandStep
<1>17. CASE t \in Points /\ Popped(kernel, t, kernel') /\ UNCHANGED registry
  <2>1. /\ kernel' \in [Points -> Seq(Nat)]
        /\ \A r \in Points \ {t} : kernel'[r] = kernel[r]
        /\ \A i \in 1..Len(kernel'[t]) : /\ i + 1 \in 1..Len(kernel[t])
                                         /\ kernel'[t][i] = kernel[t][i + 1]
    BY <1>12, <1>17, Pop
  <2>2. ASSUME NEW p \in Points, NEW i \in 1..Len(kernel'[p])
        PROVE  \/ \E j \in 1..Len(kernel[p]) : kernel'[p][i] = kernel[p][j]
               \/ \E g \in cmd[c].got : g[1][2] = p /\ g[2] = kernel'[p][i]
    <3>1. CASE p = t
      BY ONLY <2>1, <3>1, i \in 1..Len(kernel'[p])
    <3>2. CASE p # t
      <4>1. kernel'[p] = kernel[p]
        BY <2>1, <3>2
      <4>2. QED
        BY ONLY <4>1, i \in 1..Len(kernel'[p])
    <3>3. QED
      BY <3>1, <3>2
  <2>3. ASSUME NEW s \in Sources, Obliged(s), In(kernel, registry[s].server)
        PROVE  In(kernel', registry[s].server) \/ Hand(s, k)
    <3>1. PICK p \in Points : \E i \in 1..Len(kernel[p]) : kernel[p][i] = registry[s].server
      BY <2>3 DEF In
    <3>2. PICK i \in 1..Len(kernel[p]) : kernel[p][i] = registry[s].server
      BY <3>1
    <3>3. CASE p = t
      <4>1. registry[s].path = p
        BY <2>3, <3>2 DEF CliInv, Placed, Obliged
      <4>2. QED
        BY <1>8, <3>3, <4>1 DEF Hand
    <3>4. CASE p # t
      <4>1. kernel'[p] = kernel[p]
        BY <2>1, <3>4
      <4>2. i \in 1..Len(kernel'[p]) /\ kernel'[p][i] = registry[s].server
        BY ONLY <3>2, <4>1
      <4>3. In(kernel', registry[s].server)
        BY ONLY <4>2, p \in Points DEF In
      <4>4. QED
        BY <4>3
    <3>5. QED
      BY <3>3, <3>4
  <2>4. \A s \in Sources :
           Obliged(s) /\ registry'[s] = registry[s]
           /\ (In(kernel, registry[s].server) \/ Hand(s, cmd[c])) =>
              \/ In(kernel', registry[s].server)
              \/ registry[s].server \in told'
              \/ Hand(s, k)
    BY <1>14, <2>3
  <2>5. QED
    BY ONLY <1>15, <2>1, <2>2, <2>4, CommandStep
<1>18. QED
  BY <1>3, <1>16, <1>17

\* NoTargets.
LEMMA NoTargetsInv ==
    ASSUME CliInv, NEW c \in Clients, NoTargets(c)
    PROVE  CliInv'
<1>1. TypeInv /\ Shape(cmd[c])
  BY DEF CliInv
<1>2. /\ cmd[c].pc = "umount" /\ cmd' = [cmd EXCEPT ![c] = Idle]
      /\ UNCHANGED <<made, kernel, path, begun, faults, told>>
  BY DEF NoTargets, Ended
<1>3. PICK stop \in BOOLEAN : stop = (cmd[c].op = "stop")
  OBVIOUS
<1>4. /\ up' = (up /\ ~stop) /\ late' = (IF stop THEN {} ELSE late)
      /\ registry' = IF stop THEN [s \in Sources |-> None] ELSE registry
  BY <1>3 DEF NoTargets
<1>5. /\ up' \in BOOLEAN /\ late' \subseteq Pairs
      /\ registry' \in [Sources -> Entry \cup {None}]
      /\ \A s \in Sources : registry'[s] = registry[s] \/ registry'[s] = None
  BY <1>1, <1>4, Types
<1>6. cmd[c].got = {} /\ cmd[c].target \notin Points
  BY <1>1, <1>2 DEF Shape
<1>7. \A s \in Sources : Obliged(s) => ~Hand(s, cmd[c])
  BY <1>6, NoHand
<1>8. /\ path' \in [Links -> AtPath] /\ begun' \in 0..MaxCommands /\ faults' \in 0..MaxFaults
      /\ told' \subseteq 1..made /\ kernel' \in [Points -> Seq(Nat)]
  BY <1>1, <1>2, Types
<1>9. \A n : In(kernel', n) <=> In(kernel, n)
  BY <1>2 DEF In
<1>10. \A p \in Points : \A i \in 1..Len(kernel'[p]) :
          \E j \in 1..Len(kernel[p]) : kernel'[p][i] = kernel[p][j]
  BY <1>2
<1>11. QED
  BY <1>2, <1>5, <1>6, <1>7, <1>8, <1>9, <1>10, IdleShape, CommandStep


-----------------------------------------------------------------------------
(* The invariant holds, and what follows from it.                          *)

\* Nothing is mounted at the start and no command runs.
LEMMA InitInv ==
    ASSUME Init
    PROVE  CliInv
<1>1. /\ registry = [s \in Sources |-> None] /\ kernel = [p \in Points |-> <<>>] /\ made = 0
      /\ cmd = [c \in Clients |-> Idle] /\ told = {} /\ late = {} /\ up = TRUE
      /\ begun = 0 /\ faults = 0 /\ path = [l \in Links |-> "absent"]
  BY DEF Init
<1>2. \A s \in Sources : registry[s] = None
  BY <1>1
<1>3. \A p \in Points : kernel[p] = <<>> /\ Len(kernel[p]) = 0
  BY <1>1
<1>4. \A c \in Clients : cmd[c] = Idle
  BY <1>1
<1>5. TypeInv
  <2>1. <<>> \in Seq(Nat)
    OBVIOUS
  <2>2. kernel \in [Points -> Seq(Nat)] /\ registry \in [Sources -> Entry \cup {None}]
    BY <1>1, <2>1
  <2>3. path \in [Links -> AtPath] /\ begun \in 0..MaxCommands /\ faults \in 0..MaxFaults
    BY <1>1, CliMountsAssumption DEF AtPath, Users
  <2>4. \A n : ~In(kernel, n)
    BY <1>3 DEF In
  <2>5. QED
    BY <1>1, <1>2, <2>2, <2>3, <2>4, IdleType, Types
<1>6. \A c \in Clients : Shape(cmd[c])
  BY <1>4, IdleShape
<1>7. Entries /\ Kept
  BY <1>2 DEF Entries, Kept, Obliged
<1>8. Placed
  BY <1>2 DEF Placed
<1>9. Own
  BY <1>4, IdleShape DEF Own
<1>10. QED
  BY <1>5, <1>6, <1>7, <1>8, <1>9 DEF CliInv

\* UserWrites.
LEMMA UserWritesInv ==
    ASSUME CliInv, NEW l \in Links, UserWrites(l)
    PROVE  CliInv'
<1>1. UNCHANGED <<registry, up, late, made, kernel, cmd, begun, faults, told>>
  BY DEF UserWrites
<1>2. TypeInv
  BY DEF CliInv
<1>3. path' \in [Links -> AtPath]
  <2>1. PICK now \in Users : path' = [path EXCEPT ![l] = now]
    BY DEF UserWrites
  <2>2. now \in AtPath
    BY DEF AtPath
  <2>3. QED
    BY <1>2, <2>1, <2>2, PathType
<1>4. TypeInv'
  BY <1>1, <1>2, <1>3, NextTypes, Types
<1>5. QED
  BY <1>1, <1>4 DEF CliInv, Shape, Entries, Placed, Own, Kept, Obliged, Shared, Hand, In

\* Every step keeps the invariant.
LEMMA NextInv ==
    ASSUME CliInv, [Next]_vars
    PROVE  CliInv'
<1>1. ASSUME NEW c \in Clients, StartMount(c) \/ StartUnmount(c) \/ StartAll(c)
      PROVE  CliInv'
  BY <1>1, StartMountInv, StartUnmountInv, StartAllInv
<1>2. ASSUME NEW c \in Clients, Step(c) PROVE CliInv'
  <2>1. CASE SkipActive(c) \/ StatPath(c)
    BY <2>1, SkipActiveInv, StatPathInv
  <2>2. CASE RemoveDir(c) \/ CheckLink(c) \/ RemoveLink(c)
    BY <2>2, ClearInv
  <2>3. CASE MountAnswered(c)
    BY <2>3, MountAnsweredInv
  <2>4. CASE MountRefused(c) \/ MountTimesOut(c)
    BY <2>4, MountFailsInv
  <2>5. CASE \E g \in cmd[c].got : KernelMount(c, g) \/ Link(c, g)
    BY <2>5, KernelMountInv, LinkInv
  <2>6. CASE MountEnds(c) \/ Cleanup(c)
    BY <2>6, MountEndsInv, CleanupInv
  <2>7. CASE Umount(c) \/ UnmountRpc(c) \/ NoTargets(c)
    BY <2>7, UmountInv, UnmountRpcInv, NoTargetsInv
  <2>8. QED
    BY <1>2, <2>1, <2>2, <2>3, <2>4, <2>5, <2>6, <2>7 DEF Step
<1>3. ASSUME NEW q \in Pairs, LateMount(q) PROVE CliInv'
  BY <1>3, LateMountInv
<1>4. ASSUME NEW l \in Links, UserWrites(l) PROVE CliInv'
  BY <1>4, UserWritesInv
<1>5. CASE UNCHANGED vars
  <2>1. UNCHANGED <<registry, up, late, made, kernel, path, cmd, begun, faults, told>>
    BY <1>5 DEF vars
  <2>2. TypeInv'
    BY <2>1, NextTypes, Types DEF CliInv
  <2>3. QED
    BY <2>1, <2>2 DEF CliInv, Shape, Entries, Placed, Own, Kept, Obliged, Shared, Hand, In
<1>6. QED
  BY <1>1, <1>2, <1>3, <1>4, <1>5 DEF Next

\* The invariant holds in every state.
LEMMA CliCorrect == Spec => []CliInv
<1>1. Init => CliInv
  BY InitInv
<1>2. CliInv /\ [Next]_vars => CliInv'
  BY NextInv
<1>3. QED
  BY <1>1, <1>2, PTL DEF Spec

\* Every variable has its type, and kernel mounts, the registry and what the
\* user was told name servers the daemon has made.
THEOREM TypeCorrect == Spec => []TypeOK
<1>1. CliInv => TypeOK
  BY DEF CliInv, TypeInv
<1>2. QED
  BY <1>1, CliCorrect, PTL

\* A server that nothing mounts, at a point of one source, is one that somebody
\* asked for or was told of: with any number of terminals, timeouts and
\* failures of mount, umount and unmount calls, while other sources share
\* points and their commands take each other's mounts away.
THEOREM OrphansTold == Spec => []OrphansAreTold
<1>1. ASSUME CliInv PROVE OrphansAreTold
  <2>1. ASSUME NEW s \in Sources, registry[s] # None, ~registry[s].fskit,
               ~Shared(registry[s].path)
        PROVE  registry[s].server \in InKernel \/ registry[s].server \in told \cup InHand
    <3>1. \/ In(kernel, registry[s].server)
          \/ registry[s].server \in told
          \/ \E c \in Clients : Hand(s, cmd[c])
      BY <1>1, <2>1 DEF CliInv, Kept, Obliged
    <3>2. ASSUME NEW c \in Clients, Hand(s, cmd[c]) PROVE registry[s].server \in InHand
      <4>1. CASE \E g \in cmd[c].got : g[2] = registry[s].server
        BY <4>1 DEF InHand
      <4>2. CASE cmd[c].target = registry[s].path
        BY <2>1, <4>2 DEF InHand
      <4>3. QED
        BY <3>2, <4>1, <4>2 DEF Hand
    <3>3. QED
      BY <3>1, <3>2, Kernels
  <2>2. QED
    BY <2>1 DEF OrphansAreTold
<1>2. CliInv => OrphansAreTold
  BY <1>1
<1>3. QED
  BY <1>2, CliCorrect, PTL

\* What one step of a command does to a path: a directory that is filled stays,
\* a file is taken by a remove_file at the command's own path only.
PathKept(l) ==
    /\ path[l] = "full" => path'[l] = "full"
    /\ path[l] = "file" /\ path'[l] # "file" =>
          \E c \in Clients : cmd[c].pc = "remove" /\ cmd[c].target = l

\* A step that writes at a path x, where a user's file or filled directory is
\* only when a command removes what it finds there.
LEMMA WriteKept ==
    ASSUME TypeInv, NEW l \in Links, NEW x, NEW a, path' = [path EXCEPT ![x] = a],
           path[x] # "full",
           path[x] = "file" => \E c \in Clients : cmd[c].pc = "remove" /\ cmd[c].target = x
    PROVE  PathKept(l)
<1>1. path \in [Links -> AtPath]
  BY Types
<1>2. CASE x = l
  BY <1>2 DEF PathKept
<1>3. CASE x # l
  BY <1>1, <1>3 DEF PathKept
<1>4. QED
  BY <1>2, <1>3

\* Every step of a command.
LEMMA PathsKept ==
    ASSUME TypeInv, [Next]_vars, cmd' # cmd, NEW l \in Links
    PROVE  PathKept(l)
<1>1. CASE UNCHANGED path
  BY <1>1 DEF PathKept
<1>2. "full" \notin Sources /\ "file" \notin Sources
  BY CliMountsAssumption
<1>3. ASSUME NEW c \in Clients, RemoveDir(c) PROVE PathKept(l)
  <2>1. \/ UNCHANGED path
        \/ path[cmd[c].target] = "empty" /\ path' = [path EXCEPT ![cmd[c].target] = "absent"]
    BY <1>3 DEF RemoveDir
  <2>2. QED
    BY <1>1, <2>1, WriteKept
<1>4. ASSUME NEW c \in Clients, RemoveLink(c) PROVE PathKept(l)
  <2>1. \/ UNCHANGED path
        \/ /\ path[cmd[c].target] \in Sources \cup {"file"}
           /\ path' = [path EXCEPT ![cmd[c].target] = "absent"]
    BY <1>4 DEF RemoveLink
  <2>2. cmd[c].pc = "remove"
    BY <1>4 DEF RemoveLink
  <2>3. QED
    BY <1>1, <1>2, <2>1, <2>2, WriteKept
<1>5. ASSUME NEW c \in Clients, NEW g \in cmd[c].got, Link(c, g) PROVE PathKept(l)
  <2>1. \/ UNCHANGED path
        \/ path[g[1][2]] = "absent" /\ path' = [path EXCEPT ![g[1][2]] = g[1][1]]
    BY <1>5 DEF Link
  <2>2. QED
    BY <1>1, <2>1, WriteKept
<1>6. ASSUME NEW c \in Clients,
             StartMount(c) \/ StartUnmount(c) \/ StartAll(c) \/ SkipActive(c) \/ StatPath(c)
             \/ CheckLink(c) \/ MountAnswered(c) \/ MountRefused(c) \/ MountTimesOut(c)
             \/ MountEnds(c) \/ Cleanup(c) \/ Umount(c) \/ UnmountRpc(c) \/ NoTargets(c)
             \/ \E g \in cmd[c].got : KernelMount(c, g)
      PROVE  UNCHANGED path
  BY <1>6 DEF StartMount, StartUnmount, StartAll, Begin, SkipActive, StatPath, CheckLink,
     MountAnswered, MountRefused, MountTimesOut, MountEnds, Cleanup, Umount, UnmountRpc,
     NoTargets, KernelMount
<1>7. \A q \in Pairs : ~LateMount(q)
  BY DEF LateMount
<1>8. \A m \in Links : ~UserWrites(m)
  BY DEF UserWrites
<1>9. Next
  BY DEF vars
<1>10. QED
  BY <1>1, <1>3, <1>4, <1>5, <1>6, <1>7, <1>8, <1>9 DEF Next, Step

\* No command removes what the user has put at a path: a directory that was
\* filled after the look at it stays, and a file is lost only to a remove_file
\* of the command that had seen a ctxfs symlink there
\* (handle_existing_fskit_mount_point, safe_remove_symlink, create_symlink).
THEOREM UserFilesAreKept == Spec => UserFilesSurvive
<1>1. CliInv /\ [Next]_vars =>
         [cmd' # cmd =>
            \A l \in Links :
               /\ path[l] = "full" => path'[l] = "full"
               /\ path[l] = "file" /\ path'[l] # "file" =>
                     \E c \in Clients : cmd[c].pc = "remove" /\ cmd[c].target = l]_vars
  BY PathsKept DEF CliInv, PathKept
<1>2. QED
  BY <1>1, CliCorrect, PTL DEF Spec, UserFilesSurvive
=============================================================================
