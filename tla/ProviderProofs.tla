---------------------------- MODULE ProviderProofs ----------------------------
(***************************************************************************)
(* What the provider and the resolution do before content is read.         *)
(*                                                                         *)
(* The tarball prefetch, for any number of mounts and dropped calls, any   *)
(* manifest and any archive: one mount at a time downloads the tarball; as *)
(* long as no call was dropped, a mount that starts alone is answered from *)
(* a download begun since; and as long as nothing is evicted, an ok means  *)
(* that what the archive carries is in the cache.  The first two rest on   *)
(* the registry.  An empty cell somebody waits for or fills is the         *)
(* registry's cell (Claims), since the only way out of the registry is a   *)
(* leader's release, after the cell was filled.  And without dropped calls *)
(* the registry's slot has its leader still at work (Led), so a call that  *)
(* starts alone finds the registry empty.                                  *)
(*                                                                         *)
(* The requests, for any finite set of mounts, any sources, releases, TTL  *)
(* and bounds: a package is mounted at a version it may be mounted at      *)
(* (Dates: what each entry and each request knows of its version), a mount *)
(* is in the status report with its resolve_ref call (Shows), and every    *)
(* answer of the API is counted once (CallsInv: a bucket is one ref's, and *)
(* the sums over a ref's buckets follow what was answered).                *)
(***************************************************************************)
EXTENDS TarballPrefetch, Requests, SequenceTheorems, FiniteSetTheorems, TLAPS

Active == {"checked", "waiting", "filled"} \cup Fetching

\* The initialiser of a cell, and the slot of a call.
Claims ==
    /\ \A c \in Callers : caller[c].pc \in Fetching =>
          running[caller[c].slot] = c /\ cell[caller[c].slot] = "none"
    /\ \A c \in Callers :
          caller[c].pc \in {"waiting"} \cup Fetching /\ cell[caller[c].slot] = "none"
             => registry = caller[c].slot
    /\ \A c \in Callers : caller[c].pc = "filled" => cell[caller[c].slot] # "none"

\* Slots are named by calls that have claimed: a call that has not finds no
\* trace of the slot it may insert.
Claimed(s) == caller[s].pc \notin {"new", "checked"}

Named ==
    /\ registry # None => Claimed(registry)
    /\ \A c \in Callers :
          caller[c].pc \in {"waiting", "filled"} \cup Fetching => Claimed(caller[c].slot)
    /\ \A s \in Callers : cell[s] # "none" => Claimed(s)

\* The registry's slot belongs to a call that will release it.
Led == registry # None =>
          /\ caller[registry].pc \in {"waiting", "filled"} \cup Fetching
          /\ caller[registry].slot = registry

\* A result that the alone caller c can get is newer than its look at the cache.
Newer(c) ==
    /\ \A d \in Callers :
          caller[d].pc \in Fetching => downloads > caller[c].before
    /\ caller[c].pc = "checked" /\ registry # None /\ cell[registry] # "none"
          => downloads > caller[c].before
    /\ caller[c].pc \in {"waiting"} \cup Fetching /\ cell[caller[c].slot] # "none"
          => downloads > caller[c].before
    /\ caller[c].pc \in {"filled", "done"} \cup Fetching
          => downloads > caller[c].before

Fresh ==
    /\ \A c \in Callers : downloads >= caller[c].before
    /\ \A c \in Callers :
          caller[c].alone /\ caller[c].pc \in Active \cup {"done"} => Newer(c)

Quiet == cancels = 0 => Led /\ Fresh

USE DEF Fetching

\* The archive has a length.
LEMMA ArchiveLength == Len(Archive) \in Nat
  BY ManifestAssumption

-----------------------------------------------------------------------------
\* The initial state is typed.
LEMMA InitTyped == Init => TypeOK
  <1> SUFFICES ASSUME Init PROVE TypeOK
    OBVIOUS
  <1>1. NewCaller \in Caller
    BY DEF NewCaller, Caller, TARBALL_REDIRECT_MAX_DEPTH
  <1> QED
    BY <1>1, ArchiveLength, TarballPrefetchAssumption DEF Init, TypeOK, NewCaller

\* A call starts with no redirect.
LEMMA NoHops == 0 \in 0..TARBALL_REDIRECT_MAX_DEPTH
  BY DEF TARBALL_REDIRECT_MAX_DEPTH

\* What a call keeps while it goes on.
SameCall(q, r) == r.slot = q.slot /\ r.alone = q.alone /\ r.before = q.before

\* One call goes on at pc, the others stay.
Moves(c, pc) ==
    /\ caller' \in [Callers -> Caller]
    /\ caller'[c].pc = pc
    /\ SameCall(caller[c], caller'[c])
    /\ \A d \in Callers \ {c} : caller'[d] = caller[d]

\* A call that becomes r moves.
LEMMA CallerMoves ==
  ASSUME caller \in [Callers -> Caller], NEW c \in Callers, NEW r \in Caller,
         SameCall(caller[c], r), caller' = [caller EXCEPT ![c] = r]
  PROVE  Moves(c, r.pc)
  BY DEF Moves

\* A look at the cache ends the call, or remembers what it saw.
LEMMA CheckMoves ==
  ASSUME TypeOK, NEW c \in Callers, Check(c)
  PROVE  /\ caller' \in [Callers -> Caller]
         /\ caller'[c].pc \in {"checked", "done"}
         /\ caller'[c].before \in {0, downloads}
         /\ caller'[c].alone =>
               /\ caller'[c].pc = "checked"
               /\ caller'[c].before = downloads
               /\ \A d \in Callers : caller[d].pc \in Over
         /\ \A d \in Callers \ {c} : caller'[d] = caller[d]
  <1> DEFINE alone == \A d \in Callers : caller[d].pc \in Over
             q == [NewCaller EXCEPT !.pc = "done", !.outcome = "ok"]
             r == [NewCaller EXCEPT !.pc = "checked", !.alone = alone, !.before = downloads]
  <1>0. alone \in BOOLEAN /\ caller \in [Callers -> Caller] /\ downloads \in Nat
    BY DEF TypeOK
  <1>1. caller' = [caller EXCEPT ![c] = q] \/ caller' = [caller EXCEPT ![c] = r]
    BY DEF Check
  <1>2. alone => \A d \in Callers : caller[d].pc \in Over
    OBVIOUS
  <1> HIDE DEF alone
  <1>3. q \in Caller /\ q.pc = "done" /\ q.before = 0 /\ q.alone = FALSE
    BY NoHops DEF NewCaller, Caller
  <1>6. r \in Caller /\ r.pc = "checked" /\ r.before = downloads /\ r.alone = alone
    BY <1>0, NoHops DEF NewCaller, Caller
  <1> HIDE DEF q, r
  <1>4. CASE caller' = [caller EXCEPT ![c] = q]
    BY <1>0, <1>3, <1>4
  <1>5. CASE caller' = [caller EXCEPT ![c] = r]
    BY <1>0, <1>2, <1>6, <1>5
  <1> QED
    BY <1>1, <1>4, <1>5

\* A download begins.
LEMMA BeginMoves ==
  ASSUME TypeOK, NEW c \in Callers, Begin(c)
  PROVE  Moves(c, "asking")
  <1> DEFINE r == [caller[c] EXCEPT !.pc = "asking"]
  <1>1. caller \in [Callers -> Caller] /\ caller[c] \in Caller
    BY DEF TypeOK
  <1>2. r \in Caller
    BY <1>1, NoHops DEF Caller
  <1>3. caller' = [caller EXCEPT ![c] = r]
    BY <1>1 DEF Begin, Caller
  <1>4. SameCall(caller[c], r) /\ r.pc = "asking"
    BY <1>1 DEF SameCall, Caller
  <1> HIDE DEF r
  <1> QED
    BY <1>1, <1>2, <1>3, <1>4, CallerMoves

\* A download is sent elsewhere.
LEMMA RedirectMoves ==
  ASSUME TypeOK, NEW c \in Callers, Redirect(c)
  PROVE  Moves(c, "asking")
  <1> DEFINE r == [caller[c] EXCEPT !.hops = caller[c].hops + 1]
  <1>1. caller \in [Callers -> Caller] /\ caller[c] \in Caller
    BY DEF TypeOK
  <1>2. r \in Caller
    BY <1>1 DEF Caller, Redirect, TARBALL_REDIRECT_MAX_DEPTH
  <1>3. caller' = [caller EXCEPT ![c] = r]
    BY <1>1 DEF Redirect, Caller
  <1>4. SameCall(caller[c], r) /\ r.pc = "asking"
    BY <1>1 DEF SameCall, Caller, Redirect
  <1> HIDE DEF r
  <1> QED
    BY <1>1, <1>2, <1>3, <1>4, CallerMoves

\* The archive comes.
LEMMA AnswerMoves ==
  ASSUME TypeOK, NEW c \in Callers, Answer(c)
  PROVE  Moves(c, "extracting")
  <1> DEFINE r == [caller[c] EXCEPT !.pc = "extracting", !.hops = 0]
  <1>1. caller \in [Callers -> Caller] /\ caller[c] \in Caller
    BY DEF TypeOK
  <1>2. r \in Caller
    BY <1>1, NoHops DEF Caller
  <1>3. caller' = [caller EXCEPT ![c] = r]
    BY <1>1 DEF Answer, Caller
  <1>4. SameCall(caller[c], r) /\ r.pc = "extracting"
    BY <1>1 DEF SameCall, Caller
  <1> HIDE DEF r
  <1> QED
    BY <1>1, <1>2, <1>3, <1>4, CallerMoves

\* A download ends.
LEMMA FillMoves ==
  ASSUME TypeOK, NEW c \in Callers, NEW o \in {"ok", "err"}, Fill(c, o)
  PROVE  Moves(c, "filled") /\ caller'[c].outcome = o
  <1> DEFINE r == [caller[c] EXCEPT !.pc = "filled", !.hops = 0, !.outcome = o]
  <1>1. caller \in [Callers -> Caller] /\ caller[c] \in Caller
    BY DEF TypeOK
  <1>2. r \in Caller
    BY <1>1, NoHops DEF Caller
  <1>3. caller' = [caller EXCEPT ![c] = r]
    BY <1>1 DEF Fill, Caller
  <1>4. SameCall(caller[c], r) /\ r.pc = "filled" /\ r.outcome = o
    BY <1>1 DEF SameCall, Caller
  <1> HIDE DEF r
  <1> QED
    BY <1>1, <1>2, <1>3, <1>4, CallerMoves

\* A call is dropped.
LEMMA CancelMoves ==
  ASSUME TypeOK, NEW c \in Callers, Cancel(c)
  PROVE  Moves(c, "cancelled")
  <1> DEFINE r == [caller[c] EXCEPT !.pc = "cancelled"]
  <1>1. caller \in [Callers -> Caller] /\ caller[c] \in Caller
    BY DEF TypeOK
  <1>2. r \in Caller
    BY <1>1, NoHops DEF Caller
  <1>3. caller' = [caller EXCEPT ![c] = r]
    BY <1>1 DEF Cancel, Caller
  <1>4. SameCall(caller[c], r) /\ r.pc = "cancelled"
    BY <1>1 DEF SameCall, Caller
  <1> HIDE DEF r
  <1> QED
    BY <1>1, <1>2, <1>3, <1>4, CallerMoves

\* Every step keeps the types.
LEMMA StepTyped == TypeOK /\ [Next]_vars => TypeOK'
  <1> SUFFICES ASSUME TypeOK, [Next]_vars PROVE TypeOK'
    OBVIOUS
  <1> USE TarballPrefetchAssumption, ArchiveLength DEF TARBALL_REDIRECT_MAX_DEPTH
  <1>1. ASSUME NEW c \in Callers, Check(c) PROVE TypeOK'
    <2>1. /\ caller' \in [Callers -> Caller] /\ caller'[c].pc \in {"checked", "done"}
          /\ \A d \in Callers \ {c} : caller'[d] = caller[d]
      BY <1>1, CheckMoves
    <2>2. UNCHANGED <<missing, registry, cell, running, left, downloads, evictions, cancels>>
      BY <1>1 DEF Check
    <2>3. \A d \in Callers : caller'[d].pc \in {"waiting", "filled"} \cup Fetching
             => caller'[d].slot \in Callers
      BY <2>1 DEF TypeOK
    <2> QED
      BY <2>1, <2>2, <2>3 DEF TypeOK
  <1>2. ASSUME NEW c \in Callers, Claim(c) PROVE TypeOK'
    <2>1. registry' \in Callers
      BY <1>2 DEF TypeOK, Claim
    <2>2. caller' = [caller EXCEPT ![c] =
                        [@ EXCEPT !.pc = "waiting", !.slot = registry']]
      BY <1>2 DEF TypeOK, Claim, Caller
    <2>3. caller' \in [Callers -> Caller]
      <3> DEFINE r == [caller[c] EXCEPT !.pc = "waiting", !.slot = registry']
      <3>0. caller[c] \in Caller
        BY DEF TypeOK
      <3>1. r \in Caller
        BY <2>1, <3>0 DEF Caller
      <3>2. caller' = [caller EXCEPT ![c] = r]
        BY <2>2
      <3> HIDE DEF r
      <3> QED
        BY <3>1, <3>2 DEF TypeOK
    <2>4. \A d \in Callers : caller'[d].pc \in {"waiting", "filled"} \cup Fetching
             => caller'[d].slot \in Callers
      BY <2>1, <2>2 DEF TypeOK, Caller
    <2> QED
      BY <1>2, <2>1, <2>3, <2>4 DEF TypeOK, Claim
  <1>3. ASSUME NEW c \in Callers, Begin(c) PROVE TypeOK'
    <2>1. Moves(c, "asking")
      BY <1>3, BeginMoves
    <2>2. /\ caller[c].slot \in Callers
          /\ running' \in [Callers -> Callers \cup {None}]
          /\ downloads' \in Nat
          /\ UNCHANGED <<missing, registry, cell, left, evictions, cancels>>
      BY <1>3 DEF TypeOK, Begin
    <2> QED
      BY <2>1, <2>2 DEF TypeOK, Moves, SameCall
  <1>4. ASSUME NEW c \in Callers, Await(c) PROVE TypeOK'
    <2>1. caller[c].slot \in Callers /\ cell[caller[c].slot] \in {"ok", "err"}
      BY <1>4 DEF TypeOK, Await
    <2>2. caller' \in [Callers -> Caller]
      <3> DEFINE r == [caller[c] EXCEPT !.pc = "filled", !.outcome = cell[caller[c].slot]]
      <3>0. caller[c] \in Caller
        BY DEF TypeOK
      <3>1. r \in Caller
        BY <2>1, <3>0 DEF Caller
      <3>2. caller' = [caller EXCEPT ![c] = r]
        BY <1>4 DEF TypeOK, Caller, Await
      <3> HIDE DEF r
      <3> QED
        BY <3>1, <3>2 DEF TypeOK
    <2>3. \A d \in Callers : caller'[d].pc \in {"waiting", "filled"} \cup Fetching
             => caller'[d].slot \in Callers
      BY <1>4, <2>1 DEF TypeOK, Await, Caller
    <2> QED
      BY <1>4, <2>2, <2>3 DEF TypeOK, Await
  <1>r. ASSUME NEW c \in Callers, Redirect(c) \/ Answer(c) PROVE TypeOK'
    <2>1. caller[c].slot \in Callers /\ \E pc \in Fetching : Moves(c, pc)
      BY <1>r, RedirectMoves, AnswerMoves DEF TypeOK, Redirect, Answer
    <2>2. /\ left' \in [Callers -> 0..Len(Archive)]
          /\ UNCHANGED <<missing, registry, cell, running, downloads, evictions, cancels>>
      BY <1>r, SMTT(30) DEF TypeOK, Redirect, Answer
    <2> QED
      BY <2>1, <2>2 DEF TypeOK, Moves, SameCall
  <1>5. ASSUME NEW c \in Callers, Release(c) PROVE TypeOK'
    BY <1>5, ZenonT(60) DEF TypeOK, Release, Caller
  <1>6. ASSUME NEW c \in Callers, NEW o \in {"ok", "err"}, Fill(c, o),
               caller[c].pc \in Fetching
        PROVE TypeOK'
    <2>1. caller[c].slot \in Callers
      BY <1>6 DEF TypeOK
    <2>2. Moves(c, "filled")
      BY <1>6, FillMoves
    <2>3. \A d \in Callers : caller'[d].pc \in {"waiting", "filled"} \cup Fetching
             => caller'[d].slot \in Callers
      BY <1>6, <2>1, <2>2 DEF TypeOK, Moves, SameCall
    <2>4. /\ cell' \in [Callers -> {"none", "ok", "err"}]
          /\ running' \in [Callers -> Callers \cup {None}]
          /\ left' \in [Callers -> 0..Len(Archive)]
      BY <1>6, <2>1 DEF TypeOK, Fill
    <2> QED
      BY <1>6, <2>2, <2>3, <2>4 DEF TypeOK, Fill, Moves
  <1>7. ASSUME NEW c \in Callers, FinishOk(c) \/ FinishErr(c) PROVE TypeOK'
    BY <1>6, <1>7 DEF FinishOk, FinishErr
  <1>8. ASSUME NEW c \in Callers, Extract(c) PROVE TypeOK'
    BY <1>8 DEF TypeOK, Extract, Caller
  <1>9. ASSUME NEW c \in Callers, Cancel(c) PROVE TypeOK'
    <2>1. Moves(c, "cancelled")
      BY <1>9, CancelMoves
    <2>2. /\ running' \in [Callers -> Callers \cup {None}]
          /\ cancels' \in 0..MaxCancels
          /\ UNCHANGED <<missing, registry, cell, left, downloads, evictions>>
      BY <1>9 DEF TypeOK, Cancel
    <2> QED
      BY <2>1, <2>2 DEF TypeOK, Moves, SameCall
  <1>10. ASSUME NEW b \in Blobs, Evict(b) PROVE TypeOK'
    BY <1>10 DEF TypeOK, Evict, Caller
  <1>11. CASE UNCHANGED vars
    BY <1>11 DEF TypeOK, vars, Caller
  <1> QED
    BY <1>1, <1>2, <1>3, <1>4, <1>r, <1>5, <1>7, <1>8, <1>9, <1>10, <1>11
       DEF Next, Advance

\* The registry, the slots and the calls always have their types.
THEOREM TypeCorrect == Spec => []TypeOK
  BY InitTyped, StepTyped, PTL DEF Spec

-----------------------------------------------------------------------------
\* A step that only reads the archive or loses a blob leaves the calls alone.
LEMMA ClaimsKept ==
  ASSUME Claims, UNCHANGED <<registry, cell, running, caller>>
  PROVE  Claims'
  BY DEF Claims

\* A claim waits for the slot that is in the registry then.
LEMMA ClaimGoes ==
  ASSUME TypeOK, NEW c \in Callers, Claim(c)
  PROVE  /\ caller[c].pc = "checked"
         /\ registry' = IF registry = None THEN c ELSE registry
         /\ caller'[c].pc = "waiting" /\ caller'[c].slot = registry'
         /\ \A d \in Callers \ {c} : caller'[d] = caller[d]
         /\ UNCHANGED <<missing, cell, running, left, downloads, evictions, cancels>>
  <1>1. caller \in [Callers -> Caller] /\ caller[c] \in Caller
    BY DEF TypeOK
  <1>2. PICK s : s = registry' /\ s = IF registry = None THEN c ELSE registry
    BY DEF Claim
  <1>3. PICK q : q = caller[c]
    OBVIOUS
  <1>4. PICK r : r = [q EXCEPT !.pc = "waiting", !.slot = s]
    OBVIOUS
  <1>5. r.pc = "waiting" /\ r.slot = s
    BY ONLY <1>1, <1>3, <1>4 DEF Caller
  <1>6. caller' = [caller EXCEPT ![c] = r]
    BY <1>1, <1>2, <1>3, <1>4 DEF Claim
  <1>7. caller'[c] = r /\ \A d \in Callers \ {c} : caller'[d] = caller[d]
    BY ONLY <1>1, <1>6
  <1> QED
    BY <1>2, <1>5, <1>7 DEF Claim

\* One call goes on at pc with its slot, the others stay.
Goes(c, pc) ==
    /\ caller'[c].pc = pc /\ caller'[c].slot = caller[c].slot
    /\ \A d \in Callers \ {c} : caller'[d] = caller[d]

\* A call that moves goes on with its slot.
LEMMA MovesGoes ==
  ASSUME NEW c \in Callers, NEW pc, Moves(c, pc)
  PROVE  Goes(c, pc)
  BY DEF Moves, SameCall, Goes

\* An awaited result leaves the call its slot.
LEMMA AwaitGoes ==
  ASSUME TypeOK, NEW c \in Callers, Await(c)
  PROVE  Goes(c, "filled")
  <1>1. caller \in [Callers -> Caller] /\ caller[c] \in Caller
    BY DEF TypeOK
  <1>2. PICK q, o : q = caller[c] /\ o = cell[q.slot]
    OBVIOUS
  <1>3. PICK r : r = [q EXCEPT !.pc = "filled", !.outcome = o]
    OBVIOUS
  <1>4. r.pc = "filled" /\ r.slot = q.slot
    BY ONLY <1>1, <1>2, <1>3 DEF Caller
  <1>5. caller' = [caller EXCEPT ![c] = r]
    BY <1>1, <1>2, <1>3 DEF Await
  <1> QED
    BY ONLY <1>1, <1>2, <1>4, <1>5 DEF Goes

\* So does the release of the slot.
LEMMA ReleaseGoes ==
  ASSUME TypeOK, NEW c \in Callers, Release(c)
  PROVE  Goes(c, "done")
  <1>1. caller \in [Callers -> Caller] /\ caller[c] \in Caller
    BY DEF TypeOK
  <1>2. PICK q : q = caller[c]
    OBVIOUS
  <1>3. PICK r : r = [q EXCEPT !.pc = "done"]
    OBVIOUS
  <1>4. r.pc = "done" /\ r.slot = q.slot
    BY ONLY <1>1, <1>2, <1>3 DEF Caller
  <1>5. caller' = [caller EXCEPT ![c] = r]
    BY <1>1, <1>2, <1>3 DEF Release
  <1> QED
    BY ONLY <1>1, <1>2, <1>4, <1>5 DEF Goes

\* Every step keeps the claims.
LEMMA StepClaims == TypeOK /\ Claims /\ [Next]_vars => Claims'
  <1> SUFFICES ASSUME TypeOK, Claims, [Next]_vars PROVE Claims'
    OBVIOUS
  <1> USE TarballPrefetchAssumption
  <1>1. ASSUME NEW c \in Callers, Check(c) PROVE Claims'
    BY <1>1 DEF TypeOK, Claims, Check, Caller, NewCaller
  <1>2. ASSUME NEW c \in Callers, Claim(c) PROVE Claims'
    <2>1. /\ caller'[c].pc = "waiting" /\ caller'[c].slot = registry'
          /\ registry' = IF registry = None THEN c ELSE registry
          /\ \A d \in Callers \ {c} : caller'[d] = caller[d]
          /\ cell' = cell /\ running' = running
      BY <1>2, ClaimGoes
    <2>2. \A d \in Callers : caller[d].pc \in {"waiting", "filled"} \cup Fetching
             => caller[d].slot \in Callers
      BY DEF TypeOK
    <2> QED
      BY ONLY Claims, TarballPrefetchAssumption, <2>1, <2>2, c \in Callers DEF Claims
  <1>3. ASSUME NEW c \in Callers, Begin(c) PROVE Claims'
    <2>1. Moves(c, "asking")
      BY <1>3, BeginMoves
    <2>2. /\ caller[c].pc = "waiting" /\ caller[c].slot \in Callers
          /\ cell[caller[c].slot] = "none" /\ running[caller[c].slot] = None
          /\ running' = [running EXCEPT ![caller[c].slot] = c]
          /\ cell' = cell /\ registry' = registry
      BY <1>3 DEF TypeOK, Begin
    <2>3. ASSUME NEW d \in Callers
          PROVE  /\ caller'[d].slot = caller[d].slot
                 /\ d # c => caller'[d] = caller[d]
      BY ONLY <2>1, <2>3 DEF Moves, SameCall
    <2>4. ASSUME NEW d \in Callers, caller'[d].pc \in Fetching
          PROVE  running'[caller'[d].slot] = d /\ cell'[caller'[d].slot] = "none"
      <3>1. CASE d = c
        BY <2>2, <2>3, <3>1 DEF TypeOK
      <3>2. CASE d # c
        <4>1. running[caller[d].slot] = d /\ cell[caller[d].slot] = "none"
          BY <2>3, <2>4, <3>2 DEF Claims
        <4>2. caller[d].slot # caller[c].slot
          BY <2>2, <4>1
        <4> QED
          BY <2>2, <2>3, <3>2, <4>1, <4>2 DEF TypeOK
      <3> QED
        BY <3>1, <3>2
    <2>5. ASSUME NEW d \in Callers, caller'[d].pc \in {"waiting"} \cup Fetching,
                 cell'[caller'[d].slot] = "none"
          PROVE  registry' = caller'[d].slot
      BY <2>2, <2>3, <2>5 DEF Claims
    <2>6. ASSUME NEW d \in Callers, caller'[d].pc = "filled"
          PROVE  cell'[caller'[d].slot] # "none"
      <3>1. d # c
        BY <2>1, <2>6 DEF Moves
      <3> QED
        BY <2>2, <2>3, <2>6, <3>1 DEF Claims
    <2> QED
      BY <2>4, <2>5, <2>6 DEF Claims
  <1>4. ASSUME NEW c \in Callers, Await(c) PROVE Claims'
    <2>1. Goes(c, "filled")
      BY <1>4, AwaitGoes
    <2>2. /\ caller[c].pc = "waiting" /\ cell[caller[c].slot] # "none"
          /\ UNCHANGED <<registry, cell, running>>
      BY <1>4 DEF Await
    <2> QED
      BY ONLY Claims, <2>1, <2>2 DEF Claims, Goes
  <1>r. ASSUME NEW c \in Callers, Redirect(c) \/ Answer(c) PROVE Claims'
    <2>1. PICK pc \in Fetching : caller[c].pc \in Fetching /\ Moves(c, pc)
      BY <1>r, RedirectMoves, AnswerMoves DEF Redirect, Answer
    <2>2. UNCHANGED <<registry, cell, running, downloads>>
      BY <1>r DEF Redirect, Answer
    <2>3. \A d \in Callers :
             /\ caller'[d].slot = caller[d].slot
             /\ caller'[d].pc \in Fetching <=> caller[d].pc \in Fetching
             /\ caller'[d].pc \notin Fetching => caller'[d].pc = caller[d].pc
      BY <2>1 DEF Moves, SameCall
    <2> QED
      BY <2>2, <2>3, ZenonT(60) DEF Claims
  <1>5. ASSUME NEW c \in Callers, Release(c) PROVE Claims'
    <2>1. Goes(c, "done")
      BY <1>5, ReleaseGoes
    <2>2. /\ caller[c].pc = "filled" /\ cell' = cell /\ running' = running
          /\ registry' = registry \/ (registry = caller[c].slot /\ registry' = None)
      BY <1>5 DEF Release
    <2>3. cell[caller[c].slot] # "none"
      BY <2>2 DEF Claims
    <2> QED
      BY ONLY Claims, <2>1, <2>2, <2>3 DEF Claims, Goes
  <1>6. ASSUME NEW c \in Callers, NEW o \in {"ok", "err"}, Fill(c, o),
               caller[c].pc \in Fetching
        PROVE Claims'
    <2>1. Goes(c, "filled")
      BY <1>6, FillMoves, MovesGoes
    <2>2. PICK s \in Callers : s = caller[c].slot
      BY <1>6 DEF TypeOK
    <2>3. /\ cell' = [cell EXCEPT ![s] = o] /\ running' = [running EXCEPT ![s] = None]
          /\ registry' = registry
      BY <1>6, <2>2 DEF Fill
    <2>4. /\ cell'[s] # "none" /\ running[s] = c
          /\ \A u \in Callers \ {s} : cell'[u] = cell[u] /\ running'[u] = running[u]
      BY <1>6, <2>2, <2>3 DEF TypeOK, Claims
    <2>5. ASSUME NEW d \in Callers \ {c}
          PROVE  /\ caller'[d] = caller[d]
                 /\ caller[d].pc \in Fetching => caller[d].slot # s
                 /\ caller[d].pc \in {"waiting", "filled"} \cup Fetching => caller[d].slot \in Callers
      BY <2>1, <2>2, <2>4 DEF TypeOK, Claims, Goes
    <2> QED
      BY ONLY Claims, <2>1, <2>2, <2>3, <2>4, <2>5 DEF Claims, Goes
  <1>7. ASSUME NEW c \in Callers, FinishOk(c) \/ FinishErr(c) PROVE Claims'
    BY <1>6, <1>7 DEF FinishOk, FinishErr
  <1>8. ASSUME NEW c \in Callers, Extract(c) PROVE Claims'
    BY <1>8, ClaimsKept DEF Extract
  <1>9. ASSUME NEW c \in Callers, Cancel(c) PROVE Claims'
    <2>1. Goes(c, "cancelled")
      BY <1>9, CancelMoves, MovesGoes
    <2>2. /\ UNCHANGED <<registry, cell>>
          /\ \A s \in Callers : running[s] # c => running'[s] = running[s]
      BY <1>9 DEF Cancel
    <2>3. \A d \in Callers : caller[d].pc \in {"waiting", "filled"} \cup Fetching
             => caller[d].slot \in Callers
      BY DEF TypeOK
    <2> QED
      BY ONLY Claims, <2>1, <2>2, <2>3 DEF Claims, Goes
  <1>10. ASSUME NEW b \in Blobs, Evict(b) PROVE Claims'
    BY <1>10, ClaimsKept DEF Evict
  <1>11. CASE UNCHANGED vars
    BY <1>11, ClaimsKept DEF vars
  <1> QED
    BY <1>1, <1>2, <1>3, <1>4, <1>r, <1>5, <1>7, <1>8, <1>9, <1>10, <1>11
       DEF Next, Advance

\* No two mounts download at the same time, whatever calls were dropped.
THEOREM OneFetcherCorrect == Spec => []OneFetcher
  <1>1. Init => Claims
    BY DEF Init, Claims, NewCaller
  <1>2. TypeOK /\ Claims => OneFetcher
    BY DEF TypeOK, Claims, OneFetcher, Caller
  <1> QED
    BY TypeCorrect, <1>1, StepClaims, <1>2, PTL DEF Spec

-----------------------------------------------------------------------------
\* Every step keeps the slots named by calls that have claimed.
LEMMA StepNamed == TypeOK /\ Named /\ [Next]_vars => Named'
  <1> SUFFICES ASSUME TypeOK, Named, [Next]_vars PROVE Named'
    OBVIOUS
  <1> USE TarballPrefetchAssumption DEF Claimed
  <1>1. ASSUME NEW c \in Callers, Check(c) PROVE Named'
    BY <1>1 DEF TypeOK, Named, Check, Caller, NewCaller
  <1>2. ASSUME NEW c \in Callers, Claim(c) PROVE Named'
    <2>1. /\ caller'[c].pc = "waiting" /\ caller'[c].slot = registry'
          /\ registry' = IF registry = None THEN c ELSE registry
          /\ \A d \in Callers \ {c} : caller'[d] = caller[d]
          /\ cell' = cell
      BY <1>2, ClaimGoes
    <2>2. \A d \in Callers : caller[d].pc \in {"waiting", "filled"} \cup Fetching
             => caller[d].slot \in Callers
      BY DEF TypeOK
    <2>3. \A d \in Callers : Claimed(d) => Claimed(d)'
      BY ONLY <2>1
    <2>4. Claimed(c)' /\ registry \in Callers \cup {None}
      BY <2>1 DEF TypeOK
    <2> HIDE DEF Claimed
    <2>5. registry' \in Callers /\ Claimed(registry)'
      <3>1. CASE registry = None
        BY <2>1, <2>4, <3>1
      <3>2. CASE registry # None
        BY <2>1, <2>3, <2>4, <3>2 DEF Named
      <3> QED
        BY <3>1, <3>2
    <2>6. ASSUME NEW d \in Callers,
                 caller'[d].pc \in {"waiting", "filled"} \cup Fetching
          PROVE  Claimed(caller[d].slot)'
      <3>1. CASE d = c
        BY <2>1, <2>5, <3>1 DEF Claimed
      <3>2. CASE d # c
        <4>1. caller'[d] = caller[d] /\ caller[d].slot \in Callers
          BY <2>1, <2>2, <2>6, <3>2
        <4>2. Claimed(caller[d].slot)
          BY <2>6, <4>1 DEF Named
        <4> QED
          BY <2>3, <4>1, <4>2 DEF Claimed
      <3> QED
        BY <3>1, <3>2
    <2>7. \A d \in Callers : cell'[d] # "none" => Claimed(d)'
      BY <2>1, <2>3 DEF Named
    <2> QED
      BY <2>5, <2>6, <2>7 DEF Named
  <1>3. ASSUME NEW c \in Callers, Begin(c) PROVE Named'
    BY <1>3 DEF TypeOK, Named, Begin, Caller
  <1>4. ASSUME NEW c \in Callers, Await(c) PROVE Named'
    <2>1. Goes(c, "filled")
      BY <1>4, AwaitGoes
    <2>2. caller[c].pc = "waiting" /\ UNCHANGED <<registry, cell>>
      BY <1>4 DEF Await
    <2>3. /\ registry \in Callers \cup {None}
          /\ \A d \in Callers : caller[d].pc \in {"waiting", "filled"} \cup Fetching
               => caller[d].slot \in Callers
      BY DEF TypeOK
    <2> QED
      BY ONLY Named, <2>1, <2>2, <2>3 DEF Named, Goes, Claimed
  <1>r. ASSUME NEW c \in Callers, Redirect(c) \/ Answer(c) PROVE Named'
    <2>1. PICK pc \in Fetching : caller[c].pc \in Fetching /\ Moves(c, pc)
      BY <1>r, RedirectMoves, AnswerMoves DEF Redirect, Answer
    <2>2. UNCHANGED <<registry, cell, running, downloads>>
      BY <1>r DEF Redirect, Answer
    <2>3. \A d \in Callers :
             /\ caller'[d].slot = caller[d].slot
             /\ caller'[d].pc \in Fetching <=> caller[d].pc \in Fetching
             /\ caller'[d].pc \notin Fetching => caller'[d].pc = caller[d].pc
      BY <2>1 DEF Moves, SameCall
    <2>4. \A d \in Callers : Claimed(d)' <=> Claimed(d)
      BY <2>3
    <2> HIDE DEF Claimed
    <2>5. (registry # None => Claimed(registry))'
      BY <2>2, <2>4 DEF TypeOK, Named
    <2>6. (\A d \in Callers : caller[d].pc \in {"waiting", "filled"} \cup Fetching
             => Claimed(caller[d].slot))'
      <3> SUFFICES ASSUME NEW d \in Callers,
                          caller'[d].pc \in {"waiting", "filled"} \cup Fetching
                   PROVE  Claimed(caller[d].slot)'
        OBVIOUS
      <3>1. caller[d].pc \in {"waiting", "filled"} \cup Fetching
        BY <2>3
      <3>2. caller[d].slot \in Callers /\ Claimed(caller[d].slot)
        BY <3>1 DEF TypeOK, Named
      <3>3. caller'[d].slot = caller[d].slot
        BY <2>3
      <3> QED
        BY <2>4, <3>2, <3>3 DEF Claimed
    <2>7. (\A d \in Callers : cell[d] # "none" => Claimed(d))'
      BY <2>2, <2>4 DEF Named
    <2> QED
      BY <2>5, <2>6, <2>7 DEF Named, Claimed
  <1>5. ASSUME NEW c \in Callers, Release(c) PROVE Named'
    BY <1>5 DEF TypeOK, Named, Release, Caller
  <1>6. ASSUME NEW c \in Callers, FinishOk(c) \/ FinishErr(c) PROVE Named'
    <2>1. PICK o \in {"ok", "err"} : caller[c].pc \in Fetching /\ Fill(c, o)
      BY <1>6 DEF FinishOk, FinishErr
    <2>2. Moves(c, "filled")
      BY <2>1, FillMoves
    <2>3. /\ caller[c].slot \in Callers
          /\ cell' = [cell EXCEPT ![caller[c].slot] = o]
          /\ registry' = registry
      BY <2>1 DEF TypeOK, Fill
    <2>4. \A d \in Callers :
             /\ caller'[d].slot = caller[d].slot
             /\ caller'[d].pc = IF d = c THEN "filled" ELSE caller[d].pc
      BY <2>2 DEF Moves, SameCall
    <2>5. \A d \in Callers : Claimed(d)' <=> Claimed(d)
      BY <2>1, <2>4
    <2> HIDE DEF Claimed
    <2>6. Claimed(caller[c].slot)
      BY <2>1 DEF Named
    <2>7. \A d \in Callers : caller'[d].pc \in {"waiting", "filled"} \cup Fetching
             => caller[d].pc \in {"waiting", "filled"} \cup Fetching
      BY <2>1, <2>4
    <2>8. (\A d \in Callers : caller[d].pc \in {"waiting", "filled"} \cup Fetching
             => Claimed(caller[d].slot))'
      BY <2>4, <2>5, <2>7 DEF TypeOK, Named, Claimed
    <2>9. (\A d \in Callers : cell[d] # "none" => Claimed(d))'
      BY <2>3, <2>5, <2>6 DEF TypeOK, Named
    <2>10. (registry # None => Claimed(registry))'
      BY <2>3, <2>5 DEF TypeOK, Named
    <2> QED
      BY <2>8, <2>9, <2>10 DEF Named, Claimed
  <1>7. ASSUME NEW c \in Callers, Extract(c) PROVE Named'
    BY <1>7 DEF Named, Extract
  <1>8. ASSUME NEW c \in Callers, Cancel(c) PROVE Named'
    BY <1>8 DEF TypeOK, Named, Cancel, Caller
  <1>9. ASSUME NEW b \in Blobs, Evict(b) PROVE Named'
    BY <1>9 DEF Named, Evict
  <1>10. CASE UNCHANGED vars
    BY <1>10 DEF Named, vars
  <1> QED
    BY <1>1, <1>2, <1>3, <1>4, <1>r, <1>5, <1>6, <1>7, <1>8, <1>9, <1>10
       DEF Next, Advance

\* A call that starts alone finds the registry empty.
LEMMA AloneFindsNothing ==
  ASSUME TypeOK, Led, \A d \in Callers : caller[d].pc \in Over
  PROVE  registry = None
  BY DEF TypeOK, Led, Over

\* Every step keeps the registry's leader at work.
LEMMA StepLed ==
  ASSUME TypeOK, Led, [Next]_vars, cancels' = 0
  PROVE  Led'
  <1> USE TarballPrefetchAssumption
  <1>1. ASSUME NEW c \in Callers, Check(c) PROVE Led'
    BY <1>1 DEF TypeOK, Led, Check, Caller, NewCaller
  <1>2. ASSUME NEW c \in Callers, Claim(c) PROVE Led'
    BY <1>2 DEF TypeOK, Led, Claim, Caller
  <1>3. ASSUME NEW c \in Callers, Begin(c) PROVE Led'
    BY <1>3 DEF TypeOK, Led, Begin, Caller
  <1>4. ASSUME NEW c \in Callers, Await(c) PROVE Led'
    BY <1>4 DEF TypeOK, Led, Await, Caller
  <1>r. ASSUME NEW c \in Callers, Redirect(c) \/ Answer(c) PROVE Led'
    <2>1. caller[c].pc \in Fetching /\ \E pc \in Fetching : Moves(c, pc)
      BY <1>r, RedirectMoves, AnswerMoves DEF Redirect, Answer
    <2>2. UNCHANGED <<registry, cell, running, downloads>>
      BY <1>r DEF Redirect, Answer
    <2> QED
      BY <2>1, <2>2 DEF TypeOK, Led, Moves, SameCall
  <1>5. ASSUME NEW c \in Callers, Release(c) PROVE Led'
    BY <1>5 DEF TypeOK, Led, Release, Caller
  <1>6. ASSUME NEW c \in Callers, FinishOk(c) \/ FinishErr(c) PROVE Led'
    <2>1. PICK o \in {"ok", "err"} : caller[c].pc \in Fetching /\ Fill(c, o)
      BY <1>6 DEF FinishOk, FinishErr
    <2>2. Moves(c, "filled")
      BY <2>1, FillMoves
    <2>3. /\ caller[c].slot \in Callers
          /\ cell' = [cell EXCEPT ![caller[c].slot] = o]
          /\ registry' = registry
      BY <2>1 DEF TypeOK, Fill
    <2> QED
      BY <2>1, <2>2, <2>3 DEF TypeOK, Led, Moves, SameCall
  <1>7. ASSUME NEW c \in Callers, Extract(c) PROVE Led'
    BY <1>7 DEF Led, Extract
  <1>8. ASSUME NEW c \in Callers, Cancel(c) PROVE Led'
    BY <1>8 DEF TypeOK, Cancel
  <1>9. ASSUME NEW b \in Blobs, Evict(b) PROVE Led'
    BY <1>9 DEF Led, Evict
  <1>10. CASE UNCHANGED vars
    BY <1>10 DEF Led, vars
  <1> QED
    BY <1>1, <1>2, <1>3, <1>4, <1>r, <1>5, <1>6, <1>7, <1>8, <1>9, <1>10
       DEF Next, Advance

\* Every step keeps what alone callers can get newer than their look.
LEMMA StepFresh ==
  ASSUME TypeOK, Claims, Named, Led, Fresh, [Next]_vars, cancels' = 0
  PROVE  Fresh'
  <1> USE TarballPrefetchAssumption DEF Active
  <1>1. ASSUME NEW c \in Callers, Check(c) PROVE Fresh'
    <2>1. UNCHANGED <<registry, cell, downloads>> /\ caller[c].pc = "new"
      BY <1>1 DEF Check
    <2>2. \A d \in Callers : downloads >= caller'[d].before
      BY <1>1, CheckMoves DEF Fresh, TypeOK
    <2>3. ASSUME NEW d \in Callers, d # c,
                 caller'[d].alone /\ caller'[d].pc \in Active \cup {"done"}
          PROVE Newer(d)'
      <3>1. Newer(d) /\ caller'[d] = caller[d]
        BY <1>1, <2>3, CheckMoves DEF Fresh
      <3>2. \A e \in Callers : caller'[e].pc \in Fetching => caller[e].pc \in Fetching
        BY <1>1, CheckMoves
      <3> QED
        BY <2>1, <3>1, <3>2 DEF Newer
    <2>4. ASSUME caller'[c].alone PROVE Newer(c)'
      <3>1. registry = None /\ caller'[c].pc = "checked"
        BY <1>1, <2>4, AloneFindsNothing, CheckMoves
      <3>2. \A e \in Callers : caller'[e].pc \notin Fetching
        BY <1>1, <2>4, CheckMoves DEF Over
      <3> QED
        BY <2>1, <3>1, <3>2 DEF Newer
    <2> QED
      BY <2>1, <2>2, <2>3, <2>4 DEF Fresh
  <1>2. ASSUME NEW c \in Callers, Claim(c) PROVE Fresh'
    <2>1. registry = None => cell[c] = "none"
      BY <1>2 DEF Named, Claimed, Claim
    <2>2. /\ caller'[c].pc = "waiting" /\ caller'[c].slot = registry'
          /\ caller'[c].alone = caller[c].alone /\ caller'[c].before = caller[c].before
          /\ \A d \in Callers \ {c} : caller'[d] = caller[d]
          /\ downloads' = downloads /\ cell' = cell
          /\ registry' = IF registry = None THEN c ELSE registry
      BY <1>2 DEF TypeOK, Claim, Caller
    <2>3. ASSUME NEW d \in Callers,
                 caller'[d].alone /\ caller'[d].pc \in Active \cup {"done"}
          PROVE Newer(d)'
      <3>1. Newer(d)
        BY <1>2, <2>2, <2>3 DEF Fresh, Claim
      <3> QED
        BY <1>2, <2>1, <2>2, <3>1 DEF Newer, Claim
    <2>4. \A d \in Callers : downloads' >= caller'[d].before
      BY <2>2 DEF Fresh
    <2> QED
      BY <2>3, <2>4 DEF Fresh
  <1>3. ASSUME NEW c \in Callers, Begin(c) PROVE Fresh'
    <2>1. Moves(c, "asking") /\ caller[c].pc = "waiting"
      BY <1>3, BeginMoves DEF Begin
    <2>2. downloads' = downloads + 1 /\ downloads \in Nat /\ UNCHANGED <<registry, cell>>
      BY <1>3 DEF TypeOK, Begin
    <2>3. \A d \in Callers : caller'[d].before = caller[d].before /\ caller[d].before \in Nat
      BY <2>1 DEF TypeOK, Moves, SameCall, Caller
    <2>4. \A d \in Callers : downloads' > caller'[d].before
      BY <2>2, <2>3 DEF Fresh
    <2> QED
      BY <2>2, <2>3, <2>4 DEF Fresh, Newer
  <1>4. ASSUME NEW c \in Callers, Await(c) PROVE Fresh'
    BY <1>4, ZenonT(60) DEF TypeOK, Fresh, Newer, Await, Caller
  <1>r. ASSUME NEW c \in Callers, Redirect(c) \/ Answer(c) PROVE Fresh'
    <2>1. caller[c].pc \in Fetching /\ \E pc \in Fetching : Moves(c, pc)
      BY <1>r, RedirectMoves, AnswerMoves DEF Redirect, Answer
    <2>2. UNCHANGED <<registry, cell, running, downloads>>
      BY <1>r DEF Redirect, Answer
    <2> QED
      BY <2>1, <2>2 DEF TypeOK, Fresh, Newer, Moves, SameCall
  <1>5. ASSUME NEW c \in Callers, Release(c) PROVE Fresh'
    BY <1>5 DEF TypeOK, Fresh, Newer, Release, Caller
  <1>6. ASSUME NEW c \in Callers, FinishOk(c) \/ FinishErr(c) PROVE Fresh'
    <2>1. PICK o \in {"ok", "err"} : caller[c].pc \in Fetching /\ Fill(c, o)
      BY <1>6 DEF FinishOk, FinishErr
    <2>2. /\ caller'[c].pc = "filled" /\ caller'[c].before = caller[c].before
          /\ caller'[c].alone = caller[c].alone
          /\ \A d \in Callers \ {c} : caller'[d] = caller[d]
          /\ downloads' = downloads /\ registry' = registry
      BY <2>1 DEF TypeOK, Fill, Caller
    <2>3. ASSUME NEW d \in Callers,
                 caller'[d].alone /\ caller'[d].pc \in Active \cup {"done"}
          PROVE Newer(d)'
      <3>1. Newer(d)
        BY <2>1, <2>2, <2>3 DEF Fresh
      <3>2. downloads > caller[d].before
        BY <2>1, <3>1 DEF Newer
      <3>3. caller'[d].before = caller[d].before
        BY <2>2
      <3> QED
        BY <2>2, <3>2, <3>3 DEF Newer
    <2>4. \A d \in Callers : downloads' >= caller'[d].before
      BY <2>2 DEF Fresh
    <2> QED
      BY <2>3, <2>4 DEF Fresh
  <1>7. ASSUME NEW c \in Callers, Extract(c) PROVE Fresh'
    BY <1>7 DEF Fresh, Newer, Extract
  <1>8. ASSUME NEW c \in Callers, Cancel(c) PROVE Fresh'
    BY <1>8 DEF TypeOK, Cancel
  <1>9. ASSUME NEW b \in Blobs, Evict(b) PROVE Fresh'
    BY <1>9 DEF Fresh, Newer, Evict
  <1>10. CASE UNCHANGED vars
    BY <1>10 DEF Fresh, Newer, vars
  <1> QED
    BY <1>1, <1>2, <1>3, <1>4, <1>r, <1>5, <1>6, <1>7, <1>8, <1>9, <1>10
       DEF Next, Advance

\* A dropped call stays counted.
LEMMA CancelsGrow == TypeOK /\ [Next]_vars /\ cancels' = 0 => cancels = 0
  <1> SUFFICES ASSUME TypeOK, [Next]_vars, cancels' = 0 PROVE cancels = 0
    OBVIOUS
  <1>1. ASSUME NEW c \in Callers, Cancel(c) PROVE FALSE
    BY <1>1, TarballPrefetchAssumption DEF TypeOK, Cancel
  <1>2. ASSUME NEW c \in Callers, Check(c) \/ Advance(c) PROVE cancels' = cancels
    BY <1>2 DEF Advance, Check, Claim, Begin, Redirect, Answer, Await, Release, FinishOk,
                FinishErr, Fill, Extract
  <1> QED
    BY <1>1, <1>2 DEF Next, Evict, vars

\* As long as no call was dropped, a mount that starts alone is answered from a
\* download begun after it looked at the cache.
THEOREM UndroppedFetch == Spec => []UndroppedMountsFetch
  <1>1. Init => Claims /\ Named /\ Quiet
    BY TarballPrefetchAssumption
       DEF Init, Claims, Named, Claimed, Quiet, Led, Fresh, Active, NewCaller
  <1>2. TypeOK /\ Claims /\ Named /\ Quiet /\ [Next]_vars => Quiet'
    BY StepLed, StepFresh, CancelsGrow DEF Quiet
  <1>3. Quiet => UndroppedMountsFetch
    BY DEF Quiet, Fresh, Newer, UndroppedMountsFetch, LaterMountsFetch, Active
  <1> QED
    BY TypeCorrect, <1>1, StepClaims, StepNamed, <1>2, <1>3, PTL DEF Spec

-----------------------------------------------------------------------------
\* What an ok stands for, and an extraction as far as it has come.
Settled == Carried \cap missing = {}

Extracted(c) ==
    \A i \in 1..(Len(Archive) - left[c]) :
       Kept(Archive[i]) => Archive[i].sha \notin missing

CacheInv ==
    /\ Wanted \ Carried \subseteq missing
    /\ \A c \in Callers : caller[c].pc = "extracting" => Extracted(c)
    /\ \A c \in Callers : cell[c] = "ok" => Settled
    /\ \A c \in Callers : caller[c].outcome = "ok" => Settled

\* An entry that is kept has the digest that the manifest expects there.
LEMMA KeptIsExpected ==
  ASSUME NEW i \in DOMAIN Archive, Kept(Archive[i])
  PROVE  Expected(Archive[i].path) = {Archive[i].sha} /\ Archive[i].sha \in Carried
  <1> DEFINE e == Archive[i]
  <1>1. e \in TarEntries
    BY ManifestAssumption
  <1>2. PICK r \in Requests : r.path = e.path /\ r.sha = e.sha
    BY DEF Kept, Expected
  <1>3. \A q \in Requests : q.path = e.path => q = r
    BY <1>2, ManifestAssumption DEF Requests
  <1>4. Expected(e.path) = {e.sha}
    BY <1>2, <1>3 DEF Expected
  <1>5. e = [safe |-> TRUE, path |-> r.path, sha |-> r.sha, type |-> "regular"]
    BY <1>1, <1>2 DEF Kept, Valid, TarEntries
  <1>6. e.sha \in Carried
    BY <1>2, <1>5 DEF Carried
  <1> QED
    BY <1>4, <1>6

\* What the archive carries is kept from some entry of it.
LEMMA CarriedIsKept ==
  ASSUME NEW b \in Carried
  PROVE  \E i \in 1..Len(Archive) : Kept(Archive[i]) /\ Archive[i].sha = b
  <1>1. PICK r \in Requests : r.sha = b /\ \E i \in DOMAIN Archive :
           Archive[i] = [safe |-> TRUE, path |-> r.path, sha |-> r.sha, type |-> "regular"]
    BY DEF Carried
  <1>2. PICK i \in DOMAIN Archive :
           Archive[i] = [safe |-> TRUE, path |-> r.path, sha |-> r.sha, type |-> "regular"]
    BY <1>1
  <1>3. r.path # None
    BY ManifestAssumption DEF Requests, TreeEntries
  <1>4. Kept(Archive[i]) /\ Archive[i].sha = b
    BY <1>1, <1>2, <1>3 DEF Kept, Valid, Expected
  <1>5. i \in 1..Len(Archive)
    BY <1>2, ManifestAssumption
  <1> QED
    BY <1>4, <1>5, Zenon

\* Steps that leave the cache alone settle nothing that was not.
LEMMA SettledKept ==
  ASSUME UNCHANGED missing PROVE Settled' <=> Settled
  BY DEF Settled

\* Reading an entry takes what it carries, and only that, from what is missing.
LEMMA ExtractCached ==
  ASSUME TypeOK, CacheInv, NEW c \in Callers, Extract(c)
  PROVE  CacheInv'
  <1> DEFINE n == Len(Archive) - left[c] + 1
  <1>1. n \in 1..Len(Archive) /\ n \in DOMAIN Archive
    BY ArchiveLength, ManifestAssumption DEF TypeOK, Extract
  <1>2. missing' = IF Kept(Archive[n]) THEN missing \ Expected(Archive[n].path) ELSE missing
    BY DEF Extract
  <1>3. /\ missing' \subseteq missing
        /\ Wanted \ Carried \subseteq missing'
        /\ Kept(Archive[n]) => Archive[n].sha \notin missing'
    BY <1>1, <1>2, KeptIsExpected DEF CacheInv
  <1>4. left' = [left EXCEPT ![c] = @ - 1] /\ UNCHANGED <<cell, caller>>
    BY DEF Extract
  <1>5. Settled => Settled'
    BY <1>3 DEF Settled
  <1>6. ASSUME NEW d \in Callers, caller'[d].pc = "extracting" PROVE Extracted(d)'
    <2>1. Extracted(d)
      BY <1>4, <1>6 DEF CacheInv
    <2>2. ASSUME NEW i \in 1..(Len(Archive) - left'[d]), Kept(Archive[i])
          PROVE  Archive[i].sha \notin missing'
      <3>1. CASE d # c
        BY <1>3, <1>4, <2>1, <2>2, <3>1 DEF Extracted, TypeOK
      <3>2. CASE d = c
        <4>1. left[c] \in Nat /\ left'[c] = left[c] - 1
          BY <1>4 DEF TypeOK
        <4>2. i = n \/ i \in 1..(Len(Archive) - left[c])
          BY <2>2, <3>2, <4>1, ArchiveLength
        <4> QED
          BY <1>3, <2>1, <2>2, <3>2, <4>2 DEF Extracted
      <3> QED
        BY <3>1, <3>2
    <2> QED
      BY <2>2 DEF Extracted
  <1> QED
    BY <1>3, <1>4, <1>5, <1>6 DEF CacheInv

\* A download that has read every entry has settled.
LEMMA ReadToTheEnd ==
  ASSUME TypeOK, CacheInv, NEW c \in Callers, caller[c].pc = "extracting", left[c] = 0
  PROVE  Settled
  <1>1. Extracted(c) /\ Len(Archive) - left[c] = Len(Archive)
    BY ArchiveLength DEF CacheInv
  <1> QED
    BY <1>1, CarriedIsKept DEF Extracted, Settled

\* Where the cache stays as it is, a call that goes on keeps the invariant if it
\* is not extracting or has just begun to, and an ok is not new.
LEMMA CacheKept ==
  ASSUME TypeOK, CacheInv, UNCHANGED missing,
         \A d \in Callers : caller'[d].pc = "extracting" =>
            \/ caller[d].pc = "extracting" /\ left'[d] = left[d]
            \/ left'[d] = Len(Archive),
         \A d \in Callers : cell'[d] = "ok" => cell[d] = "ok" \/ Settled,
         \A d \in Callers : caller'[d].outcome = "ok" => caller[d].outcome = "ok" \/ Settled
  PROVE  CacheInv'
  <1>1. ASSUME NEW d \in Callers, caller'[d].pc = "extracting" PROVE Extracted(d)'
    <2>1. CASE caller[d].pc = "extracting" /\ left'[d] = left[d]
      BY <2>1 DEF CacheInv, Extracted
    <2>2. CASE left'[d] = Len(Archive)
      <3>1. 1..(Len(Archive) - left'[d]) = {}
        BY <2>2, ArchiveLength
      <3> QED
        BY <3>1 DEF Extracted
    <2> QED
      BY <1>1, <2>1, <2>2
  <1>2. /\ \A d \in Callers : cell'[d] = "ok" => Settled'
        /\ \A d \in Callers : caller'[d].outcome = "ok" => Settled'
    BY SettledKept DEF CacheInv
  <1> QED
    BY <1>1, <1>2 DEF CacheInv

\* As long as nothing is evicted, every step keeps the cache's contents.
LEMMA StepCached == TypeOK /\ CacheInv /\ [Next]_vars /\ evictions' = 0 => CacheInv'
  <1> SUFFICES ASSUME TypeOK, CacheInv, [Next]_vars, evictions' = 0 PROVE CacheInv'
    OBVIOUS
  <1>t. caller \in [Callers -> Caller] /\ cell \in [Callers -> {"none", "ok", "err"}]
    BY DEF TypeOK
  <1>1. ASSUME NEW c \in Callers, Check(c) PROVE CacheInv'
    <2>1. UNCHANGED <<missing, cell, left>>
      BY <1>1 DEF Check
    <2>2. \A d \in Callers : caller'[d].pc = "extracting" => caller[d].pc = "extracting"
      BY <1>1, CheckMoves
    <2>3. \A d \in Callers : caller'[d].outcome = "ok" =>
             caller[d].outcome = "ok" \/ missing = {}
      BY <1>1, <1>t DEF Check, NewCaller
    <2>4. missing = {} => Settled
      BY DEF Settled
    <2> QED
      BY <2>1, <2>2, <2>3, <2>4, CacheKept
  <1>2. ASSUME NEW c \in Callers, Claim(c) \/ Begin(c) \/ Redirect(c) \/ Release(c) \/ Cancel(c)
        PROVE CacheInv'
    <2>1. UNCHANGED <<missing, cell, left>>
      BY <1>2 DEF Claim, Begin, Redirect, Release, Cancel
    <2>2. \A d \in Callers : caller'[d].pc = "extracting" => caller[d].pc = "extracting"
      BY <1>2, <1>t DEF Claim, Begin, Redirect, Release, Cancel, Caller
    <2>3. \A d \in Callers : caller'[d].outcome = caller[d].outcome
      BY <1>2, <1>t DEF Claim, Begin, Redirect, Release, Cancel, Caller
    <2> QED
      BY <2>1, <2>2, <2>3, CacheKept
  <1>3. ASSUME NEW c \in Callers, Answer(c) PROVE CacheInv'
    <2>1. UNCHANGED <<missing, cell>> /\ left' = [left EXCEPT ![c] = Len(Archive)]
      BY <1>3 DEF Answer
    <2>2. \A d \in Callers \ {c} : caller'[d].pc = caller[d].pc
      BY <1>3, <1>t DEF Answer, Caller
    <2>3. \A d \in Callers : caller'[d].outcome = caller[d].outcome
      BY <1>3, <1>t DEF Answer, Caller
    <2>4. \A d \in Callers : left'[d] = IF d = c THEN Len(Archive) ELSE left[d]
      BY <2>1 DEF TypeOK
    <2> QED
      BY <2>1, <2>2, <2>3, <2>4, CacheKept
  <1>4. ASSUME NEW c \in Callers, Await(c) PROVE CacheInv'
    <2>1. UNCHANGED <<missing, cell, left>>
      BY <1>4 DEF Await
    <2>2. \A d \in Callers : caller'[d].pc = "extracting" => caller[d].pc = "extracting"
      BY <1>4, <1>t DEF Await, Caller
    <2>3. \A d \in Callers : caller'[d].outcome = "ok" =>
             caller[d].outcome = "ok" \/ cell[caller[c].slot] = "ok"
      BY <1>4, <1>t DEF Await, Caller
    <2>4. cell[caller[c].slot] = "ok" => Settled
      BY <1>4 DEF CacheInv, TypeOK, Await
    <2> QED
      BY <2>1, <2>2, <2>3, <2>4, CacheKept
  <1>5. ASSUME NEW c \in Callers, FinishOk(c) \/ FinishErr(c) PROVE CacheInv'
    <2>1. PICK o \in {"ok", "err"} :
             Fill(c, o) /\ caller[c].pc \in Fetching /\ (o = "ok" => FinishOk(c))
      BY <1>5 DEF FinishOk, FinishErr
    <2>2. o = "ok" => Settled
      BY <2>1, ReadToTheEnd DEF FinishOk
    <2>3. caller[c].slot \in Callers
      BY <2>1 DEF TypeOK
    <2>4. /\ UNCHANGED missing
          /\ \A d \in Callers : cell'[d] = "ok" => cell[d] = "ok" \/ Settled
      BY <1>t, <2>1, <2>2, <2>3 DEF Fill
    <2>5. \A d \in Callers :
             /\ caller'[d].pc = "extracting" => d # c /\ caller[d].pc = "extracting"
             /\ caller'[d].outcome = "ok" => caller[d].outcome = "ok" \/ Settled
      BY <2>1, <2>2, FillMoves DEF Moves
    <2>6. \A d \in Callers \ {c} : left'[d] = left[d]
      BY <2>1 DEF Fill, TypeOK
    <2> QED
      BY <2>4, <2>5, <2>6, CacheKept
  <1>6. ASSUME NEW c \in Callers, Extract(c) PROVE CacheInv'
    BY <1>6, ExtractCached
  <1>7. ASSUME NEW b \in Blobs, Evict(b) PROVE FALSE
    BY <1>7 DEF Evict, TypeOK
  <1>8. CASE UNCHANGED vars
    BY <1>8, CacheKept DEF vars
  <1> QED
    BY <1>1, <1>2, <1>3, <1>4, <1>5, <1>6, <1>7, <1>8 DEF Next, Advance

\* An evicted blob stays counted.
LEMMA EvictionsGrow == TypeOK /\ [Next]_vars /\ evictions' = 0 => evictions = 0
  <1> SUFFICES ASSUME TypeOK, [Next]_vars, evictions' = 0 PROVE evictions = 0
    OBVIOUS
  <1>1. ASSUME NEW b \in Blobs, Evict(b) PROVE FALSE
    BY <1>1 DEF Evict, TypeOK
  <1>2. ASSUME NEW c \in Callers, Check(c) \/ Cancel(c) \/ Advance(c)
        PROVE  evictions' = evictions
    BY <1>2 DEF Advance, Check, Cancel, Claim, Begin, Redirect, Answer, Extract, Await,
                Release, FinishOk, FinishErr, Fill
  <1> QED
    BY <1>1, <1>2 DEF Next, vars

\* As long as nothing is evicted, a mount that is told the tarball is in has in
\* the cache what the archive carries of its manifest, and nothing more came in.
THEOREM OkIsCached == Spec => []OkMeansCached
  <1> DEFINE I == evictions = 0 => CacheInv
  <1>1. Init => I
    BY DEF Init, CacheInv, NewCaller
  <1>2. TypeOK /\ I /\ [Next]_vars => I'
    BY StepCached, EvictionsGrow
  <1>3. TypeOK /\ I => OkMeansCached
    BY DEF TypeOK, CacheInv, Settled, OkMeansCached
  <1> QED
    BY TypeCorrect, <1>1, <1>2, <1>3, PTL DEF Spec

-----------------------------------------------------------------------------
(* Requests: what every step needs of the requests and of the counters.    *)

\* What a request's stage says of its record, at time `now`.
Staged(r, now) ==
    /\ r.pc \in {"latest", "resolve", "put"} =>
          /\ r.spec \in Specs /\ r.spec.provider # "github"
          /\ r.commit = Resolving
    /\ r.pc = "latest" => IsLatest(r.spec)
    /\ r.pc \in {"resolve", "put"} => r.version \in Versions
    /\ r.pc \in {"put", "content"} \cup Window => r.ref \in Refs
    /\ r.pc = "resolving" => r.spec \in Specs /\ r.commit = Resolving
    /\ r.pc \in {"dropping", "merging", "content"} => r.commit \in Commits
    /\ r.pc = "merging" => r.held # 0
    /\ r.call # Nothing => r.pc \in {"resolving", "content"}
    /\ r.call # Nothing /\ r.call.step # "rest" => r.call.result = "Throttled"
    /\ r.asked <= now /\ r.looked <= now

\* Releases come in order, from version 1 on.
InOrder == \E k \in Versions : Released = 1..k

\* Version v was the latest one at time t, or is since; `slack` earlier.
AsOf(v, t, slack) == v \in Released /\ (v = Last \/ since[v + 1] + slack >= t)

\* What the entry of s in the resolution cache, in memory or in the file, says.
Worth(s, e) ==
    /\ e.latest = IsLatest(s)
    /\ ~e.latest => e.version = s.version
    /\ e.latest => AsOf(e.version, e.asked, 0)
    /\ e.asked <= e.at /\ e.at <= clock
    /\ e.latest => e.at <= e.asked + slowest

\* What a request's version is worth.
Dated(r) ==
    r.pc \in {"resolve", "put", "resolving"} /\ r.spec.provider # "github" =>
        /\ ~IsLatest(r.spec) => r.version = r.spec.version
        /\ IsLatest(r.spec) /\ r.pc = "resolving" =>
              AsOf(r.version, r.looked, TTL + slowest)
        /\ IsLatest(r.spec) /\ r.pc # "resolving" =>
              AsOf(r.version, r.asked, 0) /\ r.looked <= r.asked

\* Two requests whose refs are being resolved at once have crossed.
Apart == \A m, n \in Mounts :
            m # n /\ mount[m].pc \in Window /\ mount[n].pc \in Window
                  /\ mount[m].ref = mount[n].ref => mount[m].ref \in crossed

\* The answer to a request's resolve_ref call is in a bucket of the table, or
\* on its way into one.
Shown(r) ==
    r.ref \notin crossed =>
        /\ r.pc = "resolving" /\ r.call # Nothing =>
              table[<<r.ref, Resolving>>] = r.call.bucket
        /\ r.pc = "dropping" => /\ table[<<r.ref, Resolving>>] # 0
                                /\ buckets[table[<<r.ref, Resolving>>]].rest >= 1
        /\ r.pc = "merging" => buckets[r.held].rest >= 1
        /\ r.pc = "content" => /\ table[<<r.ref, r.commit>>] # 0
                               /\ buckets[table[<<r.ref, r.commit>>]].rest >= 1

Typed == /\ RequestsTypeOK
         /\ \A m \in Mounts : Staged(mount[m], clock)
         /\ InOrder

Dates == /\ \A s \in Specs : entries[s] # Nothing => Worth(s, entries[s])
         /\ \A s \in Specs : file[s] # Nothing => Worth(s, file[s])
         /\ \A m \in Mounts : Dated(mount[m])

Shows == Apart /\ \A m \in Mounts : Shown(mount[m])

\* A step's counters: buckets are added and count up.
Grows ==
    /\ buckets' \in Seq(MountCounters)
    /\ table' \in [CounterKey -> 0..Len(buckets')]
    /\ Len(buckets) <= Len(buckets')
    /\ \A b \in 1..Len(buckets) : buckets'[b].rest >= buckets[b].rest

\* Where an answer has a bucket it keeps it.
Keeps(k) == table[k] # 0 => table'[k] = table[k]

\* A key's bucket stays in range as buckets are added.
LEMMA TableWidens ==
    ASSUME NEW a \in Nat, NEW b \in Nat, a <= b, NEW t \in [CounterKey -> 0..a]
    PROVE  t \in [CounterKey -> 0..b]
<1>1. 0..a \subseteq 0..b OBVIOUS
<1> QED BY <1>1

\* Steps that leave the counters alone.
LEMMA QuietGrows ==
    ASSUME RequestsTypeOK, UNCHANGED <<table, buckets>>
    PROVE  Grows /\ \A k \in CounterKey : Keeps(k)
<1>1. /\ buckets \in Seq(MountCounters) /\ table \in [CounterKey -> 0..Len(buckets)]
      /\ buckets' = buckets /\ table' = table
  BY DEF RequestsTypeOK
<1>2. \A b \in 1..Len(buckets) : buckets[b].rest \in Nat
  <2>1. \A b \in 1..Len(buckets) : buckets[b] \in MountCounters
    BY ONLY <1>1, ElementOfSeq
  <2> QED BY ONLY <2>1 DEF MountCounters
<1>3. Len(buckets) \in Nat BY ONLY <1>1, LenProperties
<1> QED BY ONLY <1>1, <1>2, <1>3 DEF Grows, Keeps

\* counters_for: the bucket of a key is in the table afterwards.
LEMMA CountersForGrows ==
    ASSUME RequestsTypeOK, NEW key \in CounterKey, CountersFor(key)
    PROVE  /\ Grows /\ \A k \in CounterKey : Keeps(k)
           /\ table'[key] = BucketAt(key)
           /\ BucketAt(key) \in 1..Len(buckets')
<1>1. buckets \in Seq(MountCounters) /\ table \in [CounterKey -> 0..Len(buckets)]
  BY DEF RequestsTypeOK
<1>2. PICK n \in Nat : n = Len(buckets) BY ONLY <1>1, LenProperties
<1>3. \A b \in 1..n : buckets[b] \in MountCounters /\ buckets[b].rest \in Nat
  <2>1. \A b \in 1..n : buckets[b] \in MountCounters
    BY ONLY <1>1, <1>2, ElementOfSeq
  <2> QED BY ONLY <2>1 DEF MountCounters
<1>4. NewCounters \in MountCounters BY DEF NewCounters, MountCounters
<1>5. table' = [table EXCEPT ![key] = BucketAt(key)] BY DEF CountersFor
<1>6. table[key] \in 0..n BY ONLY <1>1, <1>2
<1>7. CASE table[key] = 0
  <2>1. BucketAt(key) = n + 1 BY <1>7, <1>2 DEF BucketAt
  <2>2. buckets' = Append(buckets, NewCounters) BY <1>7 DEF CountersFor
  <2>3. /\ buckets' \in Seq(MountCounters) /\ Len(buckets') = n + 1
        /\ \A b \in 1..n : buckets'[b] = buckets[b]
    BY ONLY <1>1, <1>2, <1>4, <2>2, AppendProperties
  <2>4. table \in [CounterKey -> 0..(n + 1)] BY ONLY <1>1, <1>2, TableWidens
  <2>5. table' \in [CounterKey -> 0..(n + 1)] /\ table'[key] = n + 1
    BY ONLY <1>5, <2>1, <2>4, <1>2
  <2>6. \A k \in CounterKey : Keeps(k)
    BY ONLY <1>5, <1>7, <2>4 DEF Keeps
  <2>7. Grows BY ONLY <1>2, <1>3, <2>3, <2>5 DEF Grows
  <2> QED BY ONLY <2>1, <2>3, <2>5, <2>6, <2>7, <1>2
<1>8. CASE table[key] # 0
  <2>1. BucketAt(key) = table[key] BY <1>8 DEF BucketAt
  <2>2. buckets' = buckets BY <1>8 DEF CountersFor
  <2>3. table' = table BY ONLY <1>1, <1>5, <2>1
  <2>4. Grows BY ONLY <1>1, <1>2, <1>3, <2>2, <2>3 DEF Grows
  <2>5. \A k \in CounterKey : Keeps(k) BY ONLY <2>3 DEF Keeps
  <2> QED BY ONLY <1>2, <1>6, <1>8, <2>1, <2>2, <2>3, <2>4, <2>5
<1> QED BY ONLY <1>7, <1>8

\* Adding one to a counter of a bucket.
LEMMA AddGrows ==
    ASSUME RequestsTypeOK, NEW b \in 1..Len(buckets),
           NEW field \in {"rest", "throttles"},
           AddTo(b, field), table' = table
    PROVE  /\ Grows /\ \A k \in CounterKey : Keeps(k)
           /\ field = "rest" => buckets'[b].rest >= 1
<1>1. buckets \in Seq(MountCounters) /\ table \in [CounterKey -> 0..Len(buckets)]
  BY DEF RequestsTypeOK
<1>2. PICK n \in Nat : n = Len(buckets) BY ONLY <1>1, LenProperties
<1>3. \A c \in 1..n : buckets[c] \in MountCounters
  BY ONLY <1>1, <1>2, ElementOfSeq
<1>4. PICK old : old = buckets[b] OBVIOUS
<1>5. PICK new : new = [old EXCEPT ![field] = @ + 1] OBVIOUS
<1>6. buckets' = [buckets EXCEPT ![b] = new]
  BY <1>4, <1>5 DEF AddTo
<1>7. b \in 1..n /\ old \in MountCounters BY ONLY <1>2, <1>3, <1>4
<1>8. new \in MountCounters /\ new.rest >= old.rest
      /\ (field = "rest" => new.rest >= 1)
  <2>1. CASE field = "rest" BY ONLY <2>1, <1>5, <1>7 DEF MountCounters
  <2>2. CASE field = "throttles" BY ONLY <2>2, <1>5, <1>7 DEF MountCounters
  <2> QED BY ONLY <2>1, <2>2, field \in {"rest", "throttles"}
<1>9. /\ buckets' \in Seq(MountCounters) /\ Len(buckets') = n
      /\ \A c \in 1..n : buckets'[c] = IF c = b THEN new ELSE buckets[c]
  <2>1. b \in 1..Len(buckets) /\ new \in MountCounters BY ONLY <1>2, <1>7, <1>8
  <2> QED BY ONLY <1>1, <1>2, <1>6, <2>1, ExceptSeq
<1>10. \A c \in 1..n : buckets'[c].rest >= buckets[c].rest
  <2> SUFFICES ASSUME NEW c \in 1..n PROVE buckets'[c].rest >= buckets[c].rest
    OBVIOUS
  <2>1. CASE c = b BY ONLY <2>1, <1>4, <1>8, <1>9
  <2>2. CASE c # b
    <3>1. buckets[c].rest \in Nat BY ONLY <1>3 DEF MountCounters
    <3> QED BY ONLY <2>2, <3>1, <1>9
  <2> QED BY ONLY <2>1, <2>2
<1>11. Grows BY ONLY <1>1, <1>2, <1>9, <1>10, table' = table DEF Grows
<1>12. \A k \in CounterKey : Keeps(k) BY ONLY table' = table DEF Keeps
<1>13. field = "rest" => buckets'[b].rest >= 1 BY ONLY <1>7, <1>8, <1>9
<1> QED BY ONLY <1>11, <1>12, <1>13

\* merge_and_drop_placeholder: the removed bucket's counts are in the commit's.
LEMMA MergeGrows ==
    ASSUME RequestsTypeOK, NEW m \in Mounts, Staged(mount[m], clock), MergeIn(m)
    PROVE  /\ Grows /\ \A k \in CounterKey : Keeps(k)
           /\ table'[KeyOf(m)] \in 1..Len(buckets')
           /\ buckets'[table'[KeyOf(m)]].rest >= buckets[mount[m].held].rest
<1>1. buckets \in Seq(MountCounters) /\ table \in [CounterKey -> 0..Len(buckets)]
  BY DEF RequestsTypeOK
<1>2. PICK n \in Nat : n = Len(buckets) BY ONLY <1>1, LenProperties
<1>3. \A b \in 1..n : buckets[b] \in MountCounters
  BY ONLY <1>1, <1>2, ElementOfSeq
<1>4. PICK key : key = KeyOf(m) OBVIOUS
<1>5. key \in CounterKey
  BY <1>4 DEF MergeIn, Staged, Window, KeyOf, CounterKey
<1>6. PICK h : h = mount[m].held OBVIOUS
<1>7. h \in 1..n
  <2>1. mount[m].held \in 0..Len(buckets) BY DEF RequestsTypeOK
  <2>2. mount[m].held # 0 BY DEF MergeIn, Staged
  <2> QED BY ONLY <2>1, <2>2, <1>2, <1>6
<1>8. PICK snap : snap = buckets[h] OBVIOUS
<1>9. snap \in MountCounters BY ONLY <1>3, <1>7, <1>8
<1>10. /\ table' = [table EXCEPT ![key] = BucketAt(key)]
       /\ table[key] = 0 => buckets' = Append(buckets, Merge(NewCounters, snap))
       /\ table[key] # 0 => buckets' = [buckets EXCEPT
                                           ![table[key]] = Merge(buckets[table[key]], snap)]
  BY <1>4, <1>6, <1>8 DEF MergeIn
<1>11. \A c \in MountCounters : /\ Merge(c, snap) \in MountCounters
                                /\ Merge(c, snap).rest >= snap.rest
                                /\ Merge(c, snap).rest >= c.rest
  BY ONLY <1>9 DEF Merge, MountCounters
<1>12. NewCounters \in MountCounters BY DEF NewCounters, MountCounters
<1>13. \A b \in 1..n : buckets[b].rest \in Nat BY ONLY <1>3 DEF MountCounters
<1>a. table[key] \in 0..n BY ONLY <1>1, <1>2, <1>5
<1>14. CASE table[key] = 0
  <2>1. BucketAt(key) = n + 1 BY <1>14, <1>2 DEF BucketAt
  <2>2. PICK new \in MountCounters : /\ new = Merge(NewCounters, snap)
                                     /\ new.rest >= snap.rest
    BY ONLY <1>11, <1>12
  <2>3. /\ buckets' \in Seq(MountCounters) /\ Len(buckets') = n + 1
        /\ \A b \in 1..n : buckets'[b] = buckets[b]
        /\ buckets'[n + 1] = new
    <3>1. buckets' = Append(buckets, new) BY ONLY <1>10, <1>14, <2>2
    <3> QED BY ONLY <1>1, <1>2, <3>1, AppendProperties
  <2>4. table \in [CounterKey -> 0..(n + 1)] BY ONLY <1>1, <1>2, TableWidens
  <2>5. table' \in [CounterKey -> 0..(n + 1)] /\ table'[key] = n + 1
    BY ONLY <1>5, <1>10, <2>1, <2>4, <1>2
  <2>6. \A k \in CounterKey : Keeps(k)
    BY ONLY <1>10, <1>14, <2>4 DEF Keeps
  <2>7. Grows BY ONLY <1>2, <1>13, <2>3, <2>5 DEF Grows
  <2>8. buckets'[table'[key]].rest >= snap.rest BY ONLY <2>2, <2>3, <2>5
  <2> QED BY ONLY <1>2, <1>4, <1>6, <1>8, <2>3, <2>5, <2>6, <2>7, <2>8
<1>15. CASE table[key] # 0
  <2>1. PICK c \in 1..n : c = table[key] BY ONLY <1>a, <1>15
  <2>2. PICK new \in MountCounters : /\ new = Merge(buckets[c], snap)
                                     /\ new.rest >= snap.rest
                                     /\ new.rest >= buckets[c].rest
    BY ONLY <1>3, <1>11
  <2>3. table' = table
    <3>1. BucketAt(key) = table[key] BY <1>15 DEF BucketAt
    <3> QED BY ONLY <1>1, <1>10, <3>1
  <2>4. /\ buckets' \in Seq(MountCounters) /\ Len(buckets') = n
        /\ \A b \in 1..n : buckets'[b] = IF b = c THEN new ELSE buckets[b]
    <3>1. buckets' = [buckets EXCEPT ![c] = new]
      BY ONLY <1>10, <1>15, <2>1, <2>2
    <3>2. c \in 1..Len(buckets) BY ONLY <1>2, <2>1
    <3> QED BY ONLY <1>1, <1>2, <3>1, <3>2, <2>2, ExceptSeq
  <2>5. \A b \in 1..n : buckets'[b].rest >= buckets[b].rest
    <3> SUFFICES ASSUME NEW b \in 1..n PROVE buckets'[b].rest >= buckets[b].rest
      OBVIOUS
    <3>1. CASE b = c BY ONLY <3>1, <2>2, <2>4
    <3>2. CASE b # c BY ONLY <3>2, <1>13, <2>4
    <3> QED BY ONLY <3>1, <3>2
  <2>6. Grows BY ONLY <1>1, <1>2, <2>3, <2>4, <2>5 DEF Grows
  <2>7. \A k \in CounterKey : Keeps(k) BY ONLY <2>3 DEF Keeps
  <2>8. table'[key] \in 1..n /\ buckets'[table'[key]].rest >= snap.rest
    BY ONLY <2>1, <2>2, <2>3, <2>4
  <2> QED BY ONLY <1>4, <1>6, <1>8, <2>4, <2>6, <2>7, <2>8
<1> QED BY ONLY <1>14, <1>15

\* Removing a placeholder touches no other key.
LEMMA DropGrows ==
    ASSUME RequestsTypeOK, NEW key \in CounterKey,
           table' = [table EXCEPT ![key] = 0], buckets' = buckets
    PROVE  Grows /\ \A k \in CounterKey \ {key} : Keeps(k)
<1>1. /\ buckets \in Seq(MountCounters) /\ table \in [CounterKey -> 0..Len(buckets)]
  BY DEF RequestsTypeOK
<1>2. PICK n \in Nat : n = Len(buckets) BY ONLY <1>1, LenProperties
<1>3. \A b \in 1..n : buckets[b].rest \in Nat
  <2>1. \A b \in 1..n : buckets[b] \in MountCounters
    BY ONLY <1>1, <1>2, ElementOfSeq
  <2> QED BY ONLY <2>1 DEF MountCounters
<1>4. table' \in [CounterKey -> 0..n]
  BY ONLY <1>1, <1>2, table' = [table EXCEPT ![key] = 0]
<1>5. Grows BY ONLY <1>1, <1>2, <1>3, <1>4, buckets' = buckets DEF Grows
<1>6. \A k \in CounterKey \ {key} : Keeps(k)
  BY ONLY <1>1, table' = [table EXCEPT ![key] = 0] DEF Keeps
<1> QED BY ONLY <1>5, <1>6

-----------------------------------------------------------------------------
(* Requests: types.                                                        *)

\* The types of everything but the requests and the counters.
RestTyped ==
    /\ clock \in Times
    /\ since \in [Versions -> Times \cup {Nothing}]
    /\ entries \in [Specs -> CachedResolution \cup {Nothing}]
    /\ file \in [Specs -> CachedResolution \cup {Nothing}]
    /\ events \in 0..MaxEvents
    /\ throttled \in BOOLEAN
    /\ answered \in [Refs -> MountCounters]
    /\ crossed \subseteq Refs
    /\ slowest \in Times

\* A request whose buckets are among the first `len`.
MountTyped(r, len) ==
    /\ r \in Mount
    /\ r.held \in 0..len
    /\ r.call # Nothing => r.call.bucket \in 1..len

\* The types, by parts.
LEMMA TypeParts ==
    RequestsTypeOK <=> /\ RestTyped
                       /\ buckets \in Seq(MountCounters)
                       /\ table \in [CounterKey -> 0..Len(buckets)]
                       /\ mount \in [Mounts -> Mount]
                       /\ \A m \in Mounts : MountTyped(mount[m], Len(buckets))
BY DEF RequestsTypeOK, RestTyped, MountTyped

\* What the bounds are.
LEMMA ConstantTypes ==
    /\ TTL \in Nat /\ MaxTime \in Nat /\ MaxEvents \in Nat
    /\ MaxVersion \in Nat /\ 1 \in Versions /\ Versions \subseteq Nat
    /\ Times \subseteq Nat /\ 0 \in Times
    /\ Nothing \notin Nat
    /\ \A s \in Specs : s \in SourceSpec
<1>1. /\ TTL \in Nat /\ MaxTime \in Nat /\ MaxEvents \in Nat
      /\ MaxVersion \in Nat /\ MaxVersion # 0 /\ Nothing \notin Nat
      /\ \A s \in Specs : s \in SourceSpec
  BY RequestsAssumption
<1> QED BY ONLY <1>1 DEF Versions, Times

\* The versions that are out are 1..Last.
LEMMA LastIsOut ==
    ASSUME InOrder
    PROVE  Last \in Versions /\ Released = 1..Last
<1>1. PICK k \in Versions : Released = 1..k BY DEF InOrder
<1>2. k \in Nat /\ k \in 1..k BY ConstantTypes DEF Versions
<1>3. \A x \in 1..k : (\A y \in 1..k : x >= y) => x = k BY ONLY <1>2
<1>4. \E x \in 1..k : \A y \in 1..k : x >= y BY ONLY <1>2
<1>5. Max(1..k) = k BY ONLY <1>3, <1>4 DEF Max
<1> QED BY ONLY <1>1, <1>5 DEF Last

\* A release follows the last one.
LEMMA ReleaseFollows ==
    ASSUME RestTyped, InOrder, NewRelease
    PROVE  /\ RestTyped' /\ InOrder'
           /\ Released' = 1..(Last + 1) /\ Last' = Last + 1
           /\ since'[Last + 1] = clock
           /\ \A v \in Released : since'[v] = since[v]
<1>1. PICK k \in Versions : k = Last /\ Released = 1..k BY LastIsOut
<1>2. k \in Nat /\ k < MaxVersion /\ MaxVersion \in Nat
  BY <1>1, ConstantTypes DEF NewRelease
<1>3. k + 1 \in Versions /\ k + 1 \in Nat BY ONLY <1>2 DEF Versions
<1>4. since' = [since EXCEPT ![k + 1] = clock] BY <1>1 DEF NewRelease
<1>5. /\ since \in [Versions -> Times \cup {Nothing}] /\ clock \in Times
      /\ clock # Nothing
  BY ConstantTypes DEF RestTyped
<1>6. /\ since' \in [Versions -> Times \cup {Nothing}] /\ since'[k + 1] = clock
      /\ \A v \in Versions : v # k + 1 => since'[v] = since[v]
  BY ONLY <1>3, <1>4, <1>5
<1>7. RestTyped' BY <1>6 DEF NewRelease, RestTyped, accounts
<1>8. Released' = Released \cup {k + 1}
  BY ONLY <1>3, <1>5, <1>6 DEF Released
<1>9. Released' = 1..(k + 1) BY ONLY <1>1, <1>2, <1>8
<1>10. InOrder' BY ONLY <1>3, <1>9 DEF InOrder
<1>11. Last' = k + 1
  <2>1. \A x \in 1..(k + 1) : (\A y \in 1..(k + 1) : x >= y) => x = k + 1
    BY ONLY <1>2
  <2>2. \E x \in 1..(k + 1) : \A y \in 1..(k + 1) : x >= y BY ONLY <1>2
  <2>3. Max(1..(k + 1)) = k + 1 BY ONLY <2>1, <2>2 DEF Max
  <2> QED BY ONLY <1>9, <2>3 DEF Last
<1>12. \A v \in Released : since'[v] = since[v]
  BY ONLY <1>1, <1>2, <1>3, <1>6 DEF Versions
<1> QED BY ONLY <1>1, <1>6, <1>7, <1>9, <1>10, <1>11, <1>12

\* One request moves, in time or not; the counters grow.
LEMMA TurnTyped ==
    ASSUME Typed, RestTyped', InOrder', clock <= clock', Grows,
           NEW m \in Mounts, NEW r, mount' = [mount EXCEPT ![m] = r],
           MountTyped(r, Len(buckets')), Staged(r, clock)
    PROVE  Typed'
<1>1. /\ RestTyped /\ mount \in [Mounts -> Mount]
      /\ buckets \in Seq(MountCounters)
      /\ \A n \in Mounts : MountTyped(mount[n], Len(buckets))
      /\ \A n \in Mounts : Staged(mount[n], clock)
  BY TypeParts DEF Typed
<1>2. PICK a \in Nat : a = Len(buckets) BY ONLY <1>1, LenProperties
<1>3. /\ buckets' \in Seq(MountCounters)
      /\ table' \in [CounterKey -> 0..Len(buckets')]
      /\ Len(buckets) <= Len(buckets')
  BY DEF Grows
<1>4. PICK b \in Nat : b = Len(buckets') BY ONLY <1>3, LenProperties
<1>5. 0..a \subseteq 0..b /\ 1..a \subseteq 1..b BY ONLY <1>2, <1>3, <1>4
<1>6. r \in Mount BY DEF MountTyped
<1>7. /\ mount' \in [Mounts -> Mount]
      /\ \A n \in Mounts : mount'[n] = IF n = m THEN r ELSE mount[n]
  BY ONLY <1>1, <1>6, mount' = [mount EXCEPT ![m] = r]
<1>8. \A n \in Mounts : MountTyped(mount[n], b)
  BY ONLY <1>1, <1>2, <1>5 DEF MountTyped
<1>9. \A n \in Mounts : MountTyped(mount'[n], Len(buckets'))
  BY ONLY <1>4, <1>7, <1>8, MountTyped(r, Len(buckets'))
<1>10. RequestsTypeOK' BY ONLY <1>3, <1>7, <1>9, RestTyped'
                       DEF RequestsTypeOK, RestTyped, MountTyped
<1>11. \A x \in Mount : Staged(x, clock) => Staged(x, clock')
  <2>1. clock \in Nat /\ clock' \in Nat /\ clock <= clock'
    BY <1>1, ConstantTypes DEF RestTyped
  <2>2. \A x \in Mount : x.asked \in Nat /\ x.looked \in Nat
    BY ConstantTypes DEF Mount
  <2> QED BY ONLY <2>1, <2>2 DEF Staged
<1>12. \A n \in Mounts : Staged(mount'[n], clock')
  BY ONLY <1>1, <1>6, <1>7, <1>11, Staged(r, clock)
<1> QED BY ONLY <1>10, <1>12, InOrder' DEF Typed

-----------------------------------------------------------------------------
(* Requests: what entries and versions are worth as time goes on.          *)

Elapses == /\ clock <= clock' /\ slowest <= slowest'
           /\ since' = since \/ NewRelease

\* A version that was the latest at a time stays so.
LEMMA AsOfKept ==
    ASSUME RestTyped, RestTyped', InOrder, Elapses, NEW v, NEW t \in Nat, t <= clock,
           NEW sl \in Nat, NEW sm \in Nat, sl <= sm, AsOf(v, t, sl)
    PROVE  AsOf(v, t, sm)'
<1>1. PICK k \in Versions : k = Last /\ Released = 1..k BY LastIsOut
<1>2. k \in Nat /\ clock \in Nat /\ Nothing \notin Nat /\ Times \subseteq Nat
  BY ConstantTypes DEF RestTyped
<1>3. v \in 1..k /\ (v = k \/ since[v + 1] + sl >= t) BY <1>1 DEF AsOf
<1>4. v # k => v + 1 \in Released BY ONLY <1>1, <1>2, <1>3
<1>5. v # k => since[v + 1] \in Nat
  BY ONLY <1>2, <1>4, RestTyped DEF RestTyped, Released
<1>6. CASE since' = since
  <2>1. Released' = Released /\ Last' = Last BY ONLY <1>6 DEF Released, Last
  <2>2. v = k \/ since'[v + 1] + sm >= t BY ONLY <1>3, <1>5, <1>6, sl <= sm, t \in Nat,
                                                sl \in Nat, sm \in Nat
  <2> QED BY ONLY <1>1, <1>3, <2>1, <2>2 DEF AsOf
<1>7. CASE NewRelease
  <2>1. /\ Released' = 1..(k + 1) /\ Last' = k + 1 /\ since'[k + 1] = clock
        /\ \A x \in 1..k : since'[x] = since[x]
    BY <1>1, <1>7, ReleaseFollows
  <2>2. v \in 1..(k + 1) BY ONLY <1>2, <1>3
  <2>3. CASE v = k BY ONLY <1>2, <2>1, <2>2, <2>3, t <= clock, t \in Nat, sm \in Nat
                   DEF AsOf
  <2>4. CASE v # k
    <3>1. v + 1 \in 1..k BY ONLY <1>1, <1>4, <2>4
    <3>2. since'[v + 1] = since[v + 1] BY ONLY <2>1, <3>1
    <3>3. since'[v + 1] + sm >= t
      BY ONLY <1>3, <1>5, <2>4, <3>2, sl <= sm, t \in Nat, sl \in Nat, sm \in Nat
    <3> QED BY ONLY <2>1, <2>2, <3>3 DEF AsOf
  <2> QED BY ONLY <2>3, <2>4
<1> QED BY ONLY <1>6, <1>7, Elapses DEF Elapses

\* An entry keeps its worth.
LEMMA WorthKept ==
    ASSUME RestTyped, RestTyped', InOrder, Elapses, NEW s, NEW e \in CachedResolution,
           Worth(s, e)
    PROVE  Worth(s, e)'
<1>1. e.asked \in Nat /\ e.at \in Nat
  BY ConstantTypes DEF CachedResolution
<1>2. /\ clock \in Nat /\ clock' \in Nat /\ slowest \in Nat /\ slowest' \in Nat
      /\ clock <= clock' /\ slowest <= slowest'
  BY ConstantTypes DEF RestTyped, Elapses
<1>3. e.asked <= e.at /\ e.at <= clock BY DEF Worth
<1>4. e.at <= clock' /\ e.asked <= clock BY ONLY <1>1, <1>2, <1>3
<1>5. ASSUME e.latest PROVE AsOf(e.version, e.asked, 0)'
  <2>1. AsOf(e.version, e.asked, 0) BY <1>5 DEF Worth
  <2>2. PICK v, t : v = e.version /\ t = e.asked OBVIOUS
  <2>3. AsOf(v, t, 0) /\ t \in Nat /\ t <= clock BY ONLY <1>1, <1>4, <2>1, <2>2
  <2>4. AsOf(v, t, 0)'
    BY ONLY <2>3, RestTyped, RestTyped', InOrder, Elapses, AsOfKept
  <2> QED BY ONLY <2>2, <2>4
<1>6. e.latest => e.at <= e.asked + slowest'
  <2>1. e.latest => e.at <= e.asked + slowest BY DEF Worth
  <2> QED BY ONLY <2>1, <1>1, <1>2
<1> QED BY ONLY <1>3, <1>4, <1>5, <1>6, Worth(s, e) DEF Worth

\* A request that stays where it is keeps the worth of its version.
LEMMA DatedKept ==
    ASSUME RestTyped, RestTyped', InOrder, Elapses,
           NEW r \in Mount, Staged(r, clock), Dated(r)
    PROVE  Dated(r)'
<1>1. /\ r.asked \in Nat /\ r.looked \in Nat
      /\ TTL \in Nat /\ slowest \in Nat /\ slowest' \in Nat /\ slowest <= slowest'
  BY ConstantTypes DEF Mount, RestTyped, Elapses
<1>2. r.asked <= clock /\ r.looked <= clock BY DEF Staged
<1>3. PICK v, t, u : v = r.version /\ t = r.asked /\ u = r.looked OBVIOUS
<1>4. AsOf(v, u, TTL + slowest) => AsOf(v, u, TTL + slowest)'
  <2>1. PICK a \in Nat, b \in Nat, c \in Nat :
           a = TTL /\ b = slowest /\ c = slowest' /\ b <= c
    BY ONLY <1>1
  <2>2. PICK sl \in Nat : sl = a + b OBVIOUS
  <2>3. PICK sm \in Nat : sm = a + c OBVIOUS
  <2>a. b <= c BY ONLY <2>1
  <2>4. sl <= sm BY ONLY <2>a, <2>2, <2>3
  <2>5. u \in Nat /\ u <= clock BY ONLY <1>1, <1>2, <1>3
  <2>6. AsOf(v, u, sl) => AsOf(v, u, sm)'
    BY ONLY <2>4, <2>5, RestTyped, RestTyped', InOrder, Elapses, AsOfKept
  <2>7. AsOf(v, u, TTL + slowest) => AsOf(v, u, sl) BY ONLY <2>1, <2>2
  <2>8. AsOf(v, u, sm)' => AsOf(v, u, TTL + slowest)'
    BY ONLY <2>1, <2>3 DEF AsOf
  <2> QED BY ONLY <2>6, <2>7, <2>8
<1>5. AsOf(v, t, 0) => AsOf(v, t, 0)'
  <2>1. t \in Nat /\ t <= clock BY ONLY <1>1, <1>2, <1>3
  <2> QED BY ONLY <2>1, RestTyped, RestTyped', InOrder, Elapses, AsOfKept
<1>6. CASE r.pc \in {"resolve", "put", "resolving"} /\ r.spec.provider # "github"
  <2>1. /\ ~IsLatest(r.spec) => r.version = r.spec.version
        /\ IsLatest(r.spec) /\ r.pc = "resolving" => AsOf(v, u, TTL + slowest)
        /\ IsLatest(r.spec) /\ r.pc # "resolving" => AsOf(v, t, 0) /\ u <= t
    BY ONLY <1>3, <1>6, Dated(r) DEF Dated
  <2>2. /\ IsLatest(r.spec) /\ r.pc = "resolving" => AsOf(v, u, TTL + slowest)'
        /\ IsLatest(r.spec) /\ r.pc # "resolving" => AsOf(v, t, 0)'
    BY ONLY <2>1, <1>4, <1>5
  <2> QED BY ONLY <1>3, <2>1, <2>2 DEF Dated, AsOf
<1>7. CASE ~(r.pc \in {"resolve", "put", "resolving"} /\ r.spec.provider # "github")
  BY ONLY <1>7 DEF Dated
<1> QED BY ONLY <1>6, <1>7

\* One request moves; entries are those of the map or of the file, or new.
LEMMA TurnDates ==
    ASSUME Typed, Dates, RestTyped', Elapses,
           NEW m \in Mounts, NEW r, mount' = [mount EXCEPT ![m] = r], Dated(r)',
           NEW q, \A s \in Specs : entries'[s] # entries[s] => s = q,
           \A s \in Specs : file'[s] # file[s] => file'[s] = entries'[s],
           NEW e, entries'[q] # entries[q] => entries'[q] = e /\ Worth(q, e)'
    PROVE  Dates'
<1>1. /\ RestTyped /\ mount \in [Mounts -> Mount] /\ InOrder
      /\ \A n \in Mounts : Staged(mount[n], clock)
  BY TypeParts DEF Typed
<1>2. ASSUME NEW s \in Specs, NEW x, x # Nothing,
             x = entries[s] \/ x = file[s]
      PROVE  Worth(s, x)'
  <2>1. Worth(s, x) BY <1>2 DEF Dates
  <2>2. x \in CachedResolution BY <1>1, <1>2 DEF RestTyped
  <2> QED BY ONLY <1>1, <2>1, <2>2, RestTyped', Elapses, WorthKept
<1>3. ASSUME NEW s \in Specs, entries'[s] # Nothing PROVE Worth(s, entries[s])'
  <2>1. PICK x : x = entries'[s] OBVIOUS
  <2>2. CASE x = entries[s]
    <3>1. Worth(s, x)' BY ONLY <1>2, <1>3, <2>1, <2>2
    <3> QED BY ONLY <2>1, <3>1 DEF Worth, AsOf
  <2>3. CASE x # entries[s]
    <3>1. s = q /\ x = e /\ Worth(q, e)' BY <2>1, <2>3
    <3> QED BY ONLY <2>1, <3>1 DEF Worth, AsOf
  <2> QED BY ONLY <2>2, <2>3
<1>4. ASSUME NEW s \in Specs, file'[s] # Nothing PROVE Worth(s, file[s])'
  <2>1. PICK x : x = file'[s] OBVIOUS
  <2>2. CASE x = file[s]
    <3>1. Worth(s, x)' BY ONLY <1>2, <1>4, <2>1, <2>2
    <3> QED BY ONLY <2>1, <3>1 DEF Worth, AsOf
  <2>3. CASE x # file[s]
    <3>1. x = entries'[s] BY <2>1, <2>3
    <3>2. Worth(s, entries[s])' BY ONLY <1>3, <1>4, <2>1, <3>1
    <3> QED BY ONLY <2>1, <3>1, <3>2 DEF Worth, AsOf
  <2> QED BY ONLY <2>2, <2>3
<1>5. ASSUME NEW n \in Mounts PROVE Dated(mount[n])'
  <2>1. PICK x : x = mount'[n] OBVIOUS
  <2>2. CASE n = m
    <3>1. x = r BY ONLY <2>1, <2>2, <1>1, mount' = [mount EXCEPT ![m] = r]
    <3> QED BY ONLY <2>1, <3>1, Dated(r)' DEF Dated, AsOf
  <2>3. CASE n # m
    <3>1. x = mount[n] BY ONLY <2>1, <2>3, <1>1, mount' = [mount EXCEPT ![m] = r]
    <3>2. x \in Mount /\ Staged(x, clock) BY ONLY <1>1, <3>1
    <3>3. Dated(x) BY <3>1 DEF Dates
    <3>4. Dated(x)' BY ONLY <1>1, <3>2, <3>3, RestTyped', Elapses, DatedKept
    <3> QED BY ONLY <2>1, <3>4 DEF Dated, AsOf
  <2> QED BY ONLY <2>2, <2>3
<1> QED BY ONLY <1>3, <1>4, <1>5 DEF Dates

-----------------------------------------------------------------------------
(* Requests: a ref's calls stay in the table.                              *)

\* A request that stays where it is, and whose key keeps its bucket.
LEMMA ShownKept ==
    ASSUME RequestsTypeOK, Grows, crossed \subseteq crossed',
           NEW x, MountTyped(x, Len(buckets)), Staged(x, clock), Shown(x),
           x.pc \in Window /\ x.ref \notin crossed => Keeps(<<x.ref, Resolving>>),
           x.pc = "content" => Keeps(<<x.ref, x.commit>>)
    PROVE  Shown(x)'
<1>1. /\ buckets \in Seq(MountCounters) /\ table \in [CounterKey -> 0..Len(buckets)]
  BY DEF RequestsTypeOK
<1>2. PICK n \in Nat : n = Len(buckets) BY ONLY <1>1, LenProperties
<1>3. \A b \in 1..n : buckets[b].rest \in Nat /\ buckets'[b].rest \in Nat
                      /\ buckets'[b].rest >= buckets[b].rest
  <2>1. \A b \in 1..n : buckets[b] \in MountCounters
    BY ONLY <1>1, <1>2, ElementOfSeq
  <2>2. buckets' \in Seq(MountCounters) /\ Len(buckets) <= Len(buckets')
        /\ \A b \in 1..Len(buckets) : buckets'[b].rest >= buckets[b].rest
    BY DEF Grows
  <2>3. PICK k \in Nat : k = Len(buckets') BY ONLY <2>2, LenProperties
  <2>4. \A b \in 1..k : buckets'[b] \in MountCounters
    BY ONLY <2>2, <2>3, ElementOfSeq
  <2>5. 1..n \subseteq 1..k BY ONLY <1>2, <2>2, <2>3
  <2> QED BY ONLY <1>2, <2>1, <2>2, <2>4, <2>5 DEF MountCounters
<1>4. \A b \in 1..n : buckets[b].rest >= 1 => buckets'[b].rest >= 1
  BY ONLY <1>3
<1> SUFFICES ASSUME x.ref \notin crossed' PROVE Shown(x)' BY DEF Shown
<1>5. x.ref \notin crossed OBVIOUS
<1>6. CASE x.pc = "resolving"
  <2>1. ASSUME x.call # Nothing PROVE table'[<<x.ref, Resolving>>] = x.call.bucket
    <3>1. table[<<x.ref, Resolving>>] = x.call.bucket
      BY <1>5, <1>6, <2>1 DEF Shown
    <3>2. x.call.bucket # 0 BY ONLY <1>2, <2>1, MountTyped(x, Len(buckets)) DEF MountTyped
    <3> QED BY <1>5, <1>6, <3>1, <3>2 DEF Keeps, Window
  <2> QED BY ONLY <1>6, <2>1 DEF Shown
<1>7. CASE x.pc = "dropping"
  <2>1. PICK b : b = table[<<x.ref, Resolving>>] OBVIOUS
  <2>2. b # 0 /\ buckets[b].rest >= 1 BY ONLY <1>5, <1>7, <2>1, Shown(x) DEF Shown
  <2>3. <<x.ref, Resolving>> \in CounterKey
    BY <1>7 DEF Staged, Window, CounterKey
  <2>4. b \in 1..n BY ONLY <1>1, <1>2, <2>1, <2>2, <2>3
  <2>5. table'[<<x.ref, Resolving>>] = b BY <1>5, <1>7, <2>1, <2>2 DEF Keeps, Window
  <2> QED BY ONLY <1>4, <1>7, <2>2, <2>4, <2>5 DEF Shown
<1>8. CASE x.pc = "merging"
  <2>1. PICK b : b = x.held OBVIOUS
  <2>2. b # 0 BY <1>8, <2>1 DEF Staged
  <2>3. b \in 1..n BY ONLY <1>2, <2>1, <2>2, MountTyped(x, Len(buckets)) DEF MountTyped
  <2>4. buckets[b].rest >= 1 BY ONLY <1>5, <1>8, <2>1, Shown(x) DEF Shown
  <2> QED BY ONLY <1>4, <1>8, <2>1, <2>3, <2>4 DEF Shown
<1>9. CASE x.pc = "content"
  <2>1. PICK b : b = table[<<x.ref, x.commit>>] OBVIOUS
  <2>2. b # 0 /\ buckets[b].rest >= 1 BY ONLY <1>5, <1>9, <2>1, Shown(x) DEF Shown
  <2>3. <<x.ref, x.commit>> \in CounterKey
    BY <1>9 DEF Staged, CounterKey
  <2>4. b \in 1..n BY ONLY <1>1, <1>2, <2>1, <2>2, <2>3
  <2>5. table'[<<x.ref, x.commit>>] = b BY <1>9, <2>1, <2>2 DEF Keeps
  <2> QED BY ONLY <1>4, <1>9, <2>2, <2>4, <2>5 DEF Shown
<1>10. CASE x.pc \notin {"resolving", "dropping", "merging", "content"}
  BY ONLY <1>10 DEF Shown
<1> QED BY ONLY <1>6, <1>7, <1>8, <1>9, <1>10

\* One request moves; only a request that folds its placeholder in takes a
\* bucket from a key.
LEMMA TurnShows ==
    ASSUME Typed, Shows, Grows, crossed \subseteq crossed',
           NEW m \in Mounts, NEW r, mount' = [mount EXCEPT ![m] = r], Shown(r)',
           \A n \in Mounts \ {m} :
              r.pc \in Window /\ mount[n].pc \in Window /\ mount[n].ref = r.ref =>
                 \/ r.ref \in crossed'
                 \/ mount[m].pc \in Window /\ mount[m].ref = r.ref,
           \A k \in CounterKey :
              \/ Keeps(k)
              \/ mount[m].pc \in Window /\ k = <<mount[m].ref, Resolving>>
    PROVE  Shows'
<1>1. /\ RequestsTypeOK /\ mount \in [Mounts -> Mount]
      /\ \A n \in Mounts : MountTyped(mount[n], Len(buckets))
      /\ \A n \in Mounts : Staged(mount[n], clock)
  BY TypeParts DEF Typed
<1>2. \A n \in Mounts : mount'[n] = IF n = m THEN r ELSE mount[n]
  BY ONLY <1>1, mount' = [mount EXCEPT ![m] = r]
<1>3. ASSUME NEW n \in Mounts \ {m}, r.pc \in Window,
             mount[n].pc \in Window, mount[n].ref = r.ref
      PROVE  r.ref \in crossed'
  <2>1. CASE mount[m].pc \in Window /\ mount[m].ref = r.ref
    <3>1. mount[m].ref \in crossed BY <1>3, <2>1 DEF Shows, Apart
    <3> QED BY ONLY <2>1, <3>1, crossed \subseteq crossed'
  <2> QED BY <1>3, <2>1
<1>4. Apart'
  <2> SUFFICES ASSUME NEW a \in Mounts, NEW b \in Mounts, a # b,
                      mount'[a].pc \in Window, mount'[b].pc \in Window,
                      mount'[a].ref = mount'[b].ref
               PROVE  mount'[a].ref \in crossed'
    BY DEF Apart
  <2>1. CASE a = m BY ONLY <1>2, <1>3, <2>1, a # b, mount'[a].pc \in Window,
                      mount'[b].pc \in Window, mount'[a].ref = mount'[b].ref
  <2>2. CASE b = m BY ONLY <1>2, <1>3, <2>2, a # b, mount'[a].pc \in Window,
                      mount'[b].pc \in Window, mount'[a].ref = mount'[b].ref
  <2>3. CASE a # m /\ b # m
    <3>1. mount'[a] = mount[a] /\ mount'[b] = mount[b] BY ONLY <1>2, <2>3
    <3>2. mount[a].ref \in crossed BY <3>1 DEF Shows, Apart
    <3> QED BY ONLY <3>1, <3>2, crossed \subseteq crossed'
  <2> QED BY ONLY <2>1, <2>2, <2>3
<1>5. ASSUME NEW n \in Mounts PROVE Shown(mount[n])'
  <2>1. PICK x : x = mount'[n] OBVIOUS
  <2>2. CASE n = m
    <3>1. x = r BY ONLY <1>2, <2>1, <2>2
    <3> QED BY ONLY <2>1, <3>1, Shown(r)' DEF Shown
  <2>3. CASE n # m
    <3>1. x = mount[n] BY ONLY <1>2, <2>1, <2>3
    <3>2. MountTyped(x, Len(buckets)) /\ Staged(x, clock) BY ONLY <1>1, <3>1
    <3>3. Shown(x) BY <3>1 DEF Shows
    <3>4. ASSUME x.pc \in Window, x.ref \notin crossed
          PROVE  Keeps(<<x.ref, Resolving>>)
      <4>1. <<x.ref, Resolving>> \in CounterKey
        BY ONLY <3>2, <3>4 DEF Staged, CounterKey
      <4>2. ~(mount[m].pc \in Window /\ mount[m].ref = x.ref)
        BY <2>3, <3>1, <3>4 DEF Shows, Apart
      <4> QED BY <4>1, <4>2
    <3>5. ASSUME x.pc = "content" PROVE Keeps(<<x.ref, x.commit>>)
      <4>1. <<x.ref, x.commit>> \in CounterKey /\ x.commit # Resolving
        BY ONLY <3>2, <3>5, ConstantTypes
           DEF Staged, CounterKey, Commits, Versions, Resolving
      <4> QED BY <4>1
    <3>6. Shown(x)'
      BY ONLY <1>1, <3>2, <3>3, <3>4, <3>5, Grows, crossed \subseteq crossed', ShownKept
    <3> QED BY ONLY <2>1, <3>6 DEF Shown
  <2> QED BY ONLY <2>2, <2>3
<1> QED BY ONLY <1>4, <1>5 DEF Shows

-----------------------------------------------------------------------------
(* Requests: the steps.                                                    *)

ProviderInv == Typed /\ Dates /\ Shows

\* One request moves and the resolution cache does not.
LEMMA TurnKeeps ==
    ASSUME ProviderInv, UNCHANGED <<clock, since, entries, file, slowest>>,
           RestTyped', Grows, crossed \subseteq crossed',
           NEW m \in Mounts, NEW r, mount' = [mount EXCEPT ![m] = r],
           MountTyped(r, Len(buckets')), Staged(r, clock), Dated(r), Shown(r)',
           \A n \in Mounts \ {m} :
              r.pc \in Window /\ mount[n].pc \in Window /\ mount[n].ref = r.ref =>
                 \/ r.ref \in crossed'
                 \/ mount[m].pc \in Window /\ mount[m].ref = r.ref,
           \A k \in CounterKey :
              \/ Keeps(k)
              \/ mount[m].pc \in Window /\ k = <<mount[m].ref, Resolving>>
    PROVE  ProviderInv'
<1>1. Typed /\ Dates /\ Shows BY DEF ProviderInv
<1>2. RestTyped /\ InOrder BY <1>1, TypeParts DEF Typed
<1>3. InOrder' BY <1>2 DEF InOrder, Released
<1>4. clock \in Nat /\ slowest \in Nat BY <1>2, ConstantTypes DEF RestTyped
<1>5. clock <= clock' /\ Elapses BY <1>4 DEF Elapses
<1>6. Dated(r)' BY DEF Dated, AsOf, Released, Last
<1>7. Typed' BY ONLY <1>1, <1>3, <1>5, RestTyped', Grows, m \in Mounts,
                     mount' = [mount EXCEPT ![m] = r],
                     MountTyped(r, Len(buckets')), Staged(r, clock), TurnTyped
<1>8. Dates'
  <2>1. entries' = entries /\ file' = file OBVIOUS
  <2>2. (\A s \in Specs : entries'[s] # entries[s] => s = m)
        /\ (\A s \in Specs : file'[s] # file[s] => file'[s] = entries'[s])
        /\ (entries'[m] # entries[m] => entries'[m] = r /\ Worth(m, r)')
    BY ONLY <2>1
  <2> QED BY ONLY <1>1, <1>5, <1>6, <2>2, RestTyped', m \in Mounts,
                  mount' = [mount EXCEPT ![m] = r], TurnDates
<1>9. Shows' BY <1>1, TurnShows
<1> QED BY ONLY <1>7, <1>8, <1>9 DEF ProviderInv

\* A request that is over says nothing.
LEMMA NewMountFits ==
    ASSUME RestTyped
    PROVE  /\ Staged(NewMount, clock) /\ Dated(NewMount)
           /\ Shown(NewMount) /\ Shown(NewMount)'
           /\ \A n \in Nat : MountTyped(NewMount, n)
           /\ NewMount.pc \notin Window
<1>1. clock \in Nat /\ 0 <= clock BY ConstantTypes DEF RestTyped
<1>2. Staged(NewMount, clock) BY <1>1 DEF Staged, NewMount, Window
<1>3. NewMount \in Mount BY ConstantTypes DEF NewMount, Mount
<1>4. \A n \in Nat : MountTyped(NewMount, n) BY <1>3 DEF MountTyped, NewMount
<1>5. Dated(NewMount) BY DEF Dated, NewMount
<1>6. Shown(NewMount) /\ Shown(NewMount)' BY DEF Shown, NewMount
<1>7. NewMount.pc \notin Window BY DEF NewMount, Window
<1> QED BY ONLY <1>2, <1>4, <1>5, <1>6, <1>7

\* What every step knows of the request that takes it.
LEMMA Mover ==
    ASSUME ProviderInv, NEW m \in Mounts
    PROVE  /\ RestTyped /\ RequestsTypeOK /\ InOrder
           /\ mount \in [Mounts -> Mount]
           /\ buckets \in Seq(MountCounters) /\ Len(buckets) \in Nat
           /\ table \in [CounterKey -> 0..Len(buckets)]
           /\ mount[m] \in Mount
           /\ MountTyped(mount[m], Len(buckets))
           /\ Staged(mount[m], clock) /\ Dated(mount[m]) /\ Shown(mount[m])
<1>1. Typed /\ Dates /\ Shows BY DEF ProviderInv
<1>2. /\ RestTyped /\ RequestsTypeOK /\ mount \in [Mounts -> Mount] /\ InOrder
      /\ MountTyped(mount[m], Len(buckets))
      /\ buckets \in Seq(MountCounters)
      /\ table \in [CounterKey -> 0..Len(buckets)]
  BY <1>1, TypeParts DEF Typed
<1>3. Staged(mount[m], clock) BY <1>1 DEF Typed
<1>4. Dated(mount[m]) /\ Shown(mount[m]) BY <1>1 DEF Dates, Shows
<1>5. Len(buckets) \in Nat BY ONLY <1>2, LenProperties
<1> QED BY ONLY <1>2, <1>3, <1>4, <1>5

\* One request moves and nothing else does.
LEMMA QuietTurn ==
    ASSUME ProviderInv, NEW m \in Mounts, NEW r,
           mount' = [mount EXCEPT ![m] = r],
           UNCHANGED <<clock, since, entries, file, accounts, crossed, slowest, events>>,
           MountTyped(r, Len(buckets)), Staged(r, clock), Dated(r), Shown(r),
           r.pc \in Window => mount[m].pc \in Window /\ mount[m].ref = r.ref
    PROVE  ProviderInv'
<1>1. RestTyped /\ RequestsTypeOK BY Mover
<1>2. RestTyped' BY <1>1 DEF RestTyped, accounts
<1>3. /\ table' = table /\ buckets' = buckets /\ crossed' = crossed
      /\ UNCHANGED <<clock, since, entries, file, slowest>>
  BY DEF accounts
<1>4. Grows /\ \A k \in CounterKey : Keeps(k) BY ONLY <1>1, <1>3, QuietGrows
<1>5. Shown(r)' BY <1>3 DEF Shown
<1>6. MountTyped(r, Len(buckets')) BY <1>3
<1>7. crossed \subseteq crossed' BY ONLY <1>3
<1> QED BY ONLY <1>2, <1>3, <1>4, <1>5, <1>6, <1>7, ProviderInv, m \in Mounts,
                mount' = [mount EXCEPT ![m] = r], Staged(r, clock), Dated(r),
                r.pc \in Window => mount[m].pc \in Window /\ mount[m].ref = r.ref,
                TurnKeeps

\* A request ends.
LEMMA EndTurn ==
    ASSUME ProviderInv, NEW m \in Mounts, mount' = [mount EXCEPT ![m] = NewMount],
           UNCHANGED <<clock, since, entries, file, accounts, crossed, slowest, events>>
    PROVE  ProviderInv'
<1>1. RestTyped /\ Len(buckets) \in Nat BY Mover
<1>2. /\ Staged(NewMount, clock) /\ Dated(NewMount) /\ Shown(NewMount)
      /\ MountTyped(NewMount, Len(buckets)) /\ NewMount.pc \notin Window
  BY ONLY <1>1, NewMountFits
<1> QED BY <1>2, QuietTurn

\* The steps that end a request.
LEMMA EndSteps ==
    ASSUME ProviderInv, NEW m \in Mounts,
           RegistryFails(m) \/ SendFails(m) \/ Unmount(m)
    PROVE  ProviderInv'
<1>1. /\ mount' = [mount EXCEPT ![m] = NewMount]
      /\ UNCHANGED <<clock, since, entries, file, accounts, crossed, slowest, events>>
  BY DEF RegistryFails, SendFails, Unmount
<1> QED BY <1>1, EndTurn

\* resolve_latest: the version named is the latest one now.
LEMMA LatestStep ==
    ASSUME ProviderInv, NEW m \in Mounts, ResolveLatest(m)
    PROVE  ProviderInv'
<1>1. PICK x \in Mount : x = mount[m] BY Mover
<1>2. /\ RestTyped /\ InOrder /\ MountTyped(x, Len(buckets)) /\ Staged(x, clock)
      /\ mount \in [Mounts -> Mount]
  BY <1>1, Mover
<1>3. x.pc = "latest" BY <1>1 DEF ResolveLatest
<1>4. PICK r : r = [x EXCEPT !.pc = "resolve", !.version = Last, !.asked = clock]
  OBVIOUS
<1>5. mount' = [mount EXCEPT ![m] = r]
      /\ UNCHANGED <<clock, since, entries, file, accounts, crossed, slowest, events>>
  BY <1>1, <1>2, <1>4 DEF ResolveLatest
<1>6. Last \in Versions /\ Last \in Released BY ONLY <1>2, LastIsOut, ConstantTypes
                                              DEF Versions
<1>7. clock \in Times /\ clock \in Nat BY <1>2, ConstantTypes DEF RestTyped
<1>8. Last \in 0..MaxVersion BY ONLY <1>6, ConstantTypes DEF Versions
<1>9. /\ r \in Mount /\ r.pc = "resolve" /\ r.version = Last /\ r.asked = clock
      /\ r.spec = x.spec /\ r.looked = x.looked /\ r.held = x.held /\ r.call = x.call
      /\ r.ref = x.ref /\ r.commit = x.commit
  BY ONLY <1>4, <1>7, <1>8, x \in Mount DEF Mount
<1>10. x.spec \in Specs /\ x.spec.provider # "github" /\ IsLatest(x.spec)
       /\ x.call = Nothing /\ x.looked <= clock /\ x.commit = Resolving
  BY ONLY <1>2, <1>3 DEF Staged
<1>11. MountTyped(r, Len(buckets)) BY ONLY <1>2, <1>9 DEF MountTyped
<1>12. clock <= clock BY ONLY <1>7
<1>13. Staged(r, clock) BY ONLY <1>6, <1>9, <1>10, <1>12 DEF Staged, Window
<1>14. AsOf(Last, clock, 0) BY ONLY <1>6 DEF AsOf
<1>15. Dated(r) BY ONLY <1>9, <1>10, <1>14 DEF Dated
<1>16. Shown(r) BY ONLY <1>9 DEF Shown
<1> QED BY <1>5, <1>9, <1>11, <1>13, <1>15, <1>16, QuietTurn DEF Window

\* A resolver's answer changes nothing of what the version is worth.
LEMMA ResolvedStep ==
    ASSUME ProviderInv, NEW m \in Mounts, mount[m].pc = "resolve",
           NEW ref \in Refs, Resolved(m, ref)
    PROVE  ProviderInv'
<1>1. PICK x \in Mount : x = mount[m] BY Mover
<1>2. /\ RestTyped /\ MountTyped(x, Len(buckets)) /\ Staged(x, clock) /\ Dated(x)
      /\ mount \in [Mounts -> Mount]
  BY <1>1, Mover
<1>3. x.pc = "resolve" BY <1>1
<1>4. PICK r : r = [x EXCEPT !.pc = "put", !.ref = ref] OBVIOUS
<1>5. mount' = [mount EXCEPT ![m] = r]
      /\ UNCHANGED <<clock, since, entries, file, accounts, crossed, slowest, events>>
  BY <1>1, <1>2, <1>4 DEF Resolved
<1>6. /\ r \in Mount /\ r.pc = "put" /\ r.ref = ref /\ r.version = x.version
      /\ r.spec = x.spec /\ r.looked = x.looked /\ r.held = x.held /\ r.call = x.call
      /\ r.asked = x.asked /\ r.commit = x.commit
  BY ONLY <1>4, x \in Mount, ref \in Refs DEF Mount
<1>7. MountTyped(r, Len(buckets)) BY ONLY <1>2, <1>6 DEF MountTyped
<1>8. Staged(r, clock) BY ONLY <1>2, <1>3, <1>6, ref \in Refs DEF Staged, Window
<1>9. Dated(r) BY ONLY <1>2, <1>3, <1>6 DEF Dated
<1>10. Shown(r) BY ONLY <1>6 DEF Shown
<1> QED BY <1>5, <1>6, <1>7, <1>8, <1>9, <1>10, QuietTurn DEF Window

\* The registries' answers.
LEMMA ResolveSteps ==
    ASSUME ProviderInv, NEW m \in Mounts,
           ResolveNpm(m) \/ ResolvePyPI(m) \/ ResolveCrate(m)
    PROVE  ProviderInv'
<1>1. mount[m].pc = "resolve" BY DEF ResolveNpm, ResolvePyPI, ResolveCrate
<1>2. mount[m].version \in Versions BY <1>1, Mover DEF Staged
<1>3. <<"tag", mount[m].version>> \in Refs /\ <<"head", mount[m].version>> \in Refs
  BY ONLY <1>2 DEF Refs
<1>4. \E ref \in Refs : Resolved(m, ref)
  BY <1>3 DEF ResolveNpm, ResolvePyPI, ResolveCrate
<1> QED BY <1>1, <1>4, ResolvedStep

-----------------------------------------------------------------------------
(* Requests: the start of a fetch.                                         *)

\* StartFetch keeps track of who resolves a ref at the same time.
LEMMA StartCrosses ==
    ASSUME ProviderInv, NEW m \in Mounts, NEW r, r.ref \in Refs, StartFetch(m, r)
    PROVE  /\ mount' = [mount EXCEPT ![m] = r]
           /\ crossed \subseteq crossed' /\ crossed' \subseteq Refs
           /\ \A n \in Mounts \ {m} :
                 mount[n].pc \in Window /\ mount[n].ref = r.ref => r.ref \in crossed'
<1>1. crossed \subseteq Refs BY Mover DEF RestTyped
<1> QED BY <1>1 DEF StartFetch

\* A request at the beginning of its fetch has no call.
LEMMA StartShown ==
    ASSUME NEW r, r.pc = "resolving", r.call = Nothing
    PROVE  Shown(r)'
BY DEF Shown

\* prepare_mount: a source whose ref is known at once.
LEMMA FetchTurn ==
    ASSUME ProviderInv, NEW m \in Mounts, NEW r, StartFetch(m, r),
           r.ref \in Refs, r.pc = "resolving", r.call = Nothing,
           MountTyped(r, Len(buckets)), Staged(r, clock), Dated(r),
           UNCHANGED <<clock, since, entries, file, accounts, slowest>>,
           events' \in 0..MaxEvents
    PROVE  ProviderInv'
<1>1. RestTyped /\ RequestsTypeOK BY Mover
<1>2. /\ mount' = [mount EXCEPT ![m] = r]
      /\ crossed \subseteq crossed' /\ crossed' \subseteq Refs
      /\ \A n \in Mounts \ {m} :
            mount[n].pc \in Window /\ mount[n].ref = r.ref => r.ref \in crossed'
  BY StartCrosses
<1>3. RestTyped' BY <1>1, <1>2 DEF RestTyped, accounts
<1>4. /\ table' = table /\ buckets' = buckets
      /\ UNCHANGED <<clock, since, entries, file, slowest>>
  BY DEF accounts
<1>5. Grows /\ \A k \in CounterKey : Keeps(k) BY ONLY <1>1, <1>4, QuietGrows
<1>6. Shown(r)' BY StartShown
<1>7. MountTyped(r, Len(buckets')) BY <1>4
<1> QED BY ONLY <1>2, <1>3, <1>4, <1>5, <1>6, <1>7, ProviderInv, m \in Mounts,
                Staged(r, clock), Dated(r), TurnKeeps

\* prepare_mount: a source that names its ref, one that is cached, or one to
\* resolve.
LEMMA PrepareStep ==
    ASSUME ProviderInv, NEW m \in Mounts, NEW s \in Specs, PrepareMount(m, s)
    PROVE  ProviderInv'
<1>1. /\ RestTyped /\ InOrder /\ mount \in [Mounts -> Mount] /\ Len(buckets) \in Nat
  BY Mover
<1>2. clock \in Times /\ clock \in Nat /\ slowest \in Nat /\ TTL \in Nat
      /\ s \in SourceSpec /\ 0 \in Times
  BY <1>1, ConstantTypes DEF RestTyped
<1>3. s.version \in 0..MaxVersion BY ONLY <1>2 DEF SourceSpec
<1>4. UNCHANGED <<clock, since, entries, file, accounts, slowest>>
  BY DEF PrepareMount
<1>5. events' \in 0..MaxEvents
  BY <1>1, ConstantTypes DEF PrepareMount, RestTyped
<1>6. PICK new : new = [NewMount EXCEPT !.spec = s, !.looked = clock,
                                        !.version = s.version]
  OBVIOUS
<1>7. /\ new \in Mount /\ new.spec = s /\ new.looked = clock
      /\ new.version = s.version /\ new.commit = Resolving /\ new.held = 0
      /\ new.call = Nothing /\ new.asked = 0
  BY ONLY <1>2, <1>3, <1>6, s \in Specs DEF NewMount, Mount, Commits
<1>8. CASE /\ s.provider = "github"
           /\ StartFetch(m, [new EXCEPT !.pc = "resolving",
                !.ref = IF s.version = 0 THEN <<"branch", 0>>
                                         ELSE <<"tag", s.version>>])
  <2>1. PICK ref : ref = IF s.version = 0 THEN <<"branch", 0>>
                                          ELSE <<"tag", s.version>>
    OBVIOUS
  <2>2. ref \in Refs
    <3>1. CASE s.version = 0 BY ONLY <2>1, <3>1 DEF Refs
    <3>2. CASE s.version # 0
      <4>1. s.version \in Versions BY ONLY <1>3, <3>2, ConstantTypes DEF Versions
      <4> QED BY ONLY <2>1, <3>2, <4>1 DEF Refs
    <3> QED BY ONLY <3>1, <3>2
  <2>3. PICK r : r = [new EXCEPT !.pc = "resolving", !.ref = ref] OBVIOUS
  <2>4. StartFetch(m, r) BY <1>8, <2>1, <2>3
  <2>5. /\ r \in Mount /\ r.pc = "resolving" /\ r.ref = ref /\ r.spec = s
        /\ r.looked = clock /\ r.commit = Resolving /\ r.held = 0
        /\ r.call = Nothing /\ r.asked = 0
    BY ONLY <1>7, <2>2, <2>3 DEF Mount
  <2>6. MountTyped(r, Len(buckets)) BY ONLY <1>1, <2>5 DEF MountTyped
  <2>7. Staged(r, clock)
    BY ONLY <1>2, <2>2, <2>5, s \in Specs DEF Staged, Window
  <2>8. Dated(r) BY ONLY <1>8, <2>5 DEF Dated
  <2> QED BY ONLY <1>4, <1>5, <2>2, <2>4, <2>5, <2>6, <2>7, <2>8, ProviderInv,
                  m \in Mounts, FetchTurn
<1>9. CASE /\ Hit(s)
           /\ StartFetch(m, [new EXCEPT !.pc = "resolving",
                !.ref = entries[s].ref, !.version = entries[s].version])
  <2>1. PICK e : e = entries[s] OBVIOUS
  <2>2. e # Nothing /\ (e.latest => clock - e.at <= TTL) /\ s.provider # "github"
    BY <1>9, <2>1 DEF Hit
  <2>3. e \in CachedResolution BY <1>1, <2>1, <2>2 DEF RestTyped
  <2>4. e.ref \in Refs /\ e.version \in Versions /\ e.at \in Nat /\ e.asked \in Nat
    BY ONLY <2>3, ConstantTypes DEF CachedResolution
  <2>5. Worth(s, e) BY <2>1, <2>2 DEF ProviderInv, Dates
  <2>6. PICK r : r = [new EXCEPT !.pc = "resolving", !.ref = e.ref,
                                 !.version = e.version]
    OBVIOUS
  <2>7. StartFetch(m, r) BY <1>9, <2>1, <2>6
  <2>8. e.version \in 0..MaxVersion BY ONLY <2>4, ConstantTypes DEF Versions
  <2>9. /\ r \in Mount /\ r.pc = "resolving" /\ r.ref = e.ref /\ r.spec = s
        /\ r.looked = clock /\ r.commit = Resolving /\ r.held = 0
        /\ r.call = Nothing /\ r.asked = 0 /\ r.version = e.version
    BY ONLY <1>7, <2>4, <2>6, <2>8 DEF Mount
  <2>10. MountTyped(r, Len(buckets)) BY ONLY <1>1, <2>9 DEF MountTyped
  <2>11. Staged(r, clock)
    BY ONLY <1>2, <2>4, <2>9, s \in Specs DEF Staged, Window
  <2>12. ~IsLatest(s) => e.version = s.version BY ONLY <2>5 DEF Worth
  <2>13. ASSUME IsLatest(s) PROVE AsOf(e.version, clock, TTL + slowest)
    <3>1. AsOf(e.version, e.asked, 0) /\ e.at <= e.asked + slowest
      BY ONLY <2>5, <2>13 DEF Worth
    <3>2. clock - e.at <= TTL BY ONLY <2>2, <2>5, <2>13 DEF Worth
    <3>3. e.asked + TTL + slowest >= clock
      BY ONLY <1>2, <2>4, <3>1, <3>2
    <3>4. PICK v : v = e.version OBVIOUS
    <3>5. CASE v = Last BY ONLY <3>1, <3>4, <3>5 DEF AsOf
    <3>6. CASE v # Last
      <4>1. v \in Released /\ since[v + 1] + 0 >= e.asked
        BY ONLY <3>1, <3>4, <3>6 DEF AsOf
      <4>2. v + 1 \in Released
        <5>1. PICK k \in Versions : k = Last /\ Released = 1..k
          BY <1>1, LastIsOut
        <5>2. k \in Nat BY ONLY <5>1, ConstantTypes
        <5> QED BY ONLY <5>1, <5>2, <3>6, <4>1
      <4>3. since[v + 1] \in Nat
        BY ONLY <1>1, <4>2, ConstantTypes DEF RestTyped, Released
      <4>4. PICK b \in Nat : b = since[v + 1] BY ONLY <4>3
      <4>5. b + 0 >= e.asked BY ONLY <4>1, <4>4
      <4>6. b + (TTL + slowest) >= clock BY ONLY <1>2, <2>4, <3>3, <4>5
      <4> QED BY ONLY <3>4, <4>1, <4>4, <4>6 DEF AsOf
    <3> QED BY ONLY <3>5, <3>6
  <2>14. Dated(r) BY ONLY <2>9, <2>12, <2>13 DEF Dated
  <2> QED BY ONLY <1>4, <1>5, <2>4, <2>7, <2>9, <2>10, <2>11, <2>14, ProviderInv,
                  m \in Mounts, FetchTurn
<1>10. CASE /\ s.provider # "github"
            /\ mount' = [mount EXCEPT ![m] =
                  [new EXCEPT !.pc = IF IsLatest(s) THEN "latest" ELSE "resolve"]]
            /\ UNCHANGED crossed
  <2>1. PICK p \in {"latest", "resolve"} :
           p = IF IsLatest(s) THEN "latest" ELSE "resolve"
    OBVIOUS
  <2>2. PICK r : r = [new EXCEPT !.pc = p] OBVIOUS
  <2>3. mount' = [mount EXCEPT ![m] = r] /\ crossed' = crossed BY <1>10, <2>1, <2>2
  <2>4. /\ r \in Mount /\ r.pc = p /\ r.spec = s /\ r.version = s.version
        /\ r.looked = clock /\ r.held = 0 /\ r.call = Nothing /\ r.asked = 0
        /\ r.commit = Resolving
    BY ONLY <1>7, <2>2 DEF Mount
  <2>5. MountTyped(r, Len(buckets)) BY ONLY <1>1, <2>4 DEF MountTyped
  <2>6. p = "resolve" => s.version \in Versions
    BY ONLY <1>3, <1>10, <2>1, ConstantTypes DEF Versions, IsLatest
  <2>7. Staged(r, clock)
    BY ONLY <1>2, <1>10, <2>1, <2>4, <2>6, s \in Specs DEF Staged, Window
  <2>8. Dated(r) BY ONLY <2>1, <2>4 DEF Dated
  <2>9. Shown(r)' BY ONLY <2>4 DEF Shown
  <2>10. RestTyped' BY <1>1, <1>4, <1>5, <2>3 DEF RestTyped, accounts
  <2>11. /\ table' = table /\ buckets' = buckets /\ RequestsTypeOK
         /\ UNCHANGED <<clock, since, entries, file, slowest>>
    BY <1>4, Mover DEF accounts
  <2>12. Grows /\ \A k \in CounterKey : Keeps(k) BY ONLY <2>11, QuietGrows
  <2>13. MountTyped(r, Len(buckets')) BY ONLY <2>5, <2>11
  <2>14. r.pc \notin Window /\ crossed \subseteq crossed'
    BY ONLY <2>3, <2>4 DEF Window
  <2> QED BY ONLY <2>3, <2>7, <2>8, <2>9, <2>10, <2>11, <2>12, <2>13, <2>14,
                  ProviderInv, m \in Mounts, TurnKeeps
<1> QED BY <1>6, <1>8, <1>9, <1>10 DEF PrepareMount

\* put: the entry is worth what the request is.
LEMMA PutStep ==
    ASSUME ProviderInv, NEW m \in Mounts, Put(m)
    PROVE  ProviderInv'
<1>1. PICK x \in Mount : x = mount[m] BY Mover
<1>2. /\ RestTyped /\ InOrder /\ MountTyped(x, Len(buckets)) /\ Staged(x, clock)
      /\ Dated(x) /\ RequestsTypeOK /\ Typed /\ Dates /\ Shows
  BY <1>1, Mover DEF ProviderInv
<1>3. x.pc = "put" BY <1>1 DEF Put
<1>4. PICK e : e = [ref |-> x.ref, version |-> x.version, at |-> clock,
                    latest |-> IsLatest(x.spec), asked |-> x.asked]
  OBVIOUS
<1>5. PICK r : r = [x EXCEPT !.pc = "resolving"] OBVIOUS
<1>6. PICK q : q = x.spec OBVIOUS
<1>7. /\ entries' = [entries EXCEPT ![q] = e] /\ Persist(entries')
      /\ slowest' = IF IsLatest(q) THEN Max({slowest, clock - x.asked}) ELSE slowest
      /\ StartFetch(m, r)
      /\ UNCHANGED <<clock, since, accounts>>
  BY <1>1, <1>4, <1>5, <1>6 DEF Put
<1>8. /\ q \in Specs /\ q.provider # "github" /\ x.version \in Versions
      /\ x.ref \in Refs /\ x.call = Nothing /\ x.asked <= clock /\ x.looked <= clock
  BY ONLY <1>2, <1>3, <1>6 DEF Staged
<1>9. /\ clock \in Nat /\ clock \in Times /\ slowest \in Nat /\ slowest \in Times
      /\ MaxTime \in Nat /\ clock <= MaxTime /\ slowest <= MaxTime
      /\ x.asked \in Times /\ x.asked \in Nat /\ x.looked \in Nat /\ TTL \in Nat
  BY ONLY <1>2, x \in Mount, ConstantTypes DEF RestTyped, Times, Mount
<1>10. /\ r \in Mount /\ r.pc = "resolving" /\ r.ref = x.ref /\ r.version = x.version
       /\ r.spec = q /\ r.looked = x.looked /\ r.held = x.held /\ r.call = Nothing
       /\ r.asked = x.asked /\ r.commit = x.commit
  BY ONLY <1>5, <1>6, <1>8, x \in Mount DEF Mount
<1>11. /\ e \in CachedResolution /\ e.version = x.version /\ e.at = clock
       /\ e.latest = IsLatest(q) /\ e.asked = x.asked
  BY ONLY <1>4, <1>6, <1>8, <1>9 DEF CachedResolution, IsLatest
<1>12. /\ slowest <= slowest' /\ slowest' \in Times
       /\ IsLatest(q) => clock <= x.asked + slowest'
  <2>1. CASE IsLatest(q)
    <3>1. PICK d \in Nat : d = clock - x.asked BY ONLY <1>8, <1>9
    <3>2. d <= MaxTime /\ clock = x.asked + d BY ONLY <1>9, <3>1
    <3>3. PICK a \in Nat : a = slowest BY ONLY <1>9
    <3>4. Max({a, d}) = IF a >= d THEN a ELSE d BY ONLY a \in Nat, d \in Nat DEF Max
    <3>5. PICK z \in Nat : z = (IF a >= d THEN a ELSE d) /\ a <= z /\ d <= z
      BY ONLY a \in Nat, d \in Nat
    <3>6. slowest' = z BY ONLY <1>7, <2>1, <3>1, <3>3, <3>4, <3>5
    <3>7. z <= MaxTime BY ONLY <1>9, <3>2, <3>3, <3>5
    <3>8. z \in Times BY ONLY <3>7, z \in Nat, <1>9 DEF Times
    <3>9. clock <= x.asked + z BY ONLY <1>9, <3>2, <3>5
    <3> QED BY ONLY <3>3, <3>5, <3>6, <3>8, <3>9
  <2>2. CASE ~IsLatest(q) BY ONLY <1>7, <1>9, <2>2
  <2> QED BY ONLY <2>1, <2>2
<1>13. /\ mount' = [mount EXCEPT ![m] = r]
       /\ crossed \subseteq crossed' /\ crossed' \subseteq Refs
       /\ \A n \in Mounts \ {m} :
             mount[n].pc \in Window /\ mount[n].ref = r.ref => r.ref \in crossed'
  BY ONLY <1>7, <1>8, <1>10, ProviderInv, m \in Mounts, StartCrosses
<1>14. RestTyped'
  <2>1. entries' \in [Specs -> CachedResolution \cup {Nothing}]
    BY ONLY <1>2, <1>7, <1>8, <1>11 DEF RestTyped
  <2>2. file' \in [Specs -> CachedResolution \cup {Nothing}]
    BY ONLY <1>2, <1>7, <2>1 DEF RestTyped, Persist
  <2>3. events' \in 0..MaxEvents
    BY ONLY <1>2, <1>7, ConstantTypes DEF RestTyped, Persist
  <2> QED BY ONLY <1>2, <1>7, <1>12, <1>13, <2>1, <2>2, <2>3 DEF RestTyped, accounts
<1>15. clock' = clock /\ since' = since /\ table' = table /\ buckets' = buckets
  BY ONLY <1>7 DEF accounts
<1>16. Elapses /\ clock <= clock' BY ONLY <1>9, <1>12, <1>15 DEF Elapses
<1>17. InOrder' BY ONLY <1>2, <1>15 DEF InOrder, Released
<1>18. Grows /\ \A k \in CounterKey : Keeps(k) BY ONLY <1>2, <1>15, QuietGrows
<1>19. MountTyped(r, Len(buckets')) BY ONLY <1>2, <1>10, <1>15 DEF MountTyped
<1>20. Staged(r, clock)
  <2>1. x.commit = Resolving BY ONLY <1>2, <1>3 DEF Staged
  <2> QED BY ONLY <1>8, <1>9, <1>10, <2>1 DEF Staged, Window
<1>21. Typed'
  BY ONLY <1>2, <1>13, <1>14, <1>16, <1>17, <1>18, <1>19, <1>20, m \in Mounts, TurnTyped
<1>22. Dates'
  <2>1. IsLatest(q) => AsOf(x.version, x.asked, 0) /\ x.looked <= x.asked
    BY ONLY <1>2, <1>3, <1>6, <1>8 DEF Dated
  <2>2. ~IsLatest(q) => x.version = q.version
    BY ONLY <1>2, <1>3, <1>6, <1>8 DEF Dated
  <2>3. PICK v, t, u : v = x.version /\ t = x.asked /\ u = x.looked OBVIOUS
  <2>4. IsLatest(q) => AsOf(v, t, 0)'
    BY ONLY <2>1, <2>3, <1>15 DEF AsOf, Released, Last
  <2>5. Worth(q, e)'
    BY ONLY <1>8, <1>9, <1>11, <1>12, <1>15, <2>2, <2>3, <2>4 DEF Worth, AsOf
  <2>6. ASSUME IsLatest(q) PROVE AsOf(v, u, TTL + slowest)'
    <3>1. AsOf(v, t, 0) /\ u <= t BY ONLY <2>1, <2>3, <2>6
    <3>2. CASE v = Last
      BY ONLY <3>1, <3>2, <1>15 DEF AsOf, Released, Last
    <3>3. CASE v # Last
      <4>1. v \in Released /\ since[v + 1] + 0 >= t BY ONLY <3>1, <3>3 DEF AsOf
      <4>2. v + 1 \in Released
        <5>1. PICK k \in Versions : k = Last /\ Released = 1..k
          BY <1>2, LastIsOut
        <5>2. k \in Nat BY ONLY <5>1, ConstantTypes
        <5> QED BY ONLY <5>1, <5>2, <3>3, <4>1
      <4>3. PICK b \in Nat : b = since[v + 1]
        BY ONLY <1>2, <4>2, ConstantTypes DEF RestTyped, Released
      <4>4. PICK c \in Nat : c = slowest'
        BY ONLY <1>12, ConstantTypes
      <4>5. b + 0 >= t BY ONLY <4>1, <4>3
      <4>6. t \in Nat /\ u \in Nat BY ONLY <1>9, <2>3
      <4>7. b + (TTL + c) >= u BY ONLY <1>9, <3>1, <4>5, <4>6
      <4> QED BY ONLY <1>15, <4>1, <4>3, <4>4, <4>7 DEF AsOf, Released
    <3> QED BY ONLY <3>2, <3>3
  <2>7. Dated(r)' BY ONLY <1>10, <2>2, <2>3, <2>6 DEF Dated, AsOf
  <2>8. /\ \A s \in Specs : entries'[s] # entries[s] => s = q
        /\ entries'[q] = e
    BY ONLY <1>2, <1>7, <1>8 DEF RestTyped
  <2>9. \A s \in Specs : file'[s] # file[s] => file'[s] = entries'[s]
    BY ONLY <1>7 DEF Persist
  <2> QED BY ONLY <1>2, <1>13, <1>14, <1>16, <2>5, <2>7, <2>8, <2>9, m \in Mounts,
                  TurnDates
<1>23. Shows'
  <2>1. Shown(r)' BY ONLY <1>10, StartShown
  <2> QED BY ONLY <1>2, <1>13, <1>18, <2>1, m \in Mounts, TurnShows
<1> QED BY ONLY <1>21, <1>22, <1>23 DEF ProviderInv

-----------------------------------------------------------------------------
(* Requests: the accounting of an answer.                                  *)

\* Setting a call sets nothing else.
LEMMA CallSet ==
    ASSUME NEW x \in Mount, NEW c \in Call \cup {Nothing}, NEW r,
           r = [x EXCEPT !.call = c]
    PROVE  /\ r \in Mount /\ r.call = c /\ r.pc = x.pc /\ r.spec = x.spec
           /\ r.version = x.version /\ r.ref = x.ref /\ r.commit = x.commit
           /\ r.looked = x.looked /\ r.asked = x.asked /\ r.held = x.held
BY DEF Mount

\* A call, or its end, leaves the rest of the request as it was.
LEMMA CallFits ==
    ASSUME NEW x \in Mount, NEW c \in Call \cup {Nothing}, NEW r,
           r = [x EXCEPT !.call = c],
           x.pc \in {"resolving", "content"}, Staged(x, clock), Dated(x),
           c # Nothing /\ c.step # "rest" => c.result = "Throttled"
    PROVE  Staged(r, clock) /\ Dated(r)
<1>1. /\ r.call = c /\ r.pc = x.pc /\ r.spec = x.spec
      /\ r.version = x.version /\ r.ref = x.ref /\ r.commit = x.commit
      /\ r.looked = x.looked /\ r.asked = x.asked /\ r.held = x.held
  BY CallSet
<1>2. Staged(r, clock)
  BY ONLY <1>1, x.pc \in {"resolving", "content"}, Staged(x, clock),
          c # Nothing /\ c.step # "rest" => c.result = "Throttled" DEF Staged
<1>3. Dated(r) BY ONLY <1>1, Dated(x) DEF Dated
<1> QED BY ONLY <1>2, <1>3

\* The key of a request that asks GitHub.
LEMMA KeyType ==
    ASSUME NEW m \in Mounts, Staged(mount[m], clock),
           mount[m].pc \in {"resolving", "dropping", "merging", "content"}
    PROVE  /\ KeyOf(m) \in CounterKey /\ mount[m].ref \in Refs
           /\ KeyOf(m) = <<mount[m].ref, mount[m].commit>>
           /\ mount[m].pc = "resolving" => KeyOf(m) = <<mount[m].ref, Resolving>>
BY DEF Staged, KeyOf, CounterKey, Window

\* counters_for, and a call that holds its bucket.
LEMMA CallTurn ==
    ASSUME ProviderInv, NEW m \in Mounts, mount[m].pc \in {"resolving", "content"},
           CountersFor(KeyOf(m)), NEW c \in Call, c.bucket = BucketAt(KeyOf(m)),
           c.step # "rest" => c.result = "Throttled",
           mount' = [mount EXCEPT ![m] = [mount[m] EXCEPT !.call = c]],
           UNCHANGED <<clock, since, entries, file, crossed, slowest>>, RestTyped'
    PROVE  ProviderInv'
<1>1. PICK x \in Mount : x = mount[m] BY Mover
<1>2. /\ RestTyped /\ RequestsTypeOK /\ MountTyped(x, Len(buckets))
      /\ Staged(x, clock) /\ Dated(x) /\ Shown(x) /\ Len(buckets) \in Nat
      /\ x.pc \in {"resolving", "content"}
  BY <1>1, Mover
<1>3. PICK key \in CounterKey :
         /\ key = KeyOf(m) /\ x.ref \in Refs /\ key = <<x.ref, x.commit>>
         /\ x.pc = "resolving" => key = <<x.ref, Resolving>>
  BY ONLY <1>1, <1>2, m \in Mounts, KeyType
<1>4. CountersFor(key) /\ c.bucket = BucketAt(key) BY <1>3
<1>5. /\ Grows /\ \A k \in CounterKey : Keeps(k)
      /\ table'[key] = c.bucket /\ c.bucket \in 1..Len(buckets')
  BY ONLY <1>2, <1>3, <1>4, CountersForGrows
<1>6. PICK r : r = [x EXCEPT !.call = c] OBVIOUS
<1>7. mount' = [mount EXCEPT ![m] = r] BY <1>1, <1>6
<1>9. /\ r \in Mount /\ r.call = c /\ r.pc = x.pc /\ r.ref = x.ref
      /\ r.commit = x.commit /\ r.held = x.held
  BY ONLY <1>6, c \in Call, x \in Mount, CallSet
<1>10. Staged(r, clock) /\ Dated(r)
  BY ONLY <1>2, <1>6, c \in Call, x \in Mount, c.step # "rest" => c.result = "Throttled",
          CallFits
<1>11. MountTyped(r, Len(buckets'))
  <2>1. PICK a \in Nat : a = Len(buckets) BY ONLY <1>2
  <2>2. PICK b \in Nat : b = Len(buckets')
    <3>1. buckets' \in Seq(MountCounters) BY ONLY <1>5 DEF Grows
    <3> QED BY ONLY <3>1, LenProperties
  <2>3. x.held \in 0..a /\ a <= b
    BY ONLY <1>2, <1>5, <2>1, <2>2 DEF MountTyped, Grows
  <2>4. x.held \in 0..b BY ONLY <2>3
  <2> QED BY ONLY <1>5, <1>9, <2>2, <2>4 DEF MountTyped
<1>12. crossed' = crossed OBVIOUS
<1>13. Shown(x)'
  <2>1. x.pc \in Window => <<x.ref, Resolving>> \in CounterKey
    BY ONLY <1>2 DEF Staged, CounterKey
  <2>2. x.pc = "content" => <<x.ref, x.commit>> \in CounterKey
    BY ONLY <1>2 DEF Staged, CounterKey
  <2>3. (x.pc \in Window /\ x.ref \notin crossed => Keeps(<<x.ref, Resolving>>))
        /\ (x.pc = "content" => Keeps(<<x.ref, x.commit>>))
        /\ crossed \subseteq crossed'
    BY ONLY <1>5, <1>12, <2>1, <2>2
  <2> QED BY ONLY <1>2, <1>5, <2>3, ShownKept
<1>14. Shown(r)'
  BY ONLY <1>2, <1>3, <1>5, <1>9, <1>13 DEF Shown
<1>15. crossed \subseteq crossed'
       /\ UNCHANGED <<clock, since, entries, file, slowest>>
  OBVIOUS
<1>16. r.pc \in Window => mount[m].pc \in Window /\ mount[m].ref = r.ref
  BY ONLY <1>1, <1>9
<1> QED BY ONLY <1>5, <1>7, <1>10, <1>11, <1>14, <1>15, <1>16, ProviderInv, RestTyped',
                m \in Mounts, TurnKeeps

\* What get_json makes of an answer.
LEMMA ResultType == Results \subseteq {"Ok", "Throttled", "Err"}
BY DEF Results, Result

\* get_json's answer.
LEMMA GetJsonStep ==
    ASSUME ProviderInv, NEW m \in Mounts, GetJson(m)
    PROVE  ProviderInv'
<1>1. PICK x \in Mount : x = mount[m] BY Mover
<1>2. /\ RestTyped /\ mount \in [Mounts -> Mount] /\ Staged(x, clock)
      /\ RequestsTypeOK
  BY <1>1, Mover
<1>3. x.pc \in {"resolving", "content"} BY <1>1 DEF GetJson
<1>4. PICK res \in Results :
         /\ events' = events + (IF res = "Ok" THEN 0 ELSE 1) /\ events' <= MaxEvents
         /\ mount' = [mount EXCEPT ![m].call =
               [step |-> "rest", bucket |-> BucketAt(KeyOf(m)), result |-> res]]
         /\ answered' = [answered EXCEPT ![x.ref] =
               [rest |-> @.rest + 1,
                throttles |-> @.throttles + (IF res = "Throttled" THEN 1 ELSE 0)]]
  BY <1>1 DEF GetJson
<1>5. res \in {"Ok", "Throttled", "Err"} BY ResultType
<1>6. CountersFor(KeyOf(m)) /\ UNCHANGED <<clock, since, entries, file, throttled,
                                           crossed, slowest>>
  BY DEF GetJson
<1>7. PICK c : c = [step |-> "rest", bucket |-> BucketAt(KeyOf(m)), result |-> res]
  OBVIOUS
<1>8. KeyOf(m) \in CounterKey /\ x.ref \in Refs
  BY ONLY <1>1, <1>2, <1>3, m \in Mounts, KeyType
<1>9. BucketAt(KeyOf(m)) \in Nat
  <2>1. PICK key \in CounterKey : key = KeyOf(m) BY ONLY <1>8
  <2>2. BucketAt(key) \in 1..Len(buckets')
    BY ONLY <1>2, <1>6, <2>1, CountersForGrows
  <2> QED BY ONLY <2>1, <2>2
<1>10. c \in Call /\ c.bucket = BucketAt(KeyOf(m)) /\ c.step = "rest"
  BY ONLY <1>5, <1>7, <1>9 DEF Call
<1>11. mount' = [mount EXCEPT ![m] = [mount[m] EXCEPT !.call = c]]
  BY ONLY <1>2, <1>4, <1>7, m \in Mounts
<1>12. answered' \in [Refs -> MountCounters]
  <2>1. PICK a \in MountCounters : a = answered[x.ref]
    BY ONLY <1>2, <1>8 DEF RestTyped
  <2>2. PICK d \in Nat : d = IF res = "Throttled" THEN 1 ELSE 0 OBVIOUS
  <2>3. PICK b : b = [rest |-> a.rest + 1, throttles |-> a.throttles + d] OBVIOUS
  <2>4. b \in MountCounters
    <3>1. a.rest \in Nat /\ a.throttles \in Nat BY ONLY <2>1 DEF MountCounters
    <3>2. a.rest + 1 \in Nat /\ a.throttles + d \in Nat BY ONLY <3>1, d \in Nat
    <3> QED BY ONLY <2>3, <3>2 DEF MountCounters
  <2>5. answered' = [answered EXCEPT ![x.ref] = b]
    BY ONLY <1>4, <2>1, <2>2, <2>3
  <2> QED BY ONLY <1>2, <2>4, <2>5 DEF RestTyped
<1>13. events' \in 0..MaxEvents
  BY ONLY <1>2, <1>4, ConstantTypes DEF RestTyped
<1>14. RestTyped' BY ONLY <1>2, <1>6, <1>12, <1>13 DEF RestTyped
<1>15. c.step # "rest" => c.result = "Throttled" BY ONLY <1>10
<1>16. UNCHANGED <<clock, since, entries, file, crossed, slowest>> BY ONLY <1>6
<1>17. mount[m].pc \in {"resolving", "content"} BY ONLY <1>1, <1>3
<1> QED BY ONLY <1>6, <1>10, <1>11, <1>14, <1>15, <1>16, <1>17, ProviderInv,
                m \in Mounts, CallTurn

\* mark_secondary_throttle looks the bucket up again.
LEMMA MarkStep ==
    ASSUME ProviderInv, NEW m \in Mounts, Mark(m)
    PROVE  ProviderInv'
<1>1. PICK x \in Mount : x = mount[m] BY Mover
<1>2. /\ RestTyped /\ mount \in [Mounts -> Mount] /\ Staged(x, clock)
      /\ RequestsTypeOK
  BY <1>1, Mover
<1>3. PICK o : o = x.call OBVIOUS
<1>4. o # Nothing /\ o.step = "mark" BY <1>1, <1>3 DEF Mark
<1>5. o \in Call /\ x.pc \in {"resolving", "content"} /\ o.result = "Throttled"
  BY ONLY <1>2, <1>3, <1>4, x \in Mount DEF Mount, Staged
<1>6. /\ CountersFor(KeyOf(m)) /\ throttled' = TRUE
      /\ UNCHANGED <<clock, since, entries, file, answered, crossed, slowest, events>>
      /\ mount' = [mount EXCEPT ![m].call.step = "throttle",
                                ![m].call.bucket = BucketAt(KeyOf(m))]
  BY DEF Mark
<1>7. KeyOf(m) \in CounterKey
  BY ONLY <1>1, <1>2, <1>5, m \in Mounts, KeyType
<1>8. BucketAt(KeyOf(m)) \in Nat
  <2>1. PICK key \in CounterKey : key = KeyOf(m) BY ONLY <1>7
  <2>2. BucketAt(key) \in 1..Len(buckets')
    BY ONLY <1>2, <1>6, <2>1, CountersForGrows
  <2> QED BY ONLY <2>1, <2>2
<1>9. PICK b \in Nat : b = BucketAt(KeyOf(m)) BY ONLY <1>8
<1>10. PICK c : c = [o EXCEPT !.step = "throttle", !.bucket = b] OBVIOUS
<1>11. c \in Call /\ c.bucket = b /\ c.result = "Throttled"
  BY ONLY <1>5, <1>10, b \in Nat DEF Call
<1>12. mount' = [mount EXCEPT ![m] = [mount[m] EXCEPT !.call = c]]
  BY ONLY <1>1, <1>2, <1>3, <1>5, <1>6, <1>9, <1>10, m \in Mounts DEF Mount, Call
<1>13. RestTyped' BY ONLY <1>2, <1>6 DEF RestTyped
<1>14. /\ c.step # "rest" => c.result = "Throttled"
       /\ c.bucket = BucketAt(KeyOf(m)) /\ CountersFor(KeyOf(m))
       /\ UNCHANGED <<clock, since, entries, file, crossed, slowest>>
       /\ mount[m].pc \in {"resolving", "content"}
  BY ONLY <1>1, <1>5, <1>6, <1>9, <1>11
<1> QED BY ONLY <1>11, <1>12, <1>13, <1>14, ProviderInv, m \in Mounts, CallTurn

\* A request's buckets stay in range as buckets are added.
LEMMA MountWidens ==
    ASSUME RequestsTypeOK, Grows, NEW r, MountTyped(r, Len(buckets))
    PROVE  MountTyped(r, Len(buckets'))
<1>1. buckets \in Seq(MountCounters) BY DEF RequestsTypeOK
<1>2. buckets' \in Seq(MountCounters) /\ Len(buckets) <= Len(buckets') BY DEF Grows
<1>3. PICK a \in Nat : a = Len(buckets) BY ONLY <1>1, LenProperties
<1>4. PICK b \in Nat : b = Len(buckets') BY ONLY <1>2, LenProperties
<1>5. 0..a \subseteq 0..b /\ 1..a \subseteq 1..b BY ONLY <1>2, <1>3, <1>4
<1> QED BY ONLY <1>3, <1>4, <1>5, MountTyped(r, Len(buckets)) DEF MountTyped

\* What an addition leaves of a request's claim to the table.
LEMMA AddFacts ==
    ASSUME ProviderInv, NEW m \in Mounts, NEW x \in Mount, x = mount[m],
           NEW o, o = x.call, o # Nothing,
           NEW field \in {"rest", "throttles"}, AddTo(o.bucket, field),
           table' = table, crossed' = crossed
    PROVE  /\ Grows /\ \A k \in CounterKey : Keeps(k)
           /\ Shown(x)'
           /\ o.bucket # 0
           /\ field = "rest" => buckets'[o.bucket].rest >= 1
<1>1. /\ RequestsTypeOK /\ MountTyped(x, Len(buckets)) /\ Len(buckets) \in Nat
      /\ Staged(x, clock) /\ Shown(x)
  BY Mover
<1>2. o.bucket \in 1..Len(buckets) /\ o.bucket # 0 BY ONLY <1>1, o = x.call, o # Nothing
                                                   DEF MountTyped
<1>3. /\ Grows /\ \A k \in CounterKey : Keeps(k)
      /\ field = "rest" => buckets'[o.bucket].rest >= 1
  <2>1. PICK b \in 1..Len(buckets) : b = o.bucket BY ONLY <1>2
  <2>2. AddTo(b, field) BY <2>1
  <2>3. /\ Grows /\ \A k \in CounterKey : Keeps(k)
        /\ field = "rest" => buckets'[b].rest >= 1
    BY ONLY <1>1, <2>2, table' = table, field \in {"rest", "throttles"}, AddGrows
  <2> QED BY ONLY <2>1, <2>3
<1>4. Shown(x)'
  <2>1. x.pc \in Window => <<x.ref, Resolving>> \in CounterKey
    BY ONLY <1>1 DEF Staged, CounterKey
  <2>2. x.pc = "content" => <<x.ref, x.commit>> \in CounterKey
    BY ONLY <1>1 DEF Staged, CounterKey
  <2>3. (x.pc \in Window /\ x.ref \notin crossed => Keeps(<<x.ref, Resolving>>))
        /\ (x.pc = "content" => Keeps(<<x.ref, x.commit>>))
        /\ crossed \subseteq crossed'
    BY ONLY <1>3, crossed' = crossed, <2>1, <2>2
  <2> QED BY ONLY <1>1, <1>3, <2>3, ShownKept
<1> QED BY ONLY <1>2, <1>3, <1>4

\* After an addition the request goes on to r.
LEMMA AddTurn ==
    ASSUME ProviderInv, NEW m \in Mounts, Grows, \A k \in CounterKey : Keeps(k),
           UNCHANGED <<clock, since, entries, file, answered, crossed, slowest,
                       events, throttled>>,
           NEW r, mount' = [mount EXCEPT ![m] = r],
           MountTyped(r, Len(buckets)), Staged(r, clock), Dated(r), Shown(r)',
           r.pc \in Window => mount[m].pc \in Window /\ mount[m].ref = r.ref
    PROVE  ProviderInv'
<1>1. RestTyped /\ RequestsTypeOK BY Mover
<1>2. RestTyped' BY <1>1 DEF RestTyped
<1>3. /\ crossed \subseteq crossed'
      /\ UNCHANGED <<clock, since, entries, file, slowest>>
  OBVIOUS
<1>4. MountTyped(r, Len(buckets')) BY ONLY <1>1, Grows, MountTyped(r, Len(buckets)),
                                           MountWidens
<1> QED BY ONLY <1>2, <1>3, <1>4, ProviderInv, m \in Mounts, Grows,
                \A k \in CounterKey : Keeps(k), mount' = [mount EXCEPT ![m] = r],
                Staged(r, clock), Dated(r), Shown(r)',
                r.pc \in Window => mount[m].pc \in Window /\ mount[m].ref = r.ref,
                TurnKeeps

\* The call is over: the request fails, goes on, or its ref is resolved.
LEMMA ReturnTurn ==
    ASSUME ProviderInv, NEW m \in Mounts, Return(m),
           mount[m].call # Nothing,
           NEW field \in {"rest", "throttles"},
           AddTo(mount[m].call.bucket, field), table' = table,
           mount[m].call.result = "Ok" => field = "rest",
           UNCHANGED <<clock, since, entries, file, answered, crossed, slowest,
                       events, throttled>>
    PROVE  ProviderInv'
<1>1. PICK x \in Mount : x = mount[m] BY Mover
<1>2. PICK o : o = x.call OBVIOUS
<1>3. o # Nothing /\ AddTo(o.bucket, field) /\ crossed' = crossed
      /\ (o.result = "Ok" => field = "rest")
  BY <1>1, <1>2
<1>4. /\ Grows /\ \A k \in CounterKey : Keeps(k)
      /\ Shown(x)'
      /\ o.bucket # 0 /\ (field = "rest" => buckets'[o.bucket].rest >= 1)
  BY ONLY <1>1, <1>2, <1>3, ProviderInv, m \in Mounts, table' = table,
          field \in {"rest", "throttles"}, AddFacts
<1>5. /\ RestTyped /\ InOrder /\ Staged(x, clock) /\ Dated(x) /\ Shown(x)
      /\ MountTyped(x, Len(buckets)) /\ Len(buckets) \in Nat
      /\ table \in [CounterKey -> 0..Len(buckets)]
  BY <1>1, Mover
<1>6. x.pc \in {"resolving", "content"} BY ONLY <1>2, <1>3, <1>5 DEF Staged
<1>7. CASE mount' = [mount EXCEPT ![m] = NewMount]
  <2>1. /\ Staged(NewMount, clock) /\ Dated(NewMount) /\ Shown(NewMount)'
        /\ MountTyped(NewMount, Len(buckets)) /\ NewMount.pc \notin Window
    BY ONLY <1>5, NewMountFits
  <2> QED BY <1>4, <1>7, <2>1, AddTurn
<1>8. CASE /\ x.pc = "content"
           /\ mount' = [mount EXCEPT ![m] = [x EXCEPT !.call = Nothing]]
  <2>1. PICK r : r = [x EXCEPT !.call = Nothing] OBVIOUS
  <2>2. /\ r \in Mount /\ r.call = Nothing /\ r.pc = x.pc /\ r.ref = x.ref
        /\ r.commit = x.commit /\ r.held = x.held
    BY ONLY <2>1, x \in Mount, CallSet
  <2>3. Staged(r, clock) /\ Dated(r)
    BY ONLY <1>5, <1>6, <2>1, x \in Mount, CallFits
  <2>4. MountTyped(r, Len(buckets)) BY ONLY <1>5, <2>2 DEF MountTyped
  <2>5. Shown(r)' BY ONLY <1>4, <1>8, <2>2 DEF Shown
  <2>6. r.pc \notin Window BY ONLY <1>8, <2>2 DEF Window
  <2> QED BY <1>4, <1>8, <2>1, <2>3, <2>4, <2>5, <2>6, AddTurn
<1>9. ASSUME NEW commit, commit = IF x.ref[1] = "branch" THEN Last ELSE x.ref[2],
             x.pc = "resolving", o.result = "Ok",
             mount' = [mount EXCEPT ![m] =
                 [NewMount EXCEPT !.pc = "dropping", !.ref = x.ref, !.commit = commit]]
      PROVE  ProviderInv'
  <2>1. PICK r : r = [NewMount EXCEPT !.pc = "dropping", !.ref = x.ref,
                                      !.commit = commit]
    OBVIOUS
  <2>2. x.ref \in Refs BY ONLY <1>5, <1>9 DEF Staged, Window
  <2>3. commit \in Commits
    <3>1. Last \in Versions BY ONLY <1>5, LastIsOut
    <3>2. x.ref[1] # "branch" => x.ref[2] \in Versions BY ONLY <2>2 DEF Refs
    <3> QED BY ONLY <1>9, <3>1, <3>2 DEF Commits
  <2>4. NewMount \in Mount
    BY ONLY <1>5, NewMountFits DEF MountTyped
  <2>5. /\ r \in Mount /\ r.pc = "dropping" /\ r.ref = x.ref /\ r.commit = commit
        /\ r.call = Nothing /\ r.held = 0 /\ r.asked = 0 /\ r.looked = 0
    BY ONLY <2>1, <2>2, <2>3, <2>4 DEF Mount, NewMount
  <2>6. MountTyped(r, Len(buckets)) BY ONLY <1>5, <2>5 DEF MountTyped
  <2>7. Staged(r, clock)
    <3>1. 0 <= clock BY ONLY <1>5, ConstantTypes DEF RestTyped
    <3> QED BY ONLY <2>2, <2>3, <2>5, <3>1 DEF Staged, Window
  <2>8. Dated(r) BY ONLY <2>5 DEF Dated
  <2>9. Shown(r)'
    <3>1. x.ref \notin crossed' => table'[<<x.ref, Resolving>>] = o.bucket
      BY ONLY <1>2, <1>3, <1>4, <1>9 DEF Shown
    <3> QED BY ONLY <1>3, <1>4, <1>9, <2>5, <3>1 DEF Shown
  <2>10. r.pc \in Window => mount[m].pc \in Window /\ mount[m].ref = r.ref
    BY <1>1, <1>9, <2>5 DEF Window
  <2> QED BY <1>4, <1>9, <2>1, <2>6, <2>7, <2>8, <2>9, <2>10, AddTurn
<1>10. PICK commit : commit = IF x.ref[1] = "branch" THEN Last ELSE x.ref[2]
  OBVIOUS
<1>11. [x EXCEPT !.call = Nothing].pc = x.pc /\ [x EXCEPT !.call = Nothing].ref = x.ref
  BY ONLY x \in Mount DEF Mount
<1>12. \/ mount' = [mount EXCEPT ![m] = NewMount]
       \/ /\ x.pc = "content"
          /\ mount' = [mount EXCEPT ![m] = [x EXCEPT !.call = Nothing]]
       \/ /\ x.pc = "resolving" /\ o.result = "Ok"
          /\ mount' = [mount EXCEPT ![m] =
                [NewMount EXCEPT !.pc = "dropping", !.ref = x.ref, !.commit = commit]]
  BY ONLY <1>1, <1>2, <1>10, <1>11, Return(m) DEF Return
<1> QED BY ONLY <1>7, <1>8, <1>9, <1>10, <1>12

\* record_rest_call.
LEMMA RecordStep ==
    ASSUME ProviderInv, NEW m \in Mounts, Record(m)
    PROVE  ProviderInv'
<1>1. PICK x \in Mount : x = mount[m] BY Mover
<1>2. PICK o : o = x.call OBVIOUS
<1>3. /\ o # Nothing /\ o.step = "rest" /\ AddTo(o.bucket, "rest")
      /\ UNCHANGED <<clock, since, entries, file, table, throttled, answered,
                     crossed, slowest, events>>
      /\ IF o.result = "Throttled"
         THEN mount' = [mount EXCEPT ![m].call.step = "mark"]
         ELSE Return(m)
  BY <1>1, <1>2 DEF Record
<1>4. CASE o.result # "Throttled"
  <2>1. /\ mount[m].call # Nothing /\ AddTo(mount[m].call.bucket, "rest")
        /\ Return(m) /\ table' = table
        /\ UNCHANGED <<clock, since, entries, file, answered, crossed, slowest,
                       events, throttled>>
    BY ONLY <1>1, <1>2, <1>3, <1>4
  <2>2. PICK field \in {"rest", "throttles"} : field = "rest" OBVIOUS
  <2> QED BY ONLY <2>1, <2>2, ProviderInv, m \in Mounts, ReturnTurn
<1>5. CASE o.result = "Throttled"
  <2>1. /\ RestTyped /\ mount \in [Mounts -> Mount] /\ Staged(x, clock) /\ Dated(x)
        /\ MountTyped(x, Len(buckets))
    BY <1>1, Mover
  <2>2. o \in Call /\ x.pc \in {"resolving", "content"}
    BY ONLY <1>2, <1>3, <2>1, x \in Mount DEF Mount, Staged
  <2>3. PICK c : c = [o EXCEPT !.step = "mark"] OBVIOUS
  <2>4. c \in Call /\ c.bucket = o.bucket /\ c.result = "Throttled"
    BY ONLY <2>2, <2>3, <1>5 DEF Call
  <2>6. PICK r : r = [x EXCEPT !.call = c] OBVIOUS
  <2>7. mount' = [mount EXCEPT ![m] = r]
    BY ONLY <1>1, <1>2, <1>3, <1>5, <2>1, <2>3, <2>6, x \in Mount DEF Mount
  <2>8. /\ r \in Mount /\ r.call = c /\ r.pc = x.pc /\ r.ref = x.ref
        /\ r.commit = x.commit /\ r.held = x.held
    BY ONLY <2>4, <2>6, x \in Mount, CallSet
  <2>9. Staged(r, clock) /\ Dated(r)
    BY ONLY <2>1, <2>2, <2>4, <2>6, x \in Mount, CallFits
  <2>10. MountTyped(r, Len(buckets))
    BY ONLY <1>2, <1>3, <2>1, <2>4, <2>8 DEF MountTyped
  <2>11. /\ Grows /\ \A k \in CounterKey : Keeps(k)
         /\ Shown(x)'
    <3>1. PICK field \in {"rest", "throttles"} : field = "rest" OBVIOUS
    <3>2. AddTo(o.bucket, field) /\ table' = table /\ crossed' = crossed /\ o # Nothing
      BY ONLY <1>3, <3>1
    <3> QED BY ONLY <1>1, <1>2, <3>2, ProviderInv, m \in Mounts, AddFacts
  <2>12. Shown(r)'
    BY ONLY <1>2, <1>3, <2>4, <2>8, <2>11 DEF Shown
  <2>13. r.pc \in Window => mount[m].pc \in Window /\ mount[m].ref = r.ref
    BY ONLY <1>1, <2>8
  <2>14. UNCHANGED <<clock, since, entries, file, answered, crossed, slowest,
                     events, throttled>>
    BY ONLY <1>3
  <2> QED BY ONLY <2>7, <2>9, <2>10, <2>11, <2>12, <2>13, <2>14, ProviderInv,
                  m \in Mounts, AddTurn
<1> QED BY ONLY <1>4, <1>5

\* record_throttle_event; the call fails.
LEMMA RecordThrottleStep ==
    ASSUME ProviderInv, NEW m \in Mounts, RecordThrottle(m)
    PROVE  ProviderInv'
<1>1. /\ mount[m].call # Nothing /\ mount[m].call.step = "throttle"
      /\ AddTo(mount[m].call.bucket, "throttles") /\ Return(m)
      /\ table' = table
      /\ UNCHANGED <<clock, since, entries, file, answered, crossed, slowest,
                     events, throttled>>
  BY DEF RecordThrottle
<1>2. mount[m].call.result = "Throttled" BY <1>1, Mover DEF Staged
<1>3. PICK field \in {"rest", "throttles"} : field = "throttles" OBVIOUS
<1>4. mount[m].call.result = "Ok" => field = "rest" BY ONLY <1>2
<1> QED BY ONLY <1>1, <1>3, <1>4, ProviderInv, m \in Mounts, ReturnTurn

\* merge_and_drop_placeholder, the removal.
LEMMA DropStep ==
    ASSUME ProviderInv, NEW m \in Mounts, DropPlaceholder(m)
    PROVE  ProviderInv'
<1>1. PICK x \in Mount : x = mount[m] BY Mover
<1>2. /\ RestTyped /\ RequestsTypeOK /\ mount \in [Mounts -> Mount]
      /\ Staged(x, clock) /\ Shown(x) /\ MountTyped(x, Len(buckets))
      /\ Len(buckets) \in Nat /\ table \in [CounterKey -> 0..Len(buckets)]
  BY <1>1, Mover
<1>3. PICK key : key = <<x.ref, Resolving>> OBVIOUS
<1>4. /\ x.pc = "dropping"
      /\ mount' = [mount EXCEPT
            ![m].pc = IF table[key] = 0 THEN "content" ELSE "merging",
            ![m].held = table[key]]
      /\ table' = [table EXCEPT ![key] = 0] /\ buckets' = buckets
      /\ UNCHANGED <<clock, since, entries, file, throttled, answered, crossed,
                     slowest, events>>
  BY <1>1, <1>3 DEF DropPlaceholder
<1>5. x.ref \in Refs /\ x.commit \in Commits /\ x.call = Nothing
  BY ONLY <1>2, <1>4 DEF Staged, Window
<1>6. key \in CounterKey BY ONLY <1>3, <1>5 DEF CounterKey
<1>7. PICK h \in 0..Len(buckets) : h = table[key] BY ONLY <1>2, <1>6
<1>8. PICK p \in {"content", "merging"} : p = IF h = 0 THEN "content" ELSE "merging"
  OBVIOUS
<1>9. PICK r : r = [x EXCEPT !.pc = p, !.held = h] OBVIOUS
<1>10. mount' = [mount EXCEPT ![m] = r]
  BY ONLY <1>1, <1>2, <1>4, <1>7, <1>8, <1>9, x \in Mount DEF Mount
<1>11. /\ r \in Mount /\ r.pc = p /\ r.held = h /\ r.call = Nothing /\ r.ref = x.ref
       /\ r.commit = x.commit /\ r.spec = x.spec /\ r.asked = x.asked
       /\ r.looked = x.looked
  <2>1. h \in Nat BY ONLY <1>2, <1>7
  <2>2. x.call = Nothing BY ONLY <1>5
  <2> QED BY ONLY <1>8, <1>9, <2>1, <2>2, x \in Mount DEF Mount
<1>12. Grows /\ \A k \in CounterKey \ {key} : Keeps(k)
  BY ONLY <1>2, <1>4, <1>6, DropGrows
<1>13. MountTyped(r, Len(buckets')) BY ONLY <1>4, <1>7, <1>11 DEF MountTyped
<1>14. Staged(r, clock)
  BY ONLY <1>2, <1>5, <1>8, <1>11 DEF Staged
<1>15. Dated(r) BY ONLY <1>8, <1>11 DEF Dated
<1>16. Shown(r)'
  <2>1. ASSUME x.ref \notin crossed PROVE h # 0 /\ buckets[h].rest >= 1
    BY ONLY <1>2, <1>3, <1>4, <1>7, <2>1 DEF Shown
  <2>2. x.ref \notin crossed => p = "merging" BY ONLY <1>8, <2>1
  <2> QED BY ONLY <1>4, <1>11, <2>1, <2>2 DEF Shown
<1>17. RestTyped' BY ONLY <1>2, <1>4 DEF RestTyped
<1>18. /\ crossed \subseteq crossed'
       /\ UNCHANGED <<clock, since, entries, file, slowest>>
  BY ONLY <1>4
<1>19. mount[m].pc \in Window /\ mount[m].ref = r.ref
  BY ONLY <1>1, <1>4, <1>11 DEF Window
<1>20. \A k \in CounterKey :
          \/ Keeps(k)
          \/ mount[m].pc \in Window /\ k = <<mount[m].ref, Resolving>>
  BY ONLY <1>1, <1>3, <1>12, <1>19
<1> QED BY ONLY <1>10, <1>12, <1>13, <1>14, <1>15, <1>16, <1>17, <1>18, <1>19, <1>20,
                ProviderInv, m \in Mounts, TurnKeeps

\* merge_and_drop_placeholder, the addition: the request is shown from here.
LEMMA MergeStep ==
    ASSUME ProviderInv, NEW m \in Mounts, MergeIn(m)
    PROVE  ProviderInv'
<1>1. PICK x \in Mount : x = mount[m] BY Mover
<1>2. /\ RestTyped /\ RequestsTypeOK /\ mount \in [Mounts -> Mount]
      /\ Staged(x, clock) /\ Shown(x) /\ MountTyped(x, Len(buckets))
      /\ buckets \in Seq(MountCounters) /\ Len(buckets) \in Nat
  BY <1>1, Mover
<1>3. /\ x.pc = "merging"
      /\ mount' = [mount EXCEPT ![m].pc = "content", ![m].held = 0]
      /\ UNCHANGED <<clock, since, entries, file, throttled, answered, crossed,
                     slowest, events>>
  BY <1>1 DEF MergeIn
<1>4. x.ref \in Refs /\ x.commit \in Commits /\ x.call = Nothing /\ x.held # 0
  BY ONLY <1>2, <1>3 DEF Staged, Window
<1>5. PICK key : key = KeyOf(m) OBVIOUS
<1>6. key = <<x.ref, x.commit>> BY <1>1, <1>5 DEF KeyOf
<1>7. /\ Grows /\ \A k \in CounterKey : Keeps(k)
      /\ table'[key] \in 1..Len(buckets')
      /\ buckets'[table'[key]].rest >= buckets[x.held].rest
  BY ONLY <1>1, <1>2, <1>5, MergeGrows, MergeIn(m), m \in Mounts
<1>8. PICK r : r = [x EXCEPT !.pc = "content", !.held = 0] OBVIOUS
<1>9. mount' = [mount EXCEPT ![m] = r]
  BY ONLY <1>1, <1>2, <1>3, <1>8, x \in Mount DEF Mount
<1>10. /\ r \in Mount /\ r.pc = "content" /\ r.held = 0 /\ r.call = Nothing
       /\ r.ref = x.ref /\ r.commit = x.commit /\ r.asked = x.asked
       /\ r.looked = x.looked
  BY ONLY <1>4, <1>8, x \in Mount DEF Mount
<1>11. PICK b \in Nat : b = Len(buckets')
  <2>1. buckets' \in Seq(MountCounters) BY ONLY <1>7 DEF Grows
  <2> QED BY ONLY <2>1, LenProperties
<1>12. MountTyped(r, Len(buckets')) BY ONLY <1>10, <1>11 DEF MountTyped
<1>13. Staged(r, clock) BY ONLY <1>2, <1>4, <1>10 DEF Staged
<1>14. Dated(r) BY ONLY <1>10 DEF Dated
<1>15. Shown(r)'
  <2>1. ASSUME x.ref \notin crossed PROVE buckets[x.held].rest >= 1
    BY ONLY <1>2, <1>3, <2>1 DEF Shown
  <2>2. buckets[x.held].rest \in Nat /\ buckets'[table'[key]].rest \in Nat
    <3>1. x.held \in 1..Len(buckets) BY ONLY <1>2, <1>4 DEF MountTyped
    <3>2. buckets' \in Seq(MountCounters) BY ONLY <1>7 DEF Grows
    <3>3. buckets[x.held] \in MountCounters BY ONLY <1>2, <3>1, ElementOfSeq
    <3>4. buckets'[table'[key]] \in MountCounters
      BY ONLY <1>7, <3>2, ElementOfSeq
    <3> QED BY ONLY <3>3, <3>4 DEF MountCounters
  <2>3. table'[key] # 0 BY ONLY <1>7, <1>11
  <2>4. x.ref \notin crossed => buckets'[table'[key]].rest >= 1
    BY ONLY <1>7, <2>1, <2>2
  <2> QED BY ONLY <1>3, <1>6, <1>10, <2>3, <2>4 DEF Shown
<1>16. RestTyped' BY ONLY <1>2, <1>3 DEF RestTyped
<1>17. /\ crossed \subseteq crossed'
       /\ UNCHANGED <<clock, since, entries, file, slowest>>
  BY ONLY <1>3
<1>18. r.pc \notin Window BY ONLY <1>10 DEF Window
<1> QED BY ONLY <1>7, <1>9, <1>12, <1>13, <1>14, <1>15, <1>16, <1>17, <1>18,
                ProviderInv, m \in Mounts, TurnKeeps

-----------------------------------------------------------------------------
(* Requests: time, releases and restarts.                                  *)

\* Time goes on, and versions are released.
LEMMA TimeStep ==
    ASSUME ProviderInv, Tick \/ NewRelease
    PROVE  ProviderInv'
<1>1. /\ Typed /\ Dates /\ Shows /\ RestTyped /\ RequestsTypeOK /\ InOrder
      /\ mount \in [Mounts -> Mount]
      /\ \A n \in Mounts : Staged(mount[n], clock)
  BY TypeParts DEF ProviderInv, Typed
<1>2. UNCHANGED <<entries, file, mount, table, buckets, throttled, answered, crossed,
                  slowest, events>>
  BY DEF Tick, NewRelease, accounts
<1>3. clock \in Nat /\ MaxTime \in Nat /\ slowest \in Nat
  BY <1>1, ConstantTypes DEF RestTyped
<1>4. /\ RestTyped' /\ InOrder' /\ Elapses /\ clock' \in Nat /\ clock <= clock'
  <2>1. CASE Tick
    <3>1. clock < MaxTime /\ clock' = clock + 1 /\ since' = since BY <2>1 DEF Tick
    <3>2. clock' \in Times /\ clock' \in Nat /\ clock <= clock'
      BY ONLY <1>3, <3>1 DEF Times
    <3>3. RestTyped' BY ONLY <1>1, <1>2, <3>1, <3>2 DEF RestTyped
    <3>4. InOrder' BY ONLY <1>1, <3>1 DEF InOrder, Released
    <3>5. Elapses BY ONLY <1>2, <1>3, <3>1, <3>2 DEF Elapses
    <3> QED BY ONLY <3>2, <3>3, <3>4, <3>5
  <2>2. CASE NewRelease
    <3>1. RestTyped' /\ InOrder' BY ONLY <1>1, <2>2, ReleaseFollows
    <3>2. clock' = clock BY <2>2 DEF NewRelease
    <3> QED BY ONLY <1>2, <1>3, <2>2, <3>1, <3>2 DEF Elapses
  <2> QED BY <2>1, <2>2
<1>5. Typed'
  <2>1. RequestsTypeOK' BY ONLY <1>1, <1>2, <1>4 DEF RequestsTypeOK, RestTyped
  <2>2. ASSUME NEW n \in Mounts PROVE Staged(mount'[n], clock')
    <3>1. PICK x \in Mount : x = mount[n] BY ONLY <1>1
    <3>2. x.asked \in Nat /\ x.looked \in Nat BY ONLY x \in Mount, ConstantTypes DEF Mount
    <3>3. Staged(x, clock) BY ONLY <1>1, <3>1
    <3>4. Staged(x, clock') BY ONLY <1>3, <1>4, <3>2, <3>3 DEF Staged
    <3> QED BY ONLY <1>2, <3>1, <3>4
  <2> QED BY ONLY <1>4, <2>1, <2>2 DEF Typed
<1>6. Dates'
  <2>1. ASSUME NEW s \in Specs, NEW x, x # Nothing, x = entries[s] \/ x = file[s]
        PROVE  Worth(s, x)'
    <3>1. Worth(s, x) BY <1>1, <2>1 DEF Dates
    <3>2. x \in CachedResolution BY ONLY <1>1, <2>1 DEF RestTyped
    <3> QED BY ONLY <1>1, <1>4, <3>1, <3>2, WorthKept
  <2>2. ASSUME NEW s \in Specs
        PROVE  /\ entries'[s] # Nothing => Worth(s, entries[s])'
               /\ file'[s] # Nothing => Worth(s, file[s])'
    <3>1. PICK x, y : x = entries[s] /\ y = file[s] OBVIOUS
    <3>2. /\ x # Nothing => Worth(s, x)'
          /\ y # Nothing => Worth(s, y)'
      BY ONLY <2>1, <3>1, s \in Specs
    <3>3. x = entries'[s] /\ y = file'[s] BY ONLY <1>2, <3>1
    <3> QED BY ONLY <3>2, <3>3 DEF Worth, AsOf
  <2>3. ASSUME NEW n \in Mounts PROVE Dated(mount[n])'
    <3>1. PICK x \in Mount : x = mount[n] BY ONLY <1>1
    <3>2. Staged(x, clock) BY ONLY <1>1, <3>1
    <3>3. Dated(x) BY <1>1, <3>1 DEF Dates
    <3>4. Dated(x)' BY ONLY <1>1, <1>4, <3>2, <3>3, DatedKept
    <3>5. x = mount'[n] BY ONLY <1>2, <3>1
    <3> QED BY ONLY <3>4, <3>5 DEF Dated, AsOf
  <2> QED BY ONLY <2>2, <2>3 DEF Dates
<1>7. Shows' BY ONLY <1>1, <1>2 DEF Shows, Shown, Apart
<1> QED BY ONLY <1>5, <1>6, <1>7 DEF ProviderInv

\* Nothing has been asked yet, or not since the daemon came up.
LEMMA FreshAccounts ==
    ASSUME mount' = [m \in Mounts |-> NewMount], table' = [k \in CounterKey |-> 0],
           buckets' = <<>>, RestTyped', InOrder', clock' \in Nat
    PROVE  Typed' /\ Shows' /\ \A m \in Mounts : Dated(mount[m])'
<1>1. NewMount \in Mount BY ConstantTypes DEF NewMount, Mount
<1>2. Len(buckets') = 0 /\ buckets' \in Seq(MountCounters) BY EmptySeq
<1>3. table' \in [CounterKey -> 0..0] OBVIOUS
<1>4. MountTyped(NewMount, 0) BY <1>1 DEF MountTyped, NewMount
<1>5. \A m \in Mounts : mount'[m] = NewMount OBVIOUS
<1>6. RequestsTypeOK'
  BY <1>1, <1>2, <1>3, <1>4, <1>5 DEF RequestsTypeOK, RestTyped, MountTyped
<1>7. Staged(NewMount, clock')
  <2>1. 0 <= clock' OBVIOUS
  <2> QED BY <2>1 DEF Staged, NewMount, Window
<1>8. Typed' BY ONLY <1>5, <1>6, <1>7, InOrder' DEF Typed
<1>9. NewMount.pc \notin Window /\ NewMount.pc = "idle" BY DEF NewMount, Window
<1>10. Shows'
  BY ONLY <1>5, <1>9 DEF Shows, Shown, Apart
<1>11. \A m \in Mounts : Dated(mount[m])' BY ONLY <1>5, <1>9 DEF Dated
<1> QED BY ONLY <1>8, <1>10, <1>11

\* ResolutionCache::load: what the file says is worth as much as it was.
LEMMA RestartStep ==
    ASSUME ProviderInv, Restart
    PROVE  ProviderInv'
<1>1. /\ Typed /\ Dates /\ RestTyped /\ InOrder
  BY TypeParts DEF ProviderInv, Typed
<1>2. /\ mount' = [m \in Mounts |-> NewMount] /\ table' = [k \in CounterKey |-> 0]
      /\ buckets' = <<>> /\ throttled' = FALSE
      /\ answered' = [r \in Refs |-> NewCounters] /\ crossed' = {}
      /\ UNCHANGED <<clock, since, file, slowest>>
      /\ entries' \in {file, [s \in Specs |-> Nothing]}
      /\ events < MaxEvents /\ events' = events + 1
  BY DEF Restart
<1>3. RestTyped'
  <2>1. NewCounters \in MountCounters BY DEF NewCounters, MountCounters
  <2>2. answered' \in [Refs -> MountCounters] BY ONLY <1>2, <2>1
  <2>3. entries' \in [Specs -> CachedResolution \cup {Nothing}]
    BY ONLY <1>1, <1>2 DEF RestTyped
  <2>4. events' \in 0..MaxEvents BY ONLY <1>1, <1>2, ConstantTypes DEF RestTyped
  <2> QED BY ONLY <1>1, <1>2, <2>2, <2>3, <2>4 DEF RestTyped
<1>4. clock' \in Nat BY ONLY <1>1, <1>2, ConstantTypes DEF RestTyped
<1>5. InOrder' BY ONLY <1>1, <1>2 DEF InOrder, Released
<1>6. Typed' /\ Shows' /\ \A m \in Mounts : Dated(mount[m])'
  BY ONLY <1>2, <1>3, <1>4, <1>5, FreshAccounts
<1>7. \A s \in Specs : file[s] # Nothing => Worth(s, file[s]) BY <1>1 DEF Dates
<1>8. ASSUME NEW s \in Specs, NEW x, x # Nothing, x = file[s] PROVE Worth(s, x)'
  <2>1. Worth(s, x) BY ONLY <1>7, <1>8
  <2> QED BY ONLY <1>2, <2>1 DEF Worth, AsOf, Released, Last
<1>9. \A s \in Specs : file'[s] # Nothing => Worth(s, file[s])'
  <2> SUFFICES ASSUME NEW s \in Specs, file'[s] # Nothing PROVE Worth(s, file[s])'
    OBVIOUS
  <2>1. PICK x : x = file[s] /\ x = file'[s] BY ONLY <1>2
  <2>2. Worth(s, x)' BY ONLY <1>8, <2>1, file'[s] # Nothing, s \in Specs
  <2> QED BY ONLY <2>1, <2>2 DEF Worth, AsOf
<1>10. \A s \in Specs : entries'[s] # Nothing => Worth(s, entries[s])'
  <2> SUFFICES ASSUME NEW s \in Specs, entries'[s] # Nothing
               PROVE  Worth(s, entries[s])'
    OBVIOUS
  <2>1. entries' = file BY ONLY <1>2, entries'[s] # Nothing, s \in Specs
  <2>2. PICK x : x = file[s] /\ x = entries'[s] BY ONLY <2>1
  <2>3. Worth(s, x)' BY ONLY <1>8, <2>2, entries'[s] # Nothing, s \in Specs
  <2> QED BY ONLY <2>2, <2>3 DEF Worth, AsOf
<1> QED BY ONLY <1>6, <1>9, <1>10 DEF ProviderInv, Dates

\* The first state has it all.
LEMMA RequestsStart == RequestsInit => ProviderInv
<1> SUFFICES ASSUME RequestsInit PROVE ProviderInv OBVIOUS
<1> USE DEF RequestsInit
<1>1. NewMount \in Mount BY ConstantTypes DEF NewMount, Mount
<1>2. Len(buckets) = 0 /\ buckets \in Seq(MountCounters) BY EmptySeq
<1>3. MountTyped(NewMount, 0) BY <1>1 DEF MountTyped, NewMount
<1>4. NewCounters \in MountCounters BY DEF NewCounters, MountCounters
<1>5. RestTyped
  <2>1. since \in [Versions -> Times \cup {Nothing}] BY ConstantTypes
  <2>2. answered \in [Refs -> MountCounters] BY <1>4
  <2>3. /\ entries \in [Specs -> CachedResolution \cup {Nothing}]
        /\ file \in [Specs -> CachedResolution \cup {Nothing}]
    OBVIOUS
  <2>4. /\ clock \in Times /\ slowest \in Times /\ crossed \subseteq Refs
    BY ConstantTypes
  <2>5. throttled \in BOOLEAN BY ONLY throttled = FALSE
  <2>6. events \in 0..MaxEvents BY ONLY events = 0, ConstantTypes
  <2> QED BY ONLY <2>1, <2>2, <2>3, <2>4, <2>5, <2>6 DEF RestTyped
<1>6. RequestsTypeOK BY <1>1, <1>2, <1>3, <1>5, TypeParts
<1>7. Released = 1..1
  <2>1. Released = {1} BY ConstantTypes DEF Released
  <2> QED BY ONLY <2>1
<1>8. InOrder BY <1>7, ConstantTypes DEF InOrder
<1>9. Staged(NewMount, 0) BY DEF Staged, NewMount, Window
<1>10. Typed BY <1>6, <1>8, <1>9 DEF Typed
<1>11. Dates BY DEF Dates, Dated, NewMount
<1>12. Shows BY DEF Shows, Shown, Apart, NewMount, Window
<1> QED BY ONLY <1>10, <1>11, <1>12 DEF ProviderInv

\* Every step keeps it.
LEMMA RequestsStep == ProviderInv /\ [RequestsNext]_requestsVars => ProviderInv'
<1> SUFFICES ASSUME ProviderInv, [RequestsNext]_requestsVars PROVE ProviderInv'
  OBVIOUS
<1>1. CASE UNCHANGED requestsVars
  <2>1. Typed /\ Dates /\ Shows BY DEF ProviderInv
  <2>2. UNCHANGED <<clock, since, entries, file, mount, events, table, buckets,
                    throttled, answered, crossed, slowest>>
    BY <1>1 DEF requestsVars
  <2>3. Typed' BY ONLY <2>1, <2>2 DEF Typed, RequestsTypeOK, InOrder, Released
  <2>4. Dates' BY ONLY <2>1, <2>2 DEF Dates, Dated, Worth, AsOf, Released, Last
  <2>5. Shows' BY ONLY <2>1, <2>2 DEF Shows, Shown, Apart
  <2> QED BY ONLY <2>3, <2>4, <2>5 DEF ProviderInv
<1>2. ASSUME NEW m \in Mounts, \E s \in Specs : PrepareMount(m, s) PROVE ProviderInv'
  BY <1>2, PrepareStep
<1>3. ASSUME NEW m \in Mounts, RegistryFails(m) \/ SendFails(m) \/ Unmount(m)
      PROVE  ProviderInv'
  BY ONLY <1>3, ProviderInv, EndSteps
<1>4. ASSUME NEW m \in Mounts, ResolveLatest(m) PROVE ProviderInv'
  BY ONLY <1>4, ProviderInv, LatestStep
<1>5. ASSUME NEW m \in Mounts, ResolveNpm(m) \/ ResolvePyPI(m) \/ ResolveCrate(m)
      PROVE  ProviderInv'
  BY ONLY <1>5, ProviderInv, ResolveSteps
<1>6. ASSUME NEW m \in Mounts, Put(m) PROVE ProviderInv'
  BY ONLY <1>6, ProviderInv, PutStep
<1>7. ASSUME NEW m \in Mounts, GetJson(m) PROVE ProviderInv'
  BY ONLY <1>7, ProviderInv, GetJsonStep
<1>8. ASSUME NEW m \in Mounts, Record(m) PROVE ProviderInv'
  BY ONLY <1>8, ProviderInv, RecordStep
<1>9. ASSUME NEW m \in Mounts, Mark(m) PROVE ProviderInv'
  BY ONLY <1>9, ProviderInv, MarkStep
<1>10. ASSUME NEW m \in Mounts, RecordThrottle(m) PROVE ProviderInv'
  BY ONLY <1>10, ProviderInv, RecordThrottleStep
<1>11. ASSUME NEW m \in Mounts, DropPlaceholder(m) PROVE ProviderInv'
  BY ONLY <1>11, ProviderInv, DropStep
<1>12. ASSUME NEW m \in Mounts, MergeIn(m) PROVE ProviderInv'
  BY ONLY <1>12, ProviderInv, MergeStep
<1>13. CASE Tick \/ NewRelease BY ONLY <1>13, ProviderInv, TimeStep
<1>14. CASE Restart BY ONLY <1>14, ProviderInv, RestartStep
<1> QED BY ONLY <1>1, <1>2, <1>3, <1>4, <1>5, <1>6, <1>7, <1>8, <1>9, <1>10, <1>11,
                <1>12, <1>13, <1>14, [RequestsNext]_requestsVars DEF RequestsNext

-----------------------------------------------------------------------------
\* Every value stays of its type, and every bucket referred to exists.
THEOREM RequestsTypeCorrect == RequestsSpec => []RequestsTypeOK
<1>1. ProviderInv => RequestsTypeOK BY DEF ProviderInv, Typed
<1> QED BY <1>1, RequestsStart, RequestsStep, PTL DEF RequestsSpec

\* A mount past the resolution of its ref is in the status report under its
\* commit, its resolve_ref call included.
THEOREM ResolvesCorrect == RequestsSpec => []ResolvesAreShown
<1>1. ASSUME ProviderInv PROVE ResolvesAreShown
  <2> SUFFICES ASSUME NEW m \in Mounts, mount[m].pc = "content",
                      mount[m].ref \notin crossed
               PROVE  /\ KeyOf(m) \in StatusMounts
                      /\ buckets[table[KeyOf(m)]].rest >= 1
    BY DEF ResolvesAreShown
  <2>1. PICK x \in Mount : x = mount[m] BY <1>1, Mover
  <2>2. Staged(x, clock) /\ Shown(x) BY <1>1, <2>1, Mover
  <2>3. x.pc = "content" /\ x.ref \notin crossed BY <2>1
  <2>4. /\ x.ref \in Refs /\ x.commit \in Commits
        /\ table[<<x.ref, x.commit>>] # 0
        /\ buckets[table[<<x.ref, x.commit>>]].rest >= 1
    BY ONLY <2>2, <2>3 DEF Staged, Shown
  <2>5. KeyOf(m) = <<x.ref, x.commit>> BY <2>1 DEF KeyOf
  <2>6. x.commit # Resolving
    BY ONLY <2>4, ConstantTypes DEF Commits, Versions, Resolving
  <2>7. KeyOf(m) \in StatusMounts
    BY ONLY <2>4, <2>5, <2>6 DEF StatusMounts, CounterKey
  <2> QED BY ONLY <2>4, <2>5, <2>7
<1> QED BY <1>1, RequestsStart, RequestsStep, PTL DEF RequestsSpec

\* A pinned package is mounted at its version, one mounted as latest at one
\* that was the latest within the TTL and the slowest resolution.
THEOREM VersionsCorrect == RequestsSpec => []VersionsAreRight
<1>1. ASSUME ProviderInv PROVE VersionsAreRight
  <2> SUFFICES ASSUME NEW m \in Mounts, NEW x \in Mount, x = mount[m],
                      x.pc \in {"put", "resolving"}, x.spec.provider # "github"
               PROVE  IF IsLatest(x.spec)
                      THEN /\ x.version \in Released
                           /\ \/ x.version = Last
                              \/ since[x.version + 1] + TTL + slowest >= x.looked
                      ELSE x.version = x.spec.version
    BY <1>1, Mover DEF VersionsAreRight
  <2>1. Dated(x) /\ RestTyped /\ InOrder BY <1>1, Mover
  <2>2. CASE ~IsLatest(x.spec) BY <2>1, <2>2 DEF Dated
  <2>3. CASE IsLatest(x.spec)
    <3>1. PICK v : v = x.version OBVIOUS
    <3>2. PICK t \in Nat, u \in Nat : t = x.asked /\ u = x.looked
      BY ConstantTypes DEF Mount
    <3>3. PICK a \in Nat, b \in Nat : a = TTL /\ b = slowest
      BY <2>1, ConstantTypes DEF RestTyped
    <3>4. \/ AsOf(v, u, a + b)
          \/ (AsOf(v, t, 0) /\ u <= t)
      BY <2>1, <2>3, <3>1, <3>2, <3>3 DEF Dated
    <3>5. v \in Released BY ONLY <3>4 DEF AsOf
    <3>6. ASSUME v # Last PROVE since[v + 1] + a + b >= u
      <4>1. v + 1 \in Released
        <5>1. PICK k \in Versions : k = Last /\ Released = 1..k
          BY ONLY <2>1, LastIsOut
        <5>2. k \in Nat BY ONLY <5>1, ConstantTypes
        <5> QED BY ONLY <5>1, <5>2, <3>5, <3>6
      <4>2. PICK c \in Nat : c = since[v + 1]
        BY ONLY <2>1, <4>1, ConstantTypes DEF RestTyped, Released
      <4>3. c + (a + b) >= u \/ (c + 0 >= t /\ u <= t)
        BY ONLY <3>4, <3>6, <4>2 DEF AsOf
      <4>4. c + a + b >= u BY ONLY <4>3, c \in Nat, a \in Nat, b \in Nat,
                                   t \in Nat, u \in Nat
      <4> QED BY ONLY <4>2, <4>4
    <3> QED BY ONLY <2>3, <3>1, <3>2, <3>3, <3>5, <3>6
  <2> QED BY ONLY <2>2, <2>3
<1> QED BY <1>1, RequestsStart, RequestsStep, PTL DEF RequestsSpec

-----------------------------------------------------------------------------
(* Requests: sums of counters.                                             *)

\* The counts of some buckets, numbered.
Counts(bs, S, field) == UNION {{b} \X (1..bs[b][field]) : b \in S}

\* Buckets whose counters are numbers.
Sums(bs, S, field) == IsFiniteSet(S) /\ \A b \in S : bs[b][field] \in Nat

\* A sum over finitely many buckets is a number.
LEMMA TotalType ==
    ASSUME NEW bs, NEW S, NEW field, Sums(bs, S, field)
    PROVE  IsFiniteSet(Counts(bs, S, field)) /\ Total(bs, S, field) \in Nat
<1> DEFINE col == [b \in S |-> {b} \X (1..bs[b][field])]
           Cols == {{b} \X (1..bs[b][field]) : b \in S}
<1>1. col \in Surjection(S, Cols)
  BY DEF Surjection
<1>2. IsFiniteSet(S) BY DEF Sums
<1>3. IsFiniteSet(Cols)
  <2> HIDE DEF col, Cols
  <2> QED BY ONLY <1>1, <1>2, FS_Surjection
<1>4. \A T \in Cols : IsFiniteSet(T)
  <2> SUFFICES ASSUME NEW b \in S PROVE IsFiniteSet({b} \X (1..bs[b][field]))
    OBVIOUS
  <2>1. bs[b][field] \in Int BY DEF Sums
  <2>2. PICK n \in Int : n = bs[b][field] BY ONLY <2>1
  <2>3. IsFiniteSet(1..n) BY ONLY n \in Int, FS_Interval
  <2>4. IsFiniteSet({b}) BY ONLY FS_Singleton
  <2>5. IsFiniteSet({b} \X (1..n)) BY ONLY <2>3, <2>4, FS_Product
  <2> QED BY ONLY <2>2, <2>5
<1>5. IsFiniteSet(UNION Cols)
  <2> HIDE DEF Cols
  <2> QED BY ONLY <1>3, <1>4, FS_UNION
<1>6. Counts(bs, S, field) = UNION Cols BY ONLY DEF Counts
<1>7. Total(bs, S, field) = Cardinality(UNION Cols) BY ONLY DEF Total
<1> HIDE DEF Cols
<1> QED BY ONLY <1>5, <1>6, <1>7, FS_CardinalityType

\* A sum depends only on the counters it adds.
LEMMA TotalSame ==
    ASSUME NEW bs, NEW cs, NEW S, NEW field, \A b \in S : bs[b][field] = cs[b][field]
    PROVE  Total(bs, S, field) = Total(cs, S, field)
<1>1. {{b} \X (1..bs[b][field]) : b \in S} = {{b} \X (1..cs[b][field]) : b \in S}
  OBVIOUS
<1> QED BY ONLY <1>1 DEF Total

\* A bucket that is not among them, and may join them.
Joins(bs, S, field, y) == y \notin S /\ Sums(bs, S, field) /\ bs[y][field] \in Nat

\* One bucket more adds what it has counted.
LEMMA TotalAdd ==
    ASSUME NEW bs, NEW S, NEW field, NEW y, Joins(bs, S, field, y)
    PROVE  Total(bs, S \cup {y}, field) = Total(bs, S, field) + bs[y][field]
<1>0. y \notin S /\ Sums(bs, S, field) BY DEF Joins
<1>1. PICK n \in Nat : n = bs[y][field] BY DEF Joins
<1>2. PICK A, C : A = Counts(bs, S, field) /\ C = {y} \X (1..n) OBVIOUS
<1>3. Counts(bs, S \cup {y}, field) = A \cup C
  BY ONLY <1>1, <1>2 DEF Counts
<1>4. A \cap C = {}
  <2> SUFFICES ASSUME NEW p \in A, p \in C PROVE FALSE
    OBVIOUS
  <2>1. PICK x \in S : p \in {x} \X (1..bs[x][field])
    BY ONLY <1>2, p \in A DEF Counts
  <2>2. p[1] = x /\ p[1] = y
    BY ONLY <1>2, <2>1, p \in C
  <2> QED BY ONLY <2>1, <2>2, <1>0
<1>5. IsFiniteSet(A) /\ Cardinality(A) \in Nat /\ Cardinality(A) = Total(bs, S, field)
  <2>1. IsFiniteSet(A) BY ONLY <1>0, <1>2, TotalType
  <2>2. Cardinality(A) = Total(bs, S, field) BY ONLY <1>2 DEF Counts, Total
  <2> QED BY ONLY <2>1, <2>2, FS_CardinalityType
<1>6. IsFiniteSet(C) /\ Cardinality(C) = n
  <2>1. n \in Int /\ 1 \in Int BY ONLY n \in Nat
  <2>2. /\ IsFiniteSet(1..n)
        /\ Cardinality(1..n) = IF 1 > n THEN 0 ELSE n - 1 + 1
    BY ONLY <2>1, FS_Interval
  <2>3. Cardinality(1..n) = n BY ONLY <2>2, n \in Nat
  <2>4. IsFiniteSet({y}) /\ Cardinality({y}) = 1 BY ONLY FS_Singleton
  <2>5. PICK T : T = 1..n OBVIOUS
  <2>6. IsFiniteSet(T) /\ Cardinality(T) = n BY ONLY <2>2, <2>3, <2>5
  <2>7. /\ IsFiniteSet({y} \X T)
        /\ Cardinality({y} \X T) = Cardinality({y}) * Cardinality(T)
    BY ONLY <2>4, <2>6, FS_Product
  <2>8. 1 * n = n BY ONLY n \in Nat
  <2> QED BY ONLY <1>2, <2>4, <2>5, <2>6, <2>7, <2>8
<1>7. /\ Cardinality(A \cup C) = Cardinality(A) + Cardinality(C) - Cardinality(A \cap C)
      /\ Cardinality({}) = 0
  BY ONLY <1>5, <1>6, FS_Union, FS_EmptySet
<1>8. Cardinality(A \cup C) = Total(bs, S, field) + n
  <2>1. PICK a \in Nat : a = Cardinality(A) BY ONLY <1>5
  <2>2. Cardinality(A \cap C) = 0 BY ONLY <1>4, <1>7
  <2>3. PICK d : d = Cardinality(A \cup C) OBVIOUS
  <2>4. d = a + n - 0 BY ONLY <1>6, <1>7, <2>1, <2>2, <2>3
  <2>5. d = a + n BY ONLY <2>4, a \in Nat, n \in Nat
  <2> QED BY ONLY <1>5, <2>1, <2>3, <2>5
<1>9. Total(bs, S \cup {y}, field) = Cardinality(Counts(bs, S \cup {y}, field))
  BY ONLY DEF Counts, Total
<1> QED BY ONLY <1>1, <1>3, <1>8, <1>9

\* One bucket less takes out what it has counted.
LEMMA TotalRemove ==
    ASSUME NEW bs, NEW S, NEW field, NEW y \in S, Sums(bs, S, field)
    PROVE  /\ Sums(bs, S \ {y}, field)
           /\ Total(bs, S \ {y}, field) \in Nat /\ bs[y][field] \in Nat
           /\ Total(bs, S, field) = Total(bs, S \ {y}, field) + bs[y][field]
<1>1. PICK R : R = S \ {y} OBVIOUS
<1>2. y \notin R /\ R \cup {y} = S BY ONLY <1>1, y \in S
<1>3. IsFiniteSet(S) /\ bs[y][field] \in Nat /\ \A b \in S : bs[b][field] \in Nat
  BY DEF Sums
<1>4. IsFiniteSet(R) BY ONLY <1>1, <1>3, FS_RemoveElement
<1>5. Sums(bs, R, field) BY ONLY <1>1, <1>3, <1>4 DEF Sums
<1>6. Total(bs, R, field) \in Nat BY ONLY <1>5, TotalType
<1>7. Total(bs, R \cup {y}, field) = Total(bs, R, field) + bs[y][field]
  <2>1. Joins(bs, R, field, y) BY ONLY <1>2, <1>3, <1>5 DEF Joins
  <2> QED BY ONLY <2>1, TotalAdd
<1> QED BY ONLY <1>1, <1>2, <1>3, <1>5, <1>6, <1>7

\* One bucket counts on.
LEMMA TotalChange ==
    ASSUME NEW bs, NEW cs, NEW S, NEW field, NEW y \in S, Sums(bs, S, field),
           cs[y][field] \in Nat,
           \A b \in S \ {y} : cs[b][field] = bs[b][field]
    PROVE  /\ Sums(cs, S, field)
           /\ Total(cs, S, field) + bs[y][field] = Total(bs, S, field) + cs[y][field]
<1>1. PICK R : R = S \ {y} OBVIOUS
<1>2. Sums(cs, S, field) BY DEF Sums
<1>3. /\ Total(bs, R, field) \in Nat /\ bs[y][field] \in Nat
      /\ Total(bs, S, field) = Total(bs, R, field) + bs[y][field]
  BY ONLY <1>1, y \in S, Sums(bs, S, field), TotalRemove
<1>4. Total(cs, S, field) = Total(cs, R, field) + cs[y][field]
  BY ONLY <1>1, <1>2, y \in S, TotalRemove
<1>5. Total(cs, R, field) = Total(bs, R, field)
  BY ONLY <1>1, \A b \in S \ {y} : cs[b][field] = bs[b][field], TotalSame
<1>6. PICK t \in Nat, u \in Nat, v \in Nat :
         t = Total(bs, R, field) /\ u = bs[y][field] /\ v = cs[y][field]
  BY ONLY <1>3, cs[y][field] \in Nat
<1>7. Total(cs, S, field) = t + v /\ Total(bs, S, field) = t + u
  BY ONLY <1>3, <1>4, <1>5, <1>6
<1>8. (t + v) + u = (t + u) + v BY ONLY t \in Nat, u \in Nat, v \in Nat
<1> QED BY ONLY <1>2, <1>6, <1>7, <1>8

-----------------------------------------------------------------------------
(* Requests: whose a bucket is.                                            *)

\* A bucket is in the table once, or it is folded in by one request.
OneKey == \A j, k \in CounterKey : table[j] # 0 /\ table[j] = table[k] => j = k

Merging(x) == x.pc = "merging"

OneFold == \A m, n \in Mounts :
              Merging(mount[m]) /\ Merging(mount[n]) /\ mount[m].held = mount[n].held
                 => m = n

Removed == \A m \in Mounts : Merging(mount[m]) =>
              \A k \in CounterKey : table[k] # mount[m].held

\* The bucket that a request is about to add to is no other ref's, and that
\* of a request for content is its key's.
CallOf(x) == x.call # Nothing =>
    /\ \A k \in CounterKey : table[k] = x.call.bucket => k[1] = x.ref
    /\ \A n \in Mounts : Merging(mount[n]) /\ mount[n].held = x.call.bucket
                            => mount[n].ref = x.ref
    /\ x.pc = "content" => table[<<x.ref, x.commit>>] = x.call.bucket

Owned == /\ OneKey /\ OneFold /\ Removed
         /\ \A m \in Mounts : CallOf(mount[m])

\* A request that starts to fold a bucket in has taken it out of the table.
Takes(y) == Merging(y) =>
    \E k \in CounterKey : /\ k[1] = y.ref /\ y.held = table[k]
                          /\ table[k] # 0 /\ table'[k] = 0

\* A step's table: one key may have a new bucket, and a placeholder may go.
Rekeys(key) == \A k \in CounterKey :
    /\ \/ table'[k] \in {0, table[k]}
       \/ k = key /\ table'[k] = Len(buckets) + 1
    /\ k[2] # Resolving => Keeps(k)

\* The other requests' calls are still their refs'.
LEMMA CallsOwned ==
    ASSUME RequestsTypeOK, \A n \in Mounts : Staged(mount[n], clock), Owned,
           NEW m \in Mounts, NEW y, mount' = [mount EXCEPT ![m] = y], Takes(y),
           NEW key \in CounterKey, Rekeys(key),
           NEW n \in Mounts, n # m
    PROVE  CallOf(mount[n])'
<1>1. PICK x \in Mount : x = mount[n] BY DEF RequestsTypeOK
<1>2. PICK len : len = Len(buckets) OBVIOUS
<1>3. /\ len \in Nat /\ MountTyped(x, len) /\ Staged(x, clock)
      /\ mount \in [Mounts -> Mount]
  <2>1. buckets \in Seq(MountCounters) BY DEF RequestsTypeOK
  <2>2. MountTyped(x, len) /\ mount \in [Mounts -> Mount] BY <1>1, <1>2, TypeParts
  <2> QED BY ONLY <1>1, <1>2, <2>1, <2>2, LenProperties,
                  \A n_1 \in Mounts : Staged(mount[n_1], clock), n \in Mounts
<1>4. \A i \in Mounts : mount'[i] = IF i = m THEN y ELSE mount[i]
  BY ONLY <1>3, mount' = [mount EXCEPT ![m] = y], m \in Mounts
<1>5. mount'[n] = x BY ONLY <1>1, <1>4, n \in Mounts, n # m
<1> SUFFICES ASSUME x.call # Nothing PROVE CallOf(x)'
  BY <1>5 DEF CallOf
<1>6. PICK b : b = x.call.bucket OBVIOUS
<1>7. b \in 1..len /\ b # 0 /\ b # len + 1
  BY ONLY <1>3, <1>6, x.call # Nothing DEF MountTyped
<1>8. /\ \A k \in CounterKey : table[k] = b => k[1] = x.ref
      /\ \A i \in Mounts : Merging(mount[i]) /\ mount[i].held = b => mount[i].ref = x.ref
      /\ x.pc = "content" => table[<<x.ref, x.commit>>] = b
  <2>1. CallOf(x) BY <1>1 DEF Owned
  <2> QED BY ONLY <1>6, <2>1, x.call # Nothing DEF CallOf
<1>9. ASSUME NEW k \in CounterKey, table'[k] = b PROVE k[1] = x.ref
  <2>1. table'[k] = table[k] BY ONLY <1>2, <1>7, <1>9, Rekeys(key) DEF Rekeys
  <2> QED BY ONLY <1>8, <1>9, <2>1
<1>10. ASSUME NEW i \in Mounts, Merging(mount'[i]), mount'[i].held = b
       PROVE  mount'[i].ref = x.ref
  <2>1. CASE i = m
    <3>1. mount'[i] = y BY ONLY <1>4, <2>1
    <3>2. Merging(y) /\ y.held = b BY ONLY <1>10, <3>1
    <3>3. PICK k \in CounterKey : k[1] = y.ref /\ y.held = table[k]
      BY ONLY <3>2, Takes(y) DEF Takes
    <3> QED BY ONLY <1>8, <3>1, <3>2, <3>3
  <2>2. CASE i # m
    <3>1. mount'[i] = mount[i] BY ONLY <1>4, <2>2
    <3> QED BY ONLY <1>8, <1>10, <3>1
  <2> QED BY ONLY <2>1, <2>2
<1>11. ASSUME x.pc = "content" PROVE table'[<<x.ref, x.commit>>] = b
  <2>1. x.ref \in Refs /\ x.commit \in Commits BY ONLY <1>3, <1>11 DEF Staged
  <2>2. PICK k : k = <<x.ref, x.commit>> OBVIOUS
  <2>3. k \in CounterKey /\ k[2] # Resolving
    BY ONLY <2>1, <2>2 DEF CounterKey, Commits, Versions, Resolving
  <2>4. table[k] = b BY ONLY <1>8, <1>11, <2>2
  <2>5. Keeps(k) BY ONLY <2>3, Rekeys(key) DEF Rekeys
  <2> QED BY ONLY <1>7, <2>2, <2>4, <2>5 DEF Keeps
<1> QED BY ONLY <1>6, <1>9, <1>10, <1>11 DEF CallOf

\* One request moves: at most one bucket is new, and one leaves the table.
LEMMA TurnOwned ==
    ASSUME RequestsTypeOK, \A n \in Mounts : Staged(mount[n], clock), Owned,
           NEW m \in Mounts, NEW y, mount' = [mount EXCEPT ![m] = y], Takes(y), CallOf(y)',
           NEW key \in CounterKey, Rekeys(key)
    PROVE  Owned'
<1>1. PICK len : len = Len(buckets) OBVIOUS
<1>2. /\ len \in Nat /\ mount \in [Mounts -> Mount]
      /\ \A k \in CounterKey : table[k] \in 0..len
      /\ \A n \in Mounts : mount[n].held \in 0..len
  <2>1. buckets \in Seq(MountCounters) BY DEF RequestsTypeOK
  <2> QED BY <1>1, <2>1, LenProperties DEF RequestsTypeOK
<1>3. \A i \in Mounts : mount'[i] = IF i = m THEN y ELSE mount[i]
  BY ONLY <1>2, mount' = [mount EXCEPT ![m] = y], m \in Mounts
<1>4. OneKey /\ OneFold /\ Removed BY DEF Owned
<1>5. \A k \in CounterKey : \/ table'[k] \in {0, table[k]}
                            \/ k = key /\ table'[k] = len + 1
  BY ONLY <1>1, Rekeys(key) DEF Rekeys
<1>6. OneKey'
  <2> SUFFICES ASSUME NEW j \in CounterKey, NEW k \in CounterKey,
                      table'[j] # 0, table'[j] = table'[k]
               PROVE  j = k
    BY DEF OneKey
  <2>1. CASE table'[j] = len + 1
    <3>1. table[j] # len + 1 /\ table[k] # len + 1 BY ONLY <1>2
    <3>2. j = key BY ONLY <1>5, <2>1, <3>1, table'[j] # 0
    <3>3. k = key BY ONLY <1>5, <2>1, <3>1, table'[j] # 0, table'[j] = table'[k]
    <3> QED BY ONLY <3>2, <3>3
  <2>2. CASE table'[j] # len + 1
    <3>1. table'[j] = table[j] /\ table'[k] = table[k]
      BY ONLY <1>5, <2>2, table'[j] # 0, table'[j] = table'[k]
    <3> QED BY ONLY <1>4, <3>1, table'[j] # 0, table'[j] = table'[k] DEF OneKey
  <2> QED BY ONLY <2>1, <2>2
<1>7. ASSUME Merging(y), NEW i \in Mounts, i # m, Merging(mount[i])
      PROVE  y.held # mount[i].held
  <2>1. PICK k \in CounterKey : y.held = table[k] BY <1>7 DEF Takes
  <2>2. table[k] # mount[i].held BY ONLY <1>4, <1>7 DEF Removed
  <2> QED BY ONLY <2>1, <2>2
<1>8. OneFold'
  <2> SUFFICES ASSUME NEW i \in Mounts, NEW j \in Mounts, i # j,
                      Merging(mount'[i]), Merging(mount'[j]),
                      mount'[i].held = mount'[j].held
               PROVE  FALSE
    BY DEF OneFold
  <2>1. CASE i = m
    <3>1. mount'[i] = y /\ mount'[j] = mount[j] BY ONLY <1>3, <2>1, i # j
    <3>2. j # m BY ONLY <2>1, i # j
    <3> QED BY ONLY <1>7, <3>1, <3>2, Merging(mount'[i]), Merging(mount'[j]),
                    mount'[i].held = mount'[j].held
  <2>2. CASE j = m
    <3>1. mount'[j] = y /\ mount'[i] = mount[i] BY ONLY <1>3, <2>2, i # j
    <3>2. i # m BY ONLY <2>2, i # j
    <3> QED BY ONLY <1>7, <3>1, <3>2, Merging(mount'[i]), Merging(mount'[j]),
                    mount'[i].held = mount'[j].held
  <2>3. CASE i # m /\ j # m
    <3>1. mount'[j] = mount[j] /\ mount'[i] = mount[i] BY ONLY <1>3, <2>3
    <3> QED BY ONLY <1>4, <3>1, Merging(mount'[i]), Merging(mount'[j]), i # j,
                    mount'[i].held = mount'[j].held DEF OneFold
  <2> QED BY ONLY <2>1, <2>2, <2>3
<1>9. Removed'
  <2> SUFFICES ASSUME NEW i \in Mounts, Merging(mount'[i]), NEW k \in CounterKey,
                      table'[k] = mount'[i].held
               PROVE  FALSE
    BY DEF Removed
  <2>1. CASE i = m
    <3>1. mount'[i] = y BY ONLY <1>3, <2>1
    <3>2. Merging(y) BY ONLY <3>1, Merging(mount'[i])
    <3>3. PICK j \in CounterKey : y.held = table[j] /\ table[j] # 0 /\ table'[j] = 0
      BY ONLY <3>2, Takes(y) DEF Takes
    <3>4. table'[k] = table[j] BY ONLY <3>1, <3>3, table'[k] = mount'[i].held
    <3>5. table[j] # len + 1 BY ONLY <1>2
    <3>6. table'[k] = table[k] BY ONLY <1>5, <3>3, <3>4, <3>5
    <3>7. j = k BY ONLY <1>4, <3>3, <3>4, <3>6 DEF OneKey
    <3> QED BY ONLY <3>3, <3>4, <3>7
  <2>2. CASE i # m
    <3>1. PICK x : x = mount[i] OBVIOUS
    <3>2. mount'[i] = x BY ONLY <1>3, <2>2, <3>1
    <3>3. x.held # 0 /\ x.held # len + 1
      <4>1. Staged(x, clock) /\ x.held \in 0..len BY <1>2, <3>1
      <4>2. x.pc = "merging" BY ONLY <3>2, Merging(mount'[i]) DEF Merging
      <4> QED BY ONLY <1>2, <4>1, <4>2 DEF Staged
    <3>4. table'[k] = table[k] BY ONLY <1>5, <3>2, <3>3, table'[k] = mount'[i].held
    <3>5. Merging(mount[i]) BY ONLY <3>1, <3>2, Merging(mount'[i])
    <3> QED BY ONLY <1>4, <3>1, <3>2, <3>4, <3>5, table'[k] = mount'[i].held DEF Removed
  <2> QED BY ONLY <2>1, <2>2
<1>10. ASSUME NEW n \in Mounts PROVE CallOf(mount[n])'
  <2>1. CASE n = m
    <3>1. mount'[n] = y BY ONLY <1>3, <2>1
    <3> QED BY ONLY <3>1, CallOf(y)' DEF CallOf
  <2>2. CASE n # m BY <2>2, CallsOwned
  <2> QED BY ONLY <2>1, <2>2
<1> QED BY ONLY <1>6, <1>8, <1>9, <1>10 DEF Owned

-----------------------------------------------------------------------------
(* Requests: the buckets of a ref and the answers due to them.             *)

\* A ref's buckets are in the table under its keys, or folded in by its
\* requests.
LEMMA InBuckets ==
    ASSUME NEW r \in Refs, NEW b
    PROVE  b \in BucketsOf(r) <=>
              \/ b # 0 /\ \E k \in CounterKey : k[1] = r /\ table[k] = b
              \/ \E n \in Mounts : /\ mount[n].ref = r /\ Merging(mount[n])
                                   /\ mount[n].held = b
<1>1. ASSUME NEW k \in CounterKey, k[1] = r
      PROVE  \E c \in Commits \cup {Resolving} : k = <<r, c>>
  BY ONLY <1>1 DEF CounterKey
<1>2. \A c \in Commits \cup {Resolving} : <<r, c>> \in CounterKey /\ <<r, c>>[1] = r
  BY ONLY r \in Refs DEF CounterKey
<1>3. b \in InTable(r) <=> b # 0 /\ \E c \in Commits \cup {Resolving} : table[<<r, c>>] = b
  BY ONLY DEF InTable
<1>4. b \in InTable(r) <=> b # 0 /\ \E k \in CounterKey : k[1] = r /\ table[k] = b
  BY ONLY <1>1, <1>2, <1>3
<1>5. b \in Folding(r) <=> \E n \in Mounts : /\ mount[n].ref = r /\ Merging(mount[n])
                                             /\ mount[n].held = b
  BY ONLY DEF Folding, Merging
<1> QED BY ONLY <1>4, <1>5 DEF BucketsOf

\* They are buckets, and have been counted in.
LEMMA BucketsAre ==
    ASSUME ProviderInv, NEW r \in Refs, NEW field \in {"rest", "throttles"}
    PROVE  /\ BucketsOf(r) \subseteq 1..Len(buckets)
           /\ Sums(buckets, BucketsOf(r), field)
<1>1. RequestsTypeOK /\ \A n \in Mounts : Staged(mount[n], clock)
  BY DEF ProviderInv, Typed
<1>2. PICK len : len = Len(buckets) OBVIOUS
<1>3. /\ len \in Nat /\ buckets \in Seq(MountCounters)
      /\ \A k \in CounterKey : table[k] \in 0..len
      /\ \A n \in Mounts : mount[n].held \in 0..len
  <2>1. buckets \in Seq(MountCounters) BY <1>1 DEF RequestsTypeOK
  <2> QED BY <1>1, <1>2, <2>1, LenProperties DEF RequestsTypeOK
<1>4. ASSUME NEW b \in BucketsOf(r) PROVE b \in 1..len
  <2>1. CASE b # 0 /\ \E k \in CounterKey : k[1] = r /\ table[k] = b
    BY ONLY <1>3, <2>1
  <2>2. CASE \E n \in Mounts : Merging(mount[n]) /\ mount[n].held = b
    <3>1. PICK n \in Mounts : Merging(mount[n]) /\ mount[n].held = b BY ONLY <2>2
    <3>2. PICK x : x = mount[n] OBVIOUS
    <3>3. x.held # 0 BY ONLY <1>1, <3>1, <3>2 DEF Staged, Merging
    <3> QED BY ONLY <1>3, <3>1, <3>2, <3>3
  <2> QED BY ONLY <1>4, <2>1, <2>2, InBuckets, r \in Refs
<1>5. IsFiniteSet(1..len)
  <2>1. 1 \in Int /\ len \in Int BY ONLY <1>3
  <2> QED BY ONLY <2>1, FS_Interval
<1>6. PICK S : S = BucketsOf(r) OBVIOUS
<1>7. S \in SUBSET (1..len) BY ONLY <1>4, <1>6
<1>8. IsFiniteSet(S) BY ONLY <1>5, <1>7, FS_Subset
<1>9. \A b \in 1..len : buckets[b] \in MountCounters
  BY ONLY <1>2, <1>3, ElementOfSeq
<1>10. \A b \in 1..len : buckets[b][field] \in Nat
  BY ONLY <1>9, field \in {"rest", "throttles"} DEF MountCounters
<1>11. Sums(buckets, S, field) BY ONLY <1>7, <1>8, <1>10 DEF Sums
<1> QED BY ONLY <1>2, <1>6, <1>7, <1>11

\* What a request that was x and is y owed and owes, and all of them do.
DueMoves(x, y) == \A r \in Refs : \A field \in {"rest", "throttles"} :
    /\ (Owes(x, r, field) <=> Owes(y, r, field)) =>
          Cardinality(Due(r, field)') = Cardinality(Due(r, field))
    /\ ~Owes(x, r, field) /\ Owes(y, r, field) =>
          Cardinality(Due(r, field)') = Cardinality(Due(r, field)) + 1
    /\ Owes(x, r, field) /\ ~Owes(y, r, field) =>
          Cardinality(Due(r, field)) = Cardinality(Due(r, field)') + 1
    /\ Cardinality(Due(r, field)') \in Nat

\* One request moves: it comes to owe an answer, or owes it no longer.
LEMMA DueTurn ==
    ASSUME mount \in [Mounts -> Mount], NEW m \in Mounts, NEW x, x = mount[m], NEW y,
           mount' = [mount EXCEPT ![m] = y]
    PROVE  DueMoves(x, y)
<1> SUFFICES ASSUME NEW r \in Refs, NEW field \in {"rest", "throttles"}
             PROVE  /\ (Owes(x, r, field) <=> Owes(y, r, field)) =>
                          Cardinality(Due(r, field)') = Cardinality(Due(r, field))
                    /\ ~Owes(x, r, field) /\ Owes(y, r, field) =>
                          Cardinality(Due(r, field)') = Cardinality(Due(r, field)) + 1
                    /\ Owes(x, r, field) /\ ~Owes(y, r, field) =>
                          Cardinality(Due(r, field)) = Cardinality(Due(r, field)') + 1
                    /\ Cardinality(Due(r, field)') \in Nat
  BY DEF DueMoves
<1>1. x = mount[m] OBVIOUS
<1>2. PICK D, E : D = Due(r, field) /\ E = Due(r, field)' OBVIOUS
<1>3. \A i \in Mounts : mount'[i] = IF i = m THEN y ELSE mount[i]
  BY ONLY mount \in [Mounts -> Mount], mount' = [mount EXCEPT ![m] = y], m \in Mounts
<1>4. /\ D \subseteq Mounts /\ E \subseteq Mounts
      /\ \A i \in Mounts : i \in D <=> Owes(mount[i], r, field)
      /\ \A i \in Mounts : i \in E <=> Owes(mount'[i], r, field)
  BY ONLY <1>2 DEF Due, Owes
<1>5. /\ \A i \in Mounts \ {m} : i \in D <=> i \in E
      /\ m \in D <=> Owes(x, r, field)
      /\ m \in E <=> Owes(y, r, field)
  BY ONLY <1>1, <1>3, <1>4, m \in Mounts
<1>6. IsFiniteSet(D) /\ IsFiniteSet(E)
  <2>1. IsFiniteSet(Mounts) BY RequestsAssumption
  <2> QED BY ONLY <1>4, <2>1, FS_Subset
<1>7. Cardinality(D) \in Nat /\ Cardinality(E) \in Nat
  BY ONLY <1>6, FS_CardinalityType
<1>8. ASSUME Owes(x, r, field) <=> Owes(y, r, field) PROVE D = E
  BY ONLY <1>4, <1>5, <1>8
<1>9. ASSUME ~Owes(x, r, field), Owes(y, r, field)
      PROVE  Cardinality(E) = Cardinality(D) + 1
  <2>1. E = D \cup {m} /\ m \notin D BY ONLY <1>4, <1>5, <1>9, m \in Mounts
  <2> QED BY ONLY <1>6, <2>1, FS_AddElement
<1>10. ASSUME Owes(x, r, field), ~Owes(y, r, field)
       PROVE  Cardinality(D) = Cardinality(E) + 1
  <2>1. D = E \cup {m} /\ m \notin E BY ONLY <1>4, <1>5, <1>10, m \in Mounts
  <2> QED BY ONLY <1>6, <2>1, FS_AddElement
<1> QED BY ONLY <1>2, <1>7, <1>8, <1>9, <1>10

\* The account of a ref: nothing is counted twice, and nothing is lost but of
\* a ref that was resolved twice at once.
Fair(r, field) == /\ Counted(r, field) <= answered[r][field]
                  /\ r \notin crossed => Counted(r, field) = answered[r][field]

\* What is counted is a number.
LEMMA CountedType ==
    ASSUME ProviderInv, NEW r \in Refs, NEW field \in {"rest", "throttles"}
    PROVE  /\ Total(buckets, BucketsOf(r), field) \in Nat
           /\ Cardinality(Due(r, field)) \in Nat
           /\ answered[r][field] \in Nat
<1>1. Total(buckets, BucketsOf(r), field) \in Nat
  <2>1. PICK S, bs : S = BucketsOf(r) /\ bs = buckets OBVIOUS
  <2>2. Sums(bs, S, field) BY <2>1, BucketsAre
  <2>3. Total(bs, S, field) \in Nat BY ONLY <2>2, TotalType
  <2> QED BY ONLY <2>1, <2>3
<1>2. Cardinality(Due(r, field)) \in Nat
  <2>1. IsFiniteSet(Mounts) BY RequestsAssumption
  <2>2. PICK D : D = Due(r, field) OBVIOUS
  <2>3. D \subseteq Mounts BY ONLY <2>2 DEF Due
  <2>4. IsFiniteSet(D) BY ONLY <2>1, <2>3, FS_Subset
  <2> QED BY ONLY <2>2, <2>4, FS_CardinalityType
<1>3. answered[r][field] \in Nat
  <2>1. answered \in [Refs -> MountCounters] BY DEF ProviderInv, Typed, RequestsTypeOK
  <2> QED BY ONLY <2>1, r \in Refs, field \in {"rest", "throttles"} DEF MountCounters
<1> QED BY ONLY <1>1, <1>2, <1>3

\* The same of a step's end.
LEMMA InBucketsNext ==
    ASSUME NEW r \in Refs, NEW b
    PROVE  b \in BucketsOf(r)' <=>
              \/ b # 0 /\ \E k \in CounterKey : k[1] = r /\ table'[k] = b
              \/ \E n \in Mounts : /\ mount'[n].ref = r /\ Merging(mount'[n])
                                   /\ mount'[n].held = b
<1>1. ASSUME NEW k \in CounterKey, k[1] = r
      PROVE  \E c \in Commits \cup {Resolving} : k = <<r, c>>
  BY ONLY <1>1 DEF CounterKey
<1>2. \A c \in Commits \cup {Resolving} : <<r, c>> \in CounterKey /\ <<r, c>>[1] = r
  BY ONLY r \in Refs DEF CounterKey
<1>3. b \in InTable(r)' <=> b # 0 /\ \E c \in Commits \cup {Resolving} : table'[<<r, c>>] = b
  BY ONLY DEF InTable
<1>4. b \in InTable(r)' <=> b # 0 /\ \E k \in CounterKey : k[1] = r /\ table'[k] = b
  BY ONLY <1>1, <1>2, <1>3
<1>5. b \in Folding(r)' <=> \E n \in Mounts : /\ mount'[n].ref = r /\ Merging(mount'[n])
                                              /\ mount'[n].held = b
  BY ONLY DEF Folding, Merging
<1> QED BY ONLY <1>4, <1>5 DEF BucketsOf

\* A request that folds nothing in, before or after: the table decides.
LEMMA FoldsKept ==
    ASSUME mount \in [Mounts -> Mount], NEW m \in Mounts, NEW y,
           mount' = [mount EXCEPT ![m] = y],
           ~Merging(mount[m]), ~Merging(y), NEW r, NEW b
    PROVE  (\E n \in Mounts : /\ mount'[n].ref = r /\ Merging(mount'[n])
                              /\ mount'[n].held = b)
           <=> \E n \in Mounts : /\ mount[n].ref = r /\ Merging(mount[n])
                                 /\ mount[n].held = b
<1>1. \A i \in Mounts : mount'[i] = IF i = m THEN y ELSE mount[i]
  BY ONLY mount \in [Mounts -> Mount], mount' = [mount EXCEPT ![m] = y], m \in Mounts
<1>2. \A i \in Mounts : Merging(mount'[i]) <=> Merging(mount[i])
  BY ONLY <1>1, ~Merging(mount[m]), ~Merging(y)
<1>3. \A i \in Mounts : Merging(mount[i]) => mount'[i] = mount[i]
  BY ONLY <1>1, ~Merging(mount[m])
<1> QED BY ONLY <1>2, <1>3

\* The table and the bucket of a key that gets a bucket with counters c.
LEMMA NewBucketTable ==
    ASSUME RequestsTypeOK, NEW key \in CounterKey, table[key] = 0,
           table' = [table EXCEPT ![key] = Len(buckets) + 1],
           NEW c, buckets' = Append(buckets, c)
    PROVE  /\ Len(buckets) \in Nat
           /\ \A k \in CounterKey : table[k] \in 0..Len(buckets)
           /\ \A k \in CounterKey :
                 table'[k] = IF k = key THEN Len(buckets) + 1 ELSE table[k]
           /\ \A b \in 1..Len(buckets) : buckets'[b] = buckets[b]
           /\ buckets'[Len(buckets) + 1] = c
<1>1. PICK bs, len : bs = buckets /\ len = Len(buckets) OBVIOUS
<1>2. bs \in Seq(MountCounters) /\ table \in [CounterKey -> 0..len]
  BY <1>1 DEF RequestsTypeOK
<1>3. bs \in Seq(MountCounters \cup {c})
  <2>1. len \in Nat /\ bs \in [1..len -> MountCounters]
    BY ONLY <1>1, <1>2, LenProperties
  <2>2. bs \in [1..len -> MountCounters \cup {c}] BY ONLY <2>1
  <2> QED BY ONLY <2>1, <2>2, SeqDef
<1>4. /\ len \in Nat
      /\ \A b \in 1..len : Append(bs, c)[b] = bs[b]
      /\ Append(bs, c)[len + 1] = c
  <2>1. c \in MountCounters \cup {c} OBVIOUS
  <2>2. Len(bs) \in Nat BY ONLY <1>3, LenProperties
  <2> QED BY ONLY <1>1, <1>3, <2>1, <2>2, AppendProperties
<1>5. \A k \in CounterKey : table'[k] = IF k = key THEN len + 1 ELSE table[k]
  BY ONLY <1>1, <1>2, key \in CounterKey,
          table' = [table EXCEPT ![key] = Len(buckets) + 1]
<1>6. \A k \in CounterKey : table[k] \in 0..len BY ONLY <1>2
<1>7. buckets' = Append(bs, c) BY ONLY <1>1, buckets' = Append(buckets, c)
<1> QED BY ONLY <1>1, <1>4, <1>5, <1>6, <1>7

\* counters_for counts nothing: a bucket it makes is empty.
LEMMA CountersForTotals ==
    ASSUME ProviderInv, NEW m \in Mounts, NEW y, mount' = [mount EXCEPT ![m] = y],
           ~Merging(mount[m]), ~Merging(y),
           NEW key \in CounterKey, CountersFor(key),
           NEW r \in Refs, NEW field \in {"rest", "throttles"}
    PROVE  Total(buckets, BucketsOf(r), field)' = Total(buckets, BucketsOf(r), field)
<1>1. RequestsTypeOK /\ mount \in [Mounts -> Mount] BY Mover
<1>2. \A b : (\E n \in Mounts : /\ mount'[n].ref = r /\ Merging(mount'[n])
                                /\ mount'[n].held = b)
             <=> \E n \in Mounts : /\ mount[n].ref = r /\ Merging(mount[n])
                                   /\ mount[n].held = b
  BY ONLY <1>1, m \in Mounts, mount' = [mount EXCEPT ![m] = y],
          ~Merging(mount[m]), ~Merging(y), FoldsKept
<1>3. PICK S, T : S = BucketsOf(r) /\ T = BucketsOf(r)' OBVIOUS
<1>4. \A b : b \in S <=>
              \/ b # 0 /\ \E k \in CounterKey : k[1] = r /\ table[k] = b
              \/ \E n \in Mounts : /\ mount[n].ref = r /\ Merging(mount[n])
                                   /\ mount[n].held = b
  BY ONLY <1>3, r \in Refs, InBuckets
<1>5. \A b : b \in T <=>
              \/ b # 0 /\ \E k \in CounterKey : k[1] = r /\ table'[k] = b
              \/ \E n \in Mounts : /\ mount'[n].ref = r /\ Merging(mount'[n])
                                   /\ mount'[n].held = b
  BY ONLY <1>3, r \in Refs, InBucketsNext
<1>6. PICK bs, cs, len : bs = buckets /\ cs = buckets' /\ len = Len(buckets) OBVIOUS
<1>7. S \subseteq 1..len /\ Sums(bs, S, field)
  BY ONLY <1>3, <1>6, ProviderInv, r \in Refs, field \in {"rest", "throttles"}, BucketsAre
<1>8. Total(bs, S, field) \in Nat BY ONLY <1>7, TotalType
<1>9. CASE table[key] # 0
  <2>1. table' = table /\ buckets' = buckets
    <3>1. table \in [CounterKey -> 0..Len(buckets)] BY <1>1 DEF RequestsTypeOK
    <3> QED BY <1>9, <3>1 DEF CountersFor, BucketAt
  <2>2. \A b : b \in S <=> b \in T BY ONLY <1>2, <1>4, <1>5, <2>1
  <2>3. S = T BY ONLY <2>2
  <2>4. Total(cs, T, field) = Total(bs, S, field) BY ONLY <1>6, <2>1, <2>3
  <2> QED BY ONLY <1>3, <1>6, <2>4 DEF Total
<1>10. CASE table[key] = 0
  <2>1. /\ table' = [table EXCEPT ![key] = Len(buckets) + 1]
        /\ buckets' = Append(buckets, NewCounters)
    BY <1>10 DEF CountersFor, BucketAt
  <2>2. /\ len \in Nat
        /\ \A k \in CounterKey : table[k] \in 0..len
        /\ \A k \in CounterKey : table'[k] = IF k = key THEN len + 1 ELSE table[k]
        /\ \A b \in 1..len : cs[b] = bs[b]
        /\ cs[len + 1] = NewCounters
    <3>1. PICK c : c = NewCounters OBVIOUS
    <3>2. buckets' = Append(buckets, c) BY ONLY <2>1, <3>1
    <3>3. /\ Len(buckets) \in Nat
          /\ \A k \in CounterKey : table[k] \in 0..Len(buckets)
          /\ \A k \in CounterKey :
                table'[k] = IF k = key THEN Len(buckets) + 1 ELSE table[k]
          /\ \A b \in 1..Len(buckets) : buckets'[b] = buckets[b]
          /\ buckets'[Len(buckets) + 1] = c
      BY ONLY <1>1, <1>10, <2>1, <3>2, key \in CounterKey, NewBucketTable
    <3> QED BY ONLY <1>6, <3>1, <3>3
  <2>3. len + 1 # 0 /\ len + 1 \notin 0..len /\ len + 1 \notin 1..len BY ONLY <2>2
  <2>4. cs[len + 1][field] = 0
    BY ONLY <2>2, field \in {"rest", "throttles"} DEF NewCounters
  <2>5. Total(cs, S, field) = Total(bs, S, field)
    <3>1. \A b \in S : cs[b][field] = bs[b][field] BY ONLY <1>7, <2>2
    <3> QED BY ONLY <3>1, TotalSame
  <2>6. CASE key[1] = r
    <3>1. \A b : b \in T <=> b \in S \/ b = len + 1
      BY ONLY <1>2, <1>4, <1>5, <1>10, <2>2, <2>3, <2>6, key \in CounterKey
    <3>2. T = S \cup {len + 1} BY ONLY <3>1
    <3>3. len + 1 \notin S BY ONLY <1>7, <2>3
    <3>4. Sums(cs, S, field) BY ONLY <1>7, <2>2 DEF Sums
    <3>5. 0 \in Nat OBVIOUS
    <3>6. Total(cs, S \cup {len + 1}, field) = Total(cs, S, field) + 0
      <4>1. PICK z : z = len + 1 OBVIOUS
      <4>2. z \notin S BY ONLY <3>3, <4>1
      <4>3. 0 = cs[z][field] BY ONLY <2>4, <4>1
      <4>4. Joins(cs, S, field, z) BY ONLY <3>4, <3>5, <4>2, <4>3 DEF Joins
      <4>5. Total(cs, S \cup {z}, field) = Total(cs, S, field) + cs[z][field]
        BY ONLY <4>4, TotalAdd
      <4> QED BY ONLY <4>1, <4>3, <4>5
    <3>7. Total(cs, T, field) = Total(bs, S, field) BY ONLY <1>8, <2>5, <3>2, <3>6
    <3> QED BY ONLY <1>3, <1>6, <3>7 DEF Total
  <2>7. CASE key[1] # r
    <3>1. \A b : b \in T <=> b \in S
      BY ONLY <1>2, <1>4, <1>5, <1>10, <2>2, <2>3, <2>7, key \in CounterKey
    <3>2. T = S BY ONLY <3>1
    <3>3. Total(cs, T, field) = Total(bs, S, field) BY ONLY <2>5, <3>2
    <3> QED BY ONLY <1>3, <1>6, <3>3 DEF Total
  <2> QED BY ONLY <2>6, <2>7
<1> QED BY ONLY <1>9, <1>10

-----------------------------------------------------------------------------
(* Requests: the accounts, step by step.                                   *)

CallsInv == Owned /\ CallsAreCounted

\* The account of a ref stays fair: what is counted goes with what is
\* answered, or a ref that is excepted loses some.
LEMMA FairTurn ==
    ASSUME ProviderInv, NEW r \in Refs, NEW field \in {"rest", "throttles"},
           Fair(r, field), crossed \subseteq crossed',
           NEW t \in Nat, t = Total(buckets, BucketsOf(r), field)',
           NEW d \in Nat, d = Cardinality(Due(r, field)'),
           NEW a \in Nat, a = answered'[r][field],
           \/ t + d + answered[r][field]
                 = Total(buckets, BucketsOf(r), field) + Cardinality(Due(r, field)) + a
           \/ /\ r \in crossed /\ a = answered[r][field]
              /\ t + d <= Total(buckets, BucketsOf(r), field) + Cardinality(Due(r, field))
    PROVE  Fair(r, field)'
<1>1. PICK t0 \in Nat, d0 \in Nat, a0 \in Nat :
         /\ t0 = Total(buckets, BucketsOf(r), field)
         /\ d0 = Cardinality(Due(r, field)) /\ a0 = answered[r][field]
  BY ONLY ProviderInv, r \in Refs, field \in {"rest", "throttles"}, CountedType
<1>2. t0 + d0 <= a0 /\ (r \notin crossed => t0 + d0 = a0)
  BY ONLY <1>1, Fair(r, field) DEF Fair, Counted
<1>3. \/ t + d + a0 = t0 + d0 + a
      \/ r \in crossed /\ a = a0 /\ t + d <= t0 + d0
  BY <1>1
<1>4. t + d <= a /\ (r \notin crossed => t + d = a)
  BY ONLY <1>2, <1>3, t0 \in Nat, d0 \in Nat, a0 \in Nat, t \in Nat, d \in Nat, a \in Nat
<1>5. Counted(r, field)' = t + d
  BY ONLY t = Total(buckets, BucketsOf(r), field)', d = Cardinality(Due(r, field)')
     DEF Counted
<1> QED BY ONLY <1>4, <1>5, a = answered'[r][field], crossed \subseteq crossed' DEF Fair

\* Nothing happens to the account of a ref.
LEMMA FairStays ==
    ASSUME ProviderInv, NEW r \in Refs, NEW field \in {"rest", "throttles"},
           Fair(r, field), crossed \subseteq crossed',
           Total(buckets, BucketsOf(r), field)' = Total(buckets, BucketsOf(r), field),
           Cardinality(Due(r, field)') = Cardinality(Due(r, field)),
           answered'[r][field] = answered[r][field]
    PROVE  Fair(r, field)'
<1>1. PICK t \in Nat, d \in Nat, a \in Nat :
         /\ t = Total(buckets, BucketsOf(r), field)
         /\ d = Cardinality(Due(r, field)) /\ a = answered[r][field]
  BY ONLY ProviderInv, r \in Refs, field \in {"rest", "throttles"}, CountedType
<1>2. /\ t = Total(buckets, BucketsOf(r), field)'
      /\ d = Cardinality(Due(r, field)') /\ a = answered'[r][field]
  BY <1>1
<1>3. t + d + answered[r][field]
        = Total(buckets, BucketsOf(r), field) + Cardinality(Due(r, field)) + a
  BY ONLY <1>1
<1> QED BY <1>2, <1>3, FairTurn

\* The table and the folds decide which buckets are a ref's.
LEMMA BucketSetStays ==
    ASSUME NEW r \in Refs, table' = table,
           mount \in [Mounts -> Mount], NEW m \in Mounts, NEW y,
           mount' = [mount EXCEPT ![m] = y], ~Merging(mount[m]), ~Merging(y)
    PROVE  BucketsOf(r)' = BucketsOf(r)
<1>1. PICK S, T : S = BucketsOf(r) /\ T = BucketsOf(r)' OBVIOUS
<1>2. ASSUME NEW b PROVE b \in S <=> b \in T
  <2>1. (\E n \in Mounts : /\ mount'[n].ref = r /\ Merging(mount'[n])
                           /\ mount'[n].held = b)
        <=> \E n \in Mounts : /\ mount[n].ref = r /\ Merging(mount[n])
                              /\ mount[n].held = b
    BY FoldsKept
  <2> QED BY ONLY <1>1, <2>1, table' = table, r \in Refs, InBuckets, InBucketsNext
<1>3. S = T BY ONLY <1>2
<1> QED BY ONLY <1>1, <1>3

\* The same buckets, with the same counters, have the same sum.
LEMMA BucketsStay ==
    ASSUME NEW r \in Refs, table' = table, buckets' = buckets,
           mount \in [Mounts -> Mount], NEW m \in Mounts, NEW y,
           mount' = [mount EXCEPT ![m] = y], ~Merging(mount[m]), ~Merging(y), NEW field
    PROVE  Total(buckets, BucketsOf(r), field)' = Total(buckets, BucketsOf(r), field)
<1>1. BucketsOf(r)' = BucketsOf(r) BY BucketSetStays
<1> QED BY ONLY <1>1, buckets' = buckets DEF Total

\* The accounts are fair one by one.
LEMMA FairAll ==
    CallsAreCounted <=> \A r \in Refs : \A field \in {"rest", "throttles"} : Fair(r, field)
BY DEF CallsAreCounted, Fair

\* The same of a step's end.
LEMMA FairAllNext ==
    ASSUME \A r \in Refs : \A field \in {"rest", "throttles"} : Fair(r, field)'
    PROVE  CallsAreCounted'
BY DEF CallsAreCounted, Fair

\* There is a key, and the table may stay as it is.
LEMMA Unmoved ==
    ASSUME table' = table
    PROVE  \E key \in CounterKey : Rekeys(key)
<1>1. <<<<"branch", 0>>, Resolving>> \in CounterKey BY DEF CounterKey, Refs, Resolving
<1>2. PICK key \in CounterKey : TRUE BY ONLY <1>1
<1>3. Rekeys(key) BY DEF Rekeys, Keeps
<1> QED BY ONLY <1>3

\* One request without a call moves, and the accounts do not.
LEMMA QuietCalls ==
    ASSUME ProviderInv, CallsInv, NEW m \in Mounts, NEW y, mount' = [mount EXCEPT ![m] = y],
           table' = table, buckets' = buckets, answered' = answered,
           crossed \subseteq crossed',
           ~Merging(mount[m]), mount[m].call = Nothing, ~Merging(y), y.call = Nothing
    PROVE  CallsInv'
<1>1. /\ RequestsTypeOK /\ mount \in [Mounts -> Mount]
      /\ \A n \in Mounts : Staged(mount[n], clock)
      /\ Owned /\ CallsAreCounted
  BY Mover DEF ProviderInv, Typed, CallsInv
<1>2. PICK key \in CounterKey : Rekeys(key) BY ONLY Unmoved, table' = table
<1>3. Takes(y) BY ONLY ~Merging(y) DEF Takes
<1>4. CallOf(y)' BY ONLY y.call = Nothing DEF CallOf
<1>5. Owned' BY ONLY <1>1, <1>2, <1>3, <1>4, m \in Mounts, mount' = [mount EXCEPT ![m] = y],
                     TurnOwned
<1>6. ASSUME NEW r \in Refs, NEW field \in {"rest", "throttles"} PROVE Fair(r, field)'
  <2>1. Fair(r, field) BY ONLY <1>1, <1>6, FairAll
  <2>2. Total(buckets, BucketsOf(r), field)' = Total(buckets, BucketsOf(r), field)
    BY <1>1, BucketsStay
  <2>3. PICK x : x = mount[m] OBVIOUS
  <2>a. ~Owes(x, r, field) /\ ~Owes(y, r, field)
    BY ONLY <2>3, mount[m].call = Nothing, y.call = Nothing DEF Owes
  <2>4. Cardinality(Due(r, field)') = Cardinality(Due(r, field))
    <3>1. DueMoves(x, y)
      BY ONLY <1>1, <2>3, m \in Mounts, mount' = [mount EXCEPT ![m] = y], DueTurn
    <3> QED BY ONLY <1>6, <2>a, <3>1 DEF DueMoves
  <2>5. answered'[r][field] = answered[r][field] OBVIOUS
  <2> QED BY ONLY <1>6, <2>1, <2>2, <2>4, <2>5, ProviderInv, crossed \subseteq crossed',
                  FairStays
<1>7. CallsAreCounted' BY ONLY <1>6, FairAllNext
<1> QED BY ONLY <1>5, <1>7 DEF CallsInv

\* Where no mount and no account changes.
LEMMA StillCalls ==
    ASSUME CallsInv, mount' = mount, table' = table, buckets' = buckets,
           answered' = answered, crossed' = crossed
    PROVE  CallsInv'
<1>1. Owned /\ CallsAreCounted BY DEF CallsInv
<1>2. UNCHANGED <<mount, table, buckets, answered, crossed>> OBVIOUS
<1>3. Owned' BY ONLY <1>1, <1>2 DEF Owned, OneKey, OneFold, Removed, CallOf
<1>4. ASSUME NEW r, NEW field PROVE Counted(r, field)' = Counted(r, field)
  <2>1. BucketsOf(r)' = BucketsOf(r) BY ONLY <1>2 DEF BucketsOf, InTable, Folding
  <2>2. Due(r, field)' = Due(r, field) BY ONLY <1>2 DEF Due
  <2>3. buckets' = buckets OBVIOUS
  <2>4. Total(buckets, BucketsOf(r), field)' = Total(buckets, BucketsOf(r), field)
    BY ONLY <2>1, <2>3 DEF Total
  <2> QED BY ONLY <2>2, <2>4 DEF Counted
<1>5. CallsAreCounted' BY ONLY <1>1, <1>2, <1>4 DEF CallsAreCounted
<1> QED BY ONLY <1>3, <1>5 DEF CallsInv

\* No request and no bucket: nothing is counted and nothing was answered.
LEMMA FreshCalls ==
    ASSUME mount' = [m \in Mounts |-> NewMount], table' = [k \in CounterKey |-> 0],
           answered' = [r \in Refs |-> NewCounters]
    PROVE  CallsInv'
<1>1. \A n \in Mounts : mount'[n].call = Nothing /\ ~Merging(mount'[n])
  BY DEF NewMount, Merging
<1>2. \A k \in CounterKey : table'[k] = 0 OBVIOUS
<1>3. Owned' BY ONLY <1>1, <1>2 DEF Owned, OneKey, OneFold, Removed, CallOf, Merging
<1>4. ASSUME NEW r \in Refs, NEW field \in {"rest", "throttles"} PROVE Fair(r, field)'
  <2>1. PICK T, D : T = BucketsOf(r)' /\ D = Due(r, field)' OBVIOUS
  <2>2. T = {} BY ONLY <1>1, <1>2, <2>1, r \in Refs, InBucketsNext
  <2>3. D = {} BY ONLY <1>1, <2>1 DEF Due, Owes
  <2>4. Total(buckets', {}, field) = 0 BY ONLY FS_EmptySet DEF Total
  <2>5. Cardinality({}) = 0 BY ONLY FS_EmptySet
  <2>6. Counted(r, field)' = Total(buckets', T, field) + Cardinality(D)
    BY ONLY <2>1 DEF Counted, Total
  <2>7. answered'[r][field] = 0
    BY r \in Refs, field \in {"rest", "throttles"} DEF NewCounters
  <2>8. Counted(r, field)' = 0 BY ONLY <2>2, <2>3, <2>4, <2>5, <2>6
  <2> QED BY ONLY <2>7, <2>8 DEF Fair
<1>5. CallsAreCounted' BY ONLY <1>4, FairAllNext
<1> QED BY ONLY <1>3, <1>5 DEF CallsInv

\* The same of the first state.
LEMMA StartCalls == RequestsInit => CallsInv
<1> SUFFICES ASSUME RequestsInit PROVE CallsInv OBVIOUS
<1>1. \A n \in Mounts : mount[n].call = Nothing /\ ~Merging(mount[n])
  BY DEF RequestsInit, NewMount, Merging
<1>2. \A k \in CounterKey : table[k] = 0 BY DEF RequestsInit
<1>3. Owned BY ONLY <1>1, <1>2 DEF Owned, OneKey, OneFold, Removed, CallOf
<1>4. ASSUME NEW r \in Refs, NEW field \in {"rest", "throttles"} PROVE Fair(r, field)
  <2>1. PICK T, D : T = BucketsOf(r) /\ D = Due(r, field) OBVIOUS
  <2>2. T = {} BY ONLY <1>1, <1>2, <2>1, r \in Refs, InBuckets
  <2>3. D = {} BY ONLY <1>1, <2>1 DEF Due, Owes
  <2>4. Total(buckets, {}, field) = 0 BY ONLY FS_EmptySet DEF Total
  <2>5. Cardinality({}) = 0 BY ONLY FS_EmptySet
  <2>6. Counted(r, field) = Total(buckets, T, field) + Cardinality(D)
    BY ONLY <2>1 DEF Counted
  <2>7. answered[r][field] = 0
    BY r \in Refs, field \in {"rest", "throttles"} DEF NewCounters, RequestsInit
  <2>8. Counted(r, field) = 0 BY ONLY <2>2, <2>3, <2>4, <2>5, <2>6
  <2> QED BY ONLY <2>7, <2>8 DEF Fair
<1>5. CallsAreCounted BY ONLY <1>4, FairAll
<1> QED BY ONLY <1>3, <1>5 DEF CallsInv

-----------------------------------------------------------------------------
(* Requests: an answer arrives, and a bucket is looked up for it.          *)

\* counters_for gives the call a bucket of its own key.
LEMMA CallOwned ==
    ASSUME ProviderInv, Owned, NEW m \in Mounts, NEW x \in Mount, x = mount[m],
           x.pc \in {"resolving", "content"},
           NEW key \in CounterKey, key = <<x.ref, x.commit>>, CountersFor(key),
           NEW c \in Call, c.bucket = BucketAt(key),
           NEW y, y = [x EXCEPT !.call = c], mount' = [mount EXCEPT ![m] = y]
    PROVE  Owned' /\ ~Merging(x) /\ ~Merging(y)
<1>1. /\ RequestsTypeOK /\ mount \in [Mounts -> Mount]
      /\ \A n \in Mounts : Staged(mount[n], clock)
      /\ table \in [CounterKey -> 0..Len(buckets)] /\ Len(buckets) \in Nat
      /\ \A n \in Mounts : mount[n].held \in 0..Len(buckets)
  BY Mover DEF ProviderInv, Typed, RequestsTypeOK
<1>2. /\ y.call = c /\ y.pc = x.pc /\ y.ref = x.ref /\ y.commit = x.commit
  BY ONLY x \in Mount, c \in Call, y = [x EXCEPT !.call = c], CallSet
<1>3. ~Merging(x) /\ ~Merging(y)
  BY ONLY <1>2, x.pc \in {"resolving", "content"} DEF Merging
<1>4. PICK b, len : b = BucketAt(key) /\ len = Len(buckets) OBVIOUS
<1>5. IF table[key] = 0 THEN b = len + 1 ELSE b = table[key]
  BY ONLY <1>4 DEF BucketAt
<1>6. \A k \in CounterKey : table'[k] = IF k = key THEN b ELSE table[k]
  <2>1. table' = [table EXCEPT ![key] = b] BY ONLY <1>4, CountersFor(key) DEF CountersFor
  <2> QED BY ONLY <1>1, <2>1, key \in CounterKey
<1>7. \A k \in CounterKey : table[k] \in 0..len BY ONLY <1>1, <1>4
<1>8. Rekeys(key)
  <2>1. \A k \in CounterKey : table'[k] = table[k] \/ (k = key /\ table'[k] = len + 1)
    BY ONLY <1>5, <1>6
  <2>2. \A k \in CounterKey : Keeps(k) BY ONLY <1>5, <1>6 DEF Keeps
  <2> QED BY ONLY <1>4, <2>1, <2>2 DEF Rekeys
<1>9. Takes(y) BY ONLY <1>3 DEF Takes
<1>10. OneKey /\ Removed BY DEF Owned
<1>11. len + 1 \notin 0..len BY ONLY <1>1, <1>4
<1>12. ASSUME NEW k \in CounterKey, table'[k] = b PROVE k[1] = y.ref
  <2>1. CASE k = key BY ONLY <1>2, <2>1, key = <<x.ref, x.commit>>
  <2>2. CASE k # key
    <3>1. table[k] = b BY ONLY <1>6, <1>12, <2>2
    <3>2. table[key] # 0 /\ table[key] = table[k]
      BY ONLY <1>5, <1>7, <1>11, <3>1, k \in CounterKey
    <3> QED BY ONLY <1>10, <2>2, <3>2, key \in CounterKey, k \in CounterKey DEF OneKey
  <2> QED BY ONLY <2>1, <2>2
<1>13. ASSUME NEW n \in Mounts, Merging(mount'[n]), mount'[n].held = b
       PROVE  mount'[n].ref = y.ref
  <2>1. mount'[n] = IF n = m THEN y ELSE mount[n]
    BY ONLY <1>1, mount' = [mount EXCEPT ![m] = y], m \in Mounts, n \in Mounts
  <2>2. mount'[n] = mount[n] BY ONLY <1>3, <1>13, <2>1
  <2>3. Merging(mount[n]) /\ mount[n].held = b BY ONLY <1>13, <2>2
  <2>4. mount[n].held \in 0..len BY ONLY <1>1, <1>4, n \in Mounts
  <2>5. table[key] = b BY ONLY <1>5, <1>11, <2>3, <2>4
  <2> QED BY ONLY <1>10, <2>3, <2>5, key \in CounterKey, n \in Mounts DEF Removed
<1>14. y.pc = "content" => table'[<<y.ref, y.commit>>] = b
  BY ONLY <1>2, <1>6, key \in CounterKey, key = <<x.ref, x.commit>>
<1>15. CallOf(y)'
  <2>1. y.call.bucket = b BY ONLY <1>2, <1>4, c.bucket = BucketAt(key)
  <2> QED BY ONLY <1>12, <1>13, <1>14, <2>1 DEF CallOf
<1>16. Owned'
  BY ONLY <1>1, <1>8, <1>9, <1>15, Owned, m \in Mounts, mount' = [mount EXCEPT ![m] = y],
          key \in CounterKey, TurnOwned
<1> QED BY ONLY <1>3, <1>16

\* get_json's answer: it is counted where it is due.
LEMMA GetJsonCalls ==
    ASSUME ProviderInv, CallsInv, NEW m \in Mounts, GetJson(m)
    PROVE  CallsInv'
<1>1. PICK x \in Mount : x = mount[m] BY Mover
<1>2. /\ RestTyped /\ mount \in [Mounts -> Mount] /\ Staged(x, clock)
      /\ RequestsTypeOK /\ Owned /\ CallsAreCounted
  BY <1>1, Mover DEF CallsInv
<1>3. x.pc \in {"resolving", "content"} /\ x.call = Nothing BY <1>1 DEF GetJson
<1>4. PICK key : key = KeyOf(m) OBVIOUS
<1>5. key \in CounterKey /\ x.ref \in Refs /\ key = <<x.ref, x.commit>>
  BY ONLY <1>1, <1>2, <1>3, <1>4, m \in Mounts, KeyType
<1>6. PICK res \in Results :
         /\ mount' = [mount EXCEPT ![m].call =
               [step |-> "rest", bucket |-> BucketAt(key), result |-> res]]
         /\ answered' = [answered EXCEPT ![x.ref] =
               [rest |-> @.rest + 1,
                throttles |-> @.throttles + (IF res = "Throttled" THEN 1 ELSE 0)]]
  BY <1>1, <1>4 DEF GetJson
<1>7. CountersFor(key) /\ crossed' = crossed BY <1>4 DEF GetJson
<1>8. PICK c : c = [step |-> "rest", bucket |-> BucketAt(key), result |-> res]
  OBVIOUS
<1>9. c \in Call /\ c.bucket = BucketAt(key) /\ c.step = "rest" /\ c.result = res
  <2>1. BucketAt(key) \in 1..Len(buckets')
    BY ONLY <1>2, <1>5, <1>7, CountersForGrows
  <2>2. BucketAt(key) \in Nat BY ONLY <2>1
  <2>3. res \in {"Ok", "Throttled", "Err"} BY ONLY ResultType, res \in Results
  <2> QED BY ONLY <1>8, <2>2, <2>3 DEF Call
<1>10. PICK y : y = [x EXCEPT !.call = c] OBVIOUS
<1>11. mount' = [mount EXCEPT ![m] = y]
  BY ONLY <1>1, <1>2, <1>6, <1>8, <1>10, m \in Mounts
<1>12. Owned' /\ ~Merging(x) /\ ~Merging(y)
  BY ONLY <1>1, <1>2, <1>3, <1>5, <1>7, <1>9, <1>10, <1>11, ProviderInv, m \in Mounts,
          x \in Mount, CallOwned
<1>13. y.call = c /\ y.ref = x.ref
  BY ONLY <1>9, <1>10, x \in Mount, CallSet
<1>14. c # Nothing
  BY ONLY <1>9, NoCallAssumption
<1>15. DueMoves(x, y)
  BY ONLY <1>1, <1>2, <1>11, m \in Mounts, DueTurn
<1>16. crossed \subseteq crossed' BY ONLY <1>7
<1>17. ASSUME NEW r \in Refs, NEW field \in {"rest", "throttles"} PROVE Fair(r, field)'
  <2>1. Fair(r, field) BY ONLY <1>2, <1>17, FairAll
  <2>2. Total(buckets, BucketsOf(r), field)' = Total(buckets, BucketsOf(r), field)
    <3>1. ~Merging(mount[m]) BY ONLY <1>1, <1>12
    <3> QED BY ONLY <1>5, <1>7, <1>11, <1>12, <1>17, <3>1, ProviderInv, m \in Mounts,
                    CountersForTotals
  <2>3. /\ Total(buckets, BucketsOf(r), field) \in Nat
        /\ Cardinality(Due(r, field)) \in Nat
        /\ answered[r][field] \in Nat
    BY ONLY <1>17, ProviderInv, CountedType
  <2>4. answered \in [Refs -> MountCounters] BY <1>2 DEF RequestsTypeOK
  <2>5. CASE Owes(y, r, field)
    <3>1. r = x.ref /\ (field = "rest" \/ res = "Throttled")
      BY ONLY <1>9, <1>13, <2>5 DEF Owes
    <3>2. ~Owes(x, r, field) BY ONLY <1>3 DEF Owes
    <3>3. Cardinality(Due(r, field)') = Cardinality(Due(r, field)) + 1
      BY ONLY <1>15, <1>17, <2>5, <3>2 DEF DueMoves
    <3>4. answered'[r][field] = answered[r][field] + 1
      BY ONLY <1>6, <1>17, <2>4, <3>1 DEF MountCounters
    <3>5. PICK t \in Nat, d \in Nat, a \in Nat :
             /\ t = Total(buckets, BucketsOf(r), field)
             /\ d = Cardinality(Due(r, field)) /\ a = answered[r][field]
      BY ONLY <2>3
    <3>6. PICK d1 \in Nat, a1 \in Nat : d1 = d + 1 /\ a1 = a + 1
      BY ONLY d \in Nat, a \in Nat
    <3>7. /\ t = Total(buckets, BucketsOf(r), field)'
          /\ d1 = Cardinality(Due(r, field)') /\ a1 = answered'[r][field]
      BY ONLY <2>2, <3>3, <3>4, <3>5, <3>6
    <3>8. t + d1 + a = t + d + a1 BY ONLY <3>6, t \in Nat, d \in Nat, a \in Nat
    <3>9. t + d1 + answered[r][field]
            = Total(buckets, BucketsOf(r), field) + Cardinality(Due(r, field)) + a1
      BY ONLY <3>5, <3>8
    <3> QED BY ONLY <1>16, <1>17, <2>1, <3>7, <3>9, ProviderInv, t \in Nat, d1 \in Nat,
                    a1 \in Nat, FairTurn
  <2>6. CASE ~Owes(y, r, field)
    <3>1. ~Owes(x, r, field) BY ONLY <1>3 DEF Owes
    <3>2. Cardinality(Due(r, field)') = Cardinality(Due(r, field))
      BY ONLY <1>15, <1>17, <2>6, <3>1 DEF DueMoves
    <3>3. r # x.ref \/ (field = "throttles" /\ res # "Throttled")
      BY ONLY <1>9, <1>13, <1>14, <1>17, <2>6 DEF Owes
    <3>4. answered'[r][field] = answered[r][field]
      BY ONLY <1>6, <1>17, <2>4, <3>3 DEF MountCounters
    <3> QED BY ONLY <1>16, <1>17, <2>1, <2>2, <3>2, <3>4, ProviderInv, FairStays
  <2> QED BY ONLY <2>5, <2>6
<1>18. CallsAreCounted' BY ONLY <1>17, FairAllNext
<1> QED BY ONLY <1>12, <1>18 DEF CallsInv

\* mark_secondary_throttle: nothing is counted yet.
LEMMA MarkCalls ==
    ASSUME ProviderInv, CallsInv, NEW m \in Mounts, Mark(m)
    PROVE  CallsInv'
<1>1. PICK x \in Mount : x = mount[m] BY Mover
<1>2. /\ RestTyped /\ mount \in [Mounts -> Mount] /\ Staged(x, clock)
      /\ RequestsTypeOK /\ Owned /\ CallsAreCounted
  BY <1>1, Mover DEF CallsInv
<1>3. PICK o : o = x.call OBVIOUS
<1>4. o # Nothing /\ o.step = "mark" BY <1>1, <1>3 DEF Mark
<1>5. o \in Call /\ x.pc \in {"resolving", "content"} /\ o.result = "Throttled"
  BY ONLY <1>2, <1>3, <1>4, x \in Mount DEF Mount, Staged
<1>6. PICK key : key = KeyOf(m) OBVIOUS
<1>7. /\ CountersFor(key) /\ answered' = answered /\ crossed' = crossed
      /\ mount' = [mount EXCEPT ![m].call.step = "throttle",
                                ![m].call.bucket = BucketAt(key)]
  BY <1>6 DEF Mark
<1>8. key \in CounterKey /\ key = <<x.ref, x.commit>>
  BY ONLY <1>1, <1>2, <1>5, <1>6, m \in Mounts, KeyType
<1>9. BucketAt(key) \in Nat
  <2>1. BucketAt(key) \in 1..Len(buckets')
    BY ONLY <1>2, <1>7, <1>8, CountersForGrows
  <2> QED BY ONLY <2>1
<1>10. PICK b \in Nat : b = BucketAt(key) BY ONLY <1>9
<1>11. PICK c : c = [o EXCEPT !.step = "throttle", !.bucket = b] OBVIOUS
<1>12. c \in Call /\ c.bucket = b /\ c.result = "Throttled" /\ c.step = "throttle"
  BY ONLY <1>5, <1>11, b \in Nat DEF Call
<1>13. PICK y : y = [x EXCEPT !.call = c] OBVIOUS
<1>14. mount' = [mount EXCEPT ![m] = y]
  BY ONLY <1>1, <1>2, <1>3, <1>5, <1>7, <1>10, <1>11, <1>13, m \in Mounts
     DEF Mount, Call
<1>15. c.bucket = BucketAt(key) BY ONLY <1>10, <1>12
<1>16. Owned' /\ ~Merging(x) /\ ~Merging(y)
  <2>1. /\ Owned /\ x = mount[m] /\ x.pc \in {"resolving", "content"} /\ c \in Call
        /\ key \in CounterKey /\ key = <<x.ref, x.commit>> /\ CountersFor(key)
    BY ONLY <1>1, <1>2, <1>5, <1>7, <1>8, <1>12
  <2> QED BY ONLY <1>13, <1>14, <1>15, <2>1, ProviderInv, m \in Mounts, x \in Mount,
                  CallOwned
<1>17. y.call = c /\ y.ref = x.ref
  BY ONLY <1>12, <1>13, x \in Mount, CallSet
<1>18. c # Nothing BY ONLY <1>12, NoCallAssumption
<1>19. DueMoves(x, y) BY ONLY <1>1, <1>2, <1>14, m \in Mounts, DueTurn
<1>20. crossed \subseteq crossed' BY ONLY <1>7
<1>21. ASSUME NEW r \in Refs, NEW field \in {"rest", "throttles"} PROVE Fair(r, field)'
  <2>1. Fair(r, field) BY ONLY <1>2, <1>21, FairAll
  <2>2. Total(buckets, BucketsOf(r), field)' = Total(buckets, BucketsOf(r), field)
    <3>1. ~Merging(mount[m]) BY ONLY <1>1, <1>16
    <3> QED BY ONLY <1>7, <1>8, <1>14, <1>16, <1>21, <3>1, ProviderInv, m \in Mounts,
                    CountersForTotals
  <2>3. Owes(x, r, field) <=> Owes(y, r, field)
    BY ONLY <1>3, <1>4, <1>5, <1>12, <1>17, <1>18 DEF Owes
  <2>4. Cardinality(Due(r, field)') = Cardinality(Due(r, field))
    BY ONLY <1>19, <1>21, <2>3 DEF DueMoves
  <2>5. answered'[r][field] = answered[r][field] BY ONLY <1>7
  <2> QED BY ONLY <1>20, <1>21, <2>1, <2>2, <2>4, <2>5, ProviderInv, FairStays
<1>22. CallsAreCounted' BY ONLY <1>21, FairAllNext
<1> QED BY ONLY <1>16, <1>22 DEF CallsInv

-----------------------------------------------------------------------------
(* Requests: an answer is added to a bucket.                               *)

\* An addition counts one in the field, for the refs whose bucket it is.
LEMMA AddTotals ==
    ASSUME ProviderInv, NEW m \in Mounts, NEW y, mount' = [mount EXCEPT ![m] = y],
           ~Merging(mount[m]), ~Merging(y), table' = table,
           NEW b \in 1..Len(buckets), NEW field \in {"rest", "throttles"}, AddTo(b, field),
           NEW r \in Refs, NEW f \in {"rest", "throttles"}
    PROVE  Total(buckets, BucketsOf(r), f)'
              = Total(buckets, BucketsOf(r), f)
                  + (IF f = field /\ b \in BucketsOf(r) THEN 1 ELSE 0)
<1>1. /\ mount \in [Mounts -> Mount] /\ buckets \in Seq(MountCounters)
  BY Mover
<1>2. PICK S : S = BucketsOf(r) OBVIOUS
<1>3. S = BucketsOf(r)'
  BY ONLY <1>1, <1>2, r \in Refs, table' = table, m \in Mounts,
          mount' = [mount EXCEPT ![m] = y], ~Merging(mount[m]), ~Merging(y), BucketSetStays
<1>4. PICK bs, cs, len : bs = buckets /\ cs = buckets' /\ len = Len(buckets) OBVIOUS
<1>5. S \subseteq 1..len /\ Sums(bs, S, f)
  BY ONLY <1>2, <1>4, ProviderInv, r \in Refs, f \in {"rest", "throttles"}, BucketsAre
<1>6. \A i \in 1..len : bs[i] \in MountCounters BY ONLY <1>1, <1>4, ElementOfSeq
<1>7. PICK e : e = [bs[b] EXCEPT ![field] = @ + 1] OBVIOUS
<1>8. \A i \in 1..len : cs[i] = IF i = b THEN e ELSE bs[i]
  <2>1. cs = [bs EXCEPT ![b] = e] BY ONLY <1>4, <1>7, AddTo(b, field) DEF AddTo
  <2>2. DOMAIN bs = 1..len
    BY ONLY <1>1, <1>4, LenProperties
  <2> QED BY ONLY <2>1, <2>2
<1>9. b \in 1..len BY ONLY <1>4, b \in 1..Len(buckets)
<1>10. /\ bs[b][f] \in Nat
       /\ e[f] = bs[b][f] + (IF f = field THEN 1 ELSE 0)
  <2>1. PICK u \in MountCounters : u = bs[b] BY ONLY <1>6, <1>9
  <2> QED BY ONLY <1>7, <2>1, f \in {"rest", "throttles"}, field \in {"rest", "throttles"}
             DEF MountCounters
<1>11. Total(bs, S, f) \in Nat BY ONLY <1>5, TotalType
<1>12. CASE f = field /\ b \in S
  <2>1. \A i \in S \ {b} : cs[i][f] = bs[i][f] BY ONLY <1>5, <1>8
  <2>2. cs[b][f] = bs[b][f] + 1 BY ONLY <1>8, <1>9, <1>10, <1>12
  <2>3. PICK u \in Nat, v \in Nat : u = bs[b][f] /\ v = cs[b][f]
    BY ONLY <1>10, <2>2
  <2>4. Total(cs, S, f) + u = Total(bs, S, f) + v
    <3>1. cs[b][f] \in Nat BY ONLY <2>3
    <3>2. PICK z \in S : z = b BY ONLY <1>12
    <3>3. /\ Sums(bs, S, f) /\ cs[z][f] \in Nat
          /\ \A i \in S \ {z} : cs[i][f] = bs[i][f]
      BY ONLY <1>5, <2>1, <3>1, <3>2
    <3>4. Total(cs, S, f) + bs[z][f] = Total(bs, S, f) + cs[z][f]
      BY ONLY <3>3, z \in S, TotalChange
    <3> QED BY ONLY <2>3, <3>2, <3>4
  <2>5. PICK t \in Nat : t = Total(bs, S, f) BY ONLY <1>11
  <2>6. PICK w \in Nat : w = Total(cs, S, f)
    <3>1. \A i \in S : cs[i][f] \in Nat BY ONLY <1>5, <2>1, <2>3 DEF Sums
    <3>2. Sums(cs, S, f) BY ONLY <1>5, <3>1 DEF Sums
    <3> QED BY ONLY <3>2, TotalType
  <2>7. v = u + 1 BY ONLY <2>2, <2>3
  <2>8. w + u = t + v BY ONLY <2>4, <2>5, <2>6
  <2>9. w = t + 1 BY ONLY <2>7, <2>8, w \in Nat, t \in Nat, u \in Nat, v \in Nat
  <2>10. Total(cs, S, f) = Total(bs, S, f) + 1 BY ONLY <2>5, <2>6, <2>9
  <2> QED BY ONLY <1>2, <1>3, <1>4, <1>12, <2>10 DEF Total
<1>13. CASE ~(f = field /\ b \in S)
  <2>1. ASSUME NEW i \in S PROVE bs[i][f] = cs[i][f]
    <3>1. CASE i # b BY ONLY <1>5, <1>8, <2>1, <3>1
    <3>2. CASE i = b
      <4>1. f # field BY ONLY <1>13, <2>1, <3>2
      <4>2. e[f] = bs[b][f] BY ONLY <1>10, <4>1
      <4> QED BY ONLY <1>8, <1>9, <3>2, <4>2
    <3> QED BY ONLY <3>1, <3>2
  <2>2. Total(bs, S, f) = Total(cs, S, f) BY ONLY <2>1, TotalSame
  <2>3. PICK t \in Nat : t = Total(bs, S, f) BY ONLY <1>11
  <2>4. t = t + 0 BY ONLY t \in Nat
  <2>5. Total(cs, S, f) = Total(bs, S, f) + 0 BY ONLY <2>2, <2>3, <2>4
  <2> QED BY ONLY <1>2, <1>3, <1>4, <1>13, <2>5 DEF Total
<1> QED BY ONLY <1>2, <1>12, <1>13

\* A request that adds to its call's bucket, and what it is afterwards.
Adds(x, y, field) ==
    /\ ~Merging(y)
    /\ \A r \in Refs : /\ Owes(x, r, field) <=> r = x.ref
                       /\ ~Owes(y, r, field)
                       /\ \A f \in {"rest", "throttles"} \ {field} :
                             Owes(x, r, f) <=> Owes(y, r, f)

\* An answer that is due is counted, unless its bucket has left the ref's.
LEMMA AddCalls ==
    ASSUME ProviderInv, CallsInv, NEW m \in Mounts, NEW x \in Mount, x = mount[m],
           x.call # Nothing, NEW field \in {"rest", "throttles"},
           AddTo(x.call.bucket, field), table' = table, answered' = answered,
           crossed' = crossed, NEW y, mount' = [mount EXCEPT ![m] = y],
           Adds(x, y, field), CallOf(y)'
    PROVE  CallsInv'
<1>1. /\ mount \in [Mounts -> Mount] /\ Staged(x, clock) /\ Shown(x)
      /\ RequestsTypeOK /\ MountTyped(x, Len(buckets)) /\ Len(buckets) \in Nat
      /\ Owned /\ CallsAreCounted /\ CallOf(x)
      /\ \A n \in Mounts : Staged(mount[n], clock)
  BY Mover DEF CallsInv, Owned, ProviderInv, Typed
<1>2. PICK b : b = x.call.bucket OBVIOUS
<1>3. b \in 1..Len(buckets) /\ b # 0
  BY ONLY <1>1, <1>2, x.call # Nothing DEF MountTyped
<1>4. x.pc \in {"resolving", "content"} BY ONLY <1>1, x.call # Nothing DEF Staged
<1>5. ~Merging(x) /\ ~Merging(y) /\ ~Merging(mount[m])
  BY ONLY <1>4, x = mount[m], Adds(x, y, field) DEF Merging, Adds
<1>6. AddTo(b, field) /\ crossed \subseteq crossed'
  BY ONLY <1>2, AddTo(x.call.bucket, field), crossed' = crossed
<1>7. Owned'
  <2>1. PICK key \in CounterKey : Rekeys(key) BY ONLY Unmoved, table' = table
  <2>2. Takes(y) BY ONLY <1>5 DEF Takes
  <2> QED BY ONLY <1>1, <2>1, <2>2, CallOf(y)', m \in Mounts,
                  mount' = [mount EXCEPT ![m] = y], TurnOwned
<1>8. DueMoves(x, y)
  BY ONLY <1>1, x = mount[m], mount' = [mount EXCEPT ![m] = y], m \in Mounts, DueTurn
<1>9. x.ref \in Refs BY ONLY <1>1, <1>4 DEF Staged, Window
<1>10. ASSUME NEW r \in Refs, r # x.ref PROVE b \notin BucketsOf(r)
  <2>1. \A k \in CounterKey : table[k] = b => k[1] = x.ref
    BY ONLY <1>1, <1>2, x.call # Nothing DEF CallOf
  <2>2. \A n \in Mounts : Merging(mount[n]) /\ mount[n].held = b => mount[n].ref = x.ref
    BY ONLY <1>1, <1>2, x.call # Nothing DEF CallOf
  <2> QED BY ONLY <1>10, <2>1, <2>2, InBuckets
<1>11. ASSUME x.ref \notin crossed PROVE b \in BucketsOf(x.ref)
  <2>1. PICK k : k = <<x.ref, x.commit>> OBVIOUS
  <2>2. table[k] = b
    <3>1. CASE x.pc = "resolving"
      <4>1. x.commit = Resolving BY ONLY <1>1, <3>1 DEF Staged
      <4> QED BY ONLY <1>1, <1>2, <1>11, <2>1, <3>1, <4>1, x.call # Nothing DEF Shown
    <3>2. CASE x.pc = "content"
      BY ONLY <1>1, <1>2, <2>1, <3>2, x.call # Nothing DEF CallOf
    <3> QED BY ONLY <1>4, <3>1, <3>2
  <2>3. k \in CounterKey /\ k[1] = x.ref
    <3>1. x.commit \in Commits \cup {Resolving} BY ONLY x \in Mount DEF Mount
    <3> QED BY ONLY <1>9, <2>1, <3>1 DEF CounterKey
  <2> QED BY ONLY <1>3, <1>9, <2>2, <2>3, InBuckets
<1>12. ASSUME NEW r \in Refs, NEW f \in {"rest", "throttles"} PROVE Fair(r, f)'
  <2>1. Fair(r, f) BY ONLY <1>1, <1>12, FairAll
  <2>2. PICK t \in Nat, d \in Nat, a \in Nat :
           /\ t = Total(buckets, BucketsOf(r), f)
           /\ d = Cardinality(Due(r, f)) /\ a = answered[r][f]
    BY ONLY <1>12, ProviderInv, CountedType
  <2>3. Total(buckets, BucketsOf(r), f)'
           = t + (IF f = field /\ b \in BucketsOf(r) THEN 1 ELSE 0)
    <3>1. Total(buckets, BucketsOf(r), f)'
             = Total(buckets, BucketsOf(r), f)
                 + (IF f = field /\ b \in BucketsOf(r) THEN 1 ELSE 0)
      BY ONLY <1>3, <1>5, <1>6, <1>12, ProviderInv, m \in Mounts, table' = table,
              mount' = [mount EXCEPT ![m] = y], field \in {"rest", "throttles"}, AddTotals
    <3> QED BY ONLY <2>2, <3>1
  <2>4. answered'[r][f] = answered[r][f] /\ a = answered'[r][f]
    BY ONLY <2>2, answered' = answered
  <2>5. CASE f = field /\ r = x.ref
    <3>1. Owes(x, r, f) /\ ~Owes(y, r, f)
      BY ONLY <1>12, <2>5, Adds(x, y, field) DEF Adds
    <3>2. PICK d1 \in Nat : d1 = Cardinality(Due(r, f)') /\ d = d1 + 1
      BY ONLY <1>8, <1>12, <2>2, <3>1 DEF DueMoves
    <3>3. CASE b \in BucketsOf(r)
      <4>1. PICK t1 \in Nat : t1 = t + 1 BY ONLY t \in Nat
      <4>2. t1 = Total(buckets, BucketsOf(r), f)' BY ONLY <2>3, <2>5, <3>3, <4>1
      <4>3. t1 + d1 + a = t + d + a
        BY ONLY <3>2, <4>1, t \in Nat, d1 \in Nat, a \in Nat
      <4>4. t1 + d1 + answered[r][f]
              = Total(buckets, BucketsOf(r), f) + Cardinality(Due(r, f)) + a
        BY ONLY <2>2, <4>3
      <4> QED BY ONLY <1>6, <1>12, <2>1, <2>4, <3>2, <4>2, <4>4, ProviderInv,
                      t1 \in Nat, d1 \in Nat, a \in Nat, FairTurn
    <3>4. CASE b \notin BucketsOf(r)
      <4>1. r \in crossed BY ONLY <1>11, <2>5, <3>4
      <4>2. t = Total(buckets, BucketsOf(r), f)' BY ONLY <2>3, <3>4, t \in Nat
      <4>3. t + d1 <= t + d BY ONLY <3>2, t \in Nat, d1 \in Nat
      <4>4. t + d1 <= Total(buckets, BucketsOf(r), f) + Cardinality(Due(r, f))
        BY ONLY <2>2, <4>3
      <4>5. a = answered[r][f] BY ONLY <2>2
      <4> QED BY ONLY <1>6, <1>12, <2>1, <2>4, <3>2, <4>1, <4>2, <4>4, <4>5, ProviderInv,
                      t \in Nat, d1 \in Nat, a \in Nat, FairTurn
    <3> QED BY ONLY <3>3, <3>4
  <2>6. CASE ~(f = field /\ r = x.ref)
    <3>1. Owes(x, r, f) <=> Owes(y, r, f)
      BY ONLY <1>12, <2>6, Adds(x, y, field) DEF Adds
    <3>2. Cardinality(Due(r, f)') = Cardinality(Due(r, f))
      BY ONLY <1>8, <1>12, <3>1 DEF DueMoves
    <3>3. ~(f = field /\ b \in BucketsOf(r)) BY ONLY <1>10, <1>12, <2>6
    <3>4. Total(buckets, BucketsOf(r), f)' = Total(buckets, BucketsOf(r), f)
      BY ONLY <2>2, <2>3, <3>3, t \in Nat
    <3> QED BY ONLY <1>6, <1>12, <2>1, <2>4, <3>2, <3>4, ProviderInv, FairStays
  <2> QED BY ONLY <2>5, <2>6
<1>13. CallsAreCounted' BY ONLY <1>12, FairAllNext
<1> QED BY ONLY <1>7, <1>13 DEF CallsInv

\* The end of a call: whichever way the request goes on, it has none.
LEMMA ReturnTo ==
    ASSUME NEW m \in Mounts, NEW x \in Mount, x = mount[m],
           x.pc \in {"resolving", "content"}, Return(m)
    PROVE  \E y : /\ mount' = [mount EXCEPT ![m] = y]
                  /\ y.call = Nothing /\ ~Merging(y)
<1>1. PICK commit : commit = IF x.ref[1] = "branch" THEN Last ELSE x.ref[2] OBVIOUS
<1>2. PICK z : z = [x EXCEPT !.call = Nothing] OBVIOUS
<1>3. z.pc = x.pc /\ z.ref = x.ref /\ z.call = Nothing
  BY ONLY <1>2, x \in Mount DEF Mount
<1>4. PICK w : w = [NewMount EXCEPT !.pc = "dropping", !.ref = x.ref, !.commit = commit]
  OBVIOUS
<1>5. /\ w.call = Nothing /\ ~Merging(w)
      /\ NewMount.call = Nothing /\ ~Merging(NewMount)
  BY ONLY <1>4 DEF NewMount, Merging
<1>6. ~Merging(z) BY ONLY <1>3, x.pc \in {"resolving", "content"} DEF Merging
<1>7. \/ mount' = [mount EXCEPT ![m] = NewMount]
      \/ mount' = [mount EXCEPT ![m] = z]
      \/ mount' = [mount EXCEPT ![m] = w]
  BY ONLY <1>1, <1>2, <1>3, <1>4, x = mount[m], Return(m) DEF Return
<1> QED BY ONLY <1>3, <1>5, <1>6, <1>7

\* record_rest_call.
LEMMA RecordCalls ==
    ASSUME ProviderInv, CallsInv, NEW m \in Mounts, Record(m)
    PROVE  CallsInv'
<1>1. PICK x \in Mount : x = mount[m] BY Mover
<1>2. PICK o : o = x.call OBVIOUS
<1>3. /\ o # Nothing /\ o.step = "rest" /\ AddTo(o.bucket, "rest")
      /\ table' = table /\ answered' = answered /\ crossed' = crossed
      /\ IF o.result = "Throttled"
         THEN mount' = [mount EXCEPT ![m].call.step = "mark"]
         ELSE Return(m)
  BY <1>1, <1>2 DEF Record
<1>4. /\ mount \in [Mounts -> Mount] /\ Staged(x, clock) /\ CallOf(x)
  BY <1>1, Mover DEF CallsInv, Owned
<1>5. o \in Call /\ x.pc \in {"resolving", "content"}
  BY ONLY <1>2, <1>3, <1>4, x \in Mount DEF Mount, Staged
<1>6. PICK field \in {"rest", "throttles"} : field = "rest" OBVIOUS
<1>7. AddTo(x.call.bucket, field) /\ x.call # Nothing BY ONLY <1>2, <1>3, <1>6
<1>8. CASE o.result # "Throttled"
  <2>1. PICK y : mount' = [mount EXCEPT ![m] = y] /\ y.call = Nothing /\ ~Merging(y)
    BY ONLY <1>1, <1>3, <1>5, <1>8, m \in Mounts, x \in Mount, ReturnTo
  <2>2. Adds(x, y, field) BY ONLY <1>2, <1>3, <1>6, <1>8, <2>1 DEF Adds, Owes
  <2>3. CallOf(y)' BY ONLY <2>1 DEF CallOf
  <2> QED BY ONLY <1>1, <1>3, <1>7, <2>1, <2>2, <2>3, ProviderInv, CallsInv, m \in Mounts,
                  x \in Mount, field \in {"rest", "throttles"}, AddCalls
<1>9. CASE o.result = "Throttled"
  <2>1. PICK c : c = [o EXCEPT !.step = "mark"] OBVIOUS
  <2>2. c \in Call /\ c.bucket = o.bucket /\ c.result = "Throttled" /\ c.step = "mark"
    BY ONLY <1>5, <1>9, <2>1 DEF Call
  <2>3. PICK y : y = [x EXCEPT !.call = c] OBVIOUS
  <2>4. mount' = [mount EXCEPT ![m] = y]
    BY ONLY <1>1, <1>2, <1>3, <1>4, <1>9, <2>1, <2>3, x \in Mount DEF Mount
  <2>5. /\ y.call = c /\ y.pc = x.pc /\ y.ref = x.ref /\ y.commit = x.commit
    BY ONLY <2>2, <2>3, x \in Mount, CallSet
  <2>6. c # Nothing BY ONLY <2>2, NoCallAssumption
  <2>7. ~Merging(y) BY ONLY <1>5, <2>5 DEF Merging
  <2>8. Adds(x, y, field)
    BY ONLY <1>2, <1>3, <1>6, <1>9, <2>2, <2>5, <2>6, <2>7 DEF Adds, Owes
  <2>9. CallOf(y)'
    <3>1. PICK b : b = o.bucket OBVIOUS
    <3>2. /\ \A k \in CounterKey : table[k] = b => k[1] = x.ref
          /\ \A n \in Mounts : Merging(mount[n]) /\ mount[n].held = b
                                  => mount[n].ref = x.ref
          /\ x.pc = "content" => table[<<x.ref, x.commit>>] = b
      BY ONLY <1>2, <1>3, <1>4, <3>1 DEF CallOf
    <3>3. \A n \in Mounts : Merging(mount'[n]) => mount'[n] = mount[n]
      BY ONLY <1>4, <2>4, <2>7, m \in Mounts
    <3>4. \A n \in Mounts : Merging(mount'[n]) /\ mount'[n].held = b
                               => mount'[n].ref = x.ref
      BY ONLY <3>2, <3>3
    <3>5. y.call.bucket = b BY ONLY <2>2, <2>5, <3>1
    <3> QED BY ONLY <1>3, <2>5, <3>2, <3>4, <3>5 DEF CallOf
  <2> QED BY ONLY <1>1, <1>3, <1>7, <2>4, <2>8, <2>9, ProviderInv, CallsInv, m \in Mounts,
                  x \in Mount, field \in {"rest", "throttles"}, AddCalls
<1> QED BY ONLY <1>8, <1>9

\* record_throttle_event.
LEMMA RecordThrottleCalls ==
    ASSUME ProviderInv, CallsInv, NEW m \in Mounts, RecordThrottle(m)
    PROVE  CallsInv'
<1>1. PICK x \in Mount : x = mount[m] BY Mover
<1>2. PICK o : o = x.call OBVIOUS
<1>3. /\ o # Nothing /\ o.step = "throttle" /\ AddTo(o.bucket, "throttles")
      /\ table' = table /\ answered' = answered /\ crossed' = crossed
      /\ Return(m)
  BY <1>1, <1>2 DEF RecordThrottle
<1>4. Staged(x, clock) BY <1>1, Mover
<1>5. x.pc \in {"resolving", "content"} /\ o.result = "Throttled"
  BY ONLY <1>2, <1>3, <1>4 DEF Staged
<1>6. PICK field \in {"rest", "throttles"} : field = "throttles" OBVIOUS
<1>7. AddTo(x.call.bucket, field) /\ x.call # Nothing BY ONLY <1>2, <1>3, <1>6
<1>8. PICK y : mount' = [mount EXCEPT ![m] = y] /\ y.call = Nothing /\ ~Merging(y)
  BY ONLY <1>1, <1>3, <1>5, m \in Mounts, x \in Mount, ReturnTo
<1>9. Adds(x, y, field) BY ONLY <1>2, <1>3, <1>5, <1>6, <1>8 DEF Adds, Owes
<1>10. CallOf(y)' BY ONLY <1>8 DEF CallOf
<1> QED BY ONLY <1>1, <1>3, <1>7, <1>8, <1>9, <1>10, ProviderInv, CallsInv, m \in Mounts,
                x \in Mount, field \in {"rest", "throttles"}, AddCalls

-----------------------------------------------------------------------------
(* Requests: a placeholder's bucket is folded in.                          *)

\* Where a request without a call moves, no answer comes to be due.
LEMMA QuietDue ==
    ASSUME ProviderInv, NEW m \in Mounts, NEW x, x = mount[m], NEW y,
           mount' = [mount EXCEPT ![m] = y], x.call = Nothing, y.call = Nothing,
           NEW r \in Refs, NEW field \in {"rest", "throttles"}
    PROVE  Cardinality(Due(r, field)') = Cardinality(Due(r, field))
<1>1. mount \in [Mounts -> Mount] BY Mover
<1>2. DueMoves(x, y)
  BY ONLY <1>1, m \in Mounts, x = mount[m], mount' = [mount EXCEPT ![m] = y], DueTurn
<1>3. ~Owes(x, r, field) /\ ~Owes(y, r, field)
  BY ONLY x.call = Nothing, y.call = Nothing DEF Owes
<1> QED BY ONLY <1>2, <1>3, r \in Refs, field \in {"rest", "throttles"} DEF DueMoves

\* merge_and_drop_placeholder, the removal: the bucket is still its ref's.
LEMMA DropCalls ==
    ASSUME ProviderInv, CallsInv, NEW m \in Mounts, DropPlaceholder(m)
    PROVE  CallsInv'
<1>1. PICK x \in Mount : x = mount[m] BY Mover
<1>2. /\ RequestsTypeOK /\ mount \in [Mounts -> Mount]
      /\ Staged(x, clock) /\ MountTyped(x, Len(buckets)) /\ Len(buckets) \in Nat
      /\ table \in [CounterKey -> 0..Len(buckets)]
      /\ Owned /\ CallsAreCounted
      /\ \A n \in Mounts : Staged(mount[n], clock)
  BY <1>1, Mover DEF CallsInv, ProviderInv, Typed
<1>3. PICK key : key = <<x.ref, Resolving>> OBVIOUS
<1>4. /\ x.pc = "dropping"
      /\ mount' = [mount EXCEPT
            ![m].pc = IF table[key] = 0 THEN "content" ELSE "merging",
            ![m].held = table[key]]
      /\ table' = [table EXCEPT ![key] = 0] /\ buckets' = buckets
      /\ answered' = answered /\ crossed' = crossed
  BY <1>1, <1>3 DEF DropPlaceholder
<1>5. x.ref \in Refs /\ x.call = Nothing
  BY ONLY <1>2, <1>4 DEF Staged, Window
<1>6. key \in CounterKey /\ key[1] = x.ref /\ key[2] = Resolving
  BY ONLY <1>3, <1>5 DEF CounterKey
<1>7. PICK h : h = table[key] OBVIOUS
<1>8. PICK p : p = IF h = 0 THEN "content" ELSE "merging" OBVIOUS
<1>9. PICK y : y = [x EXCEPT !.pc = p, !.held = h] OBVIOUS
<1>10. mount' = [mount EXCEPT ![m] = y]
  BY ONLY <1>1, <1>2, <1>4, <1>7, <1>8, <1>9, x \in Mount DEF Mount
<1>11. y.pc = p /\ y.held = h /\ y.call = Nothing /\ y.ref = x.ref
  BY ONLY <1>5, <1>9, x \in Mount DEF Mount
<1>12. \A k \in CounterKey : table'[k] = IF k = key THEN 0 ELSE table[k]
  BY ONLY <1>2, <1>4, <1>6
<1>13. Merging(y) <=> h # 0 BY ONLY <1>8, <1>11 DEF Merging
<1>14. ~Merging(x) BY ONLY <1>4 DEF Merging
<1>15. Owned'
  <2>1. Takes(y) BY ONLY <1>6, <1>7, <1>11, <1>12, <1>13 DEF Takes
  <2>2. Rekeys(key)
    BY ONLY <1>6, <1>12 DEF Rekeys, Keeps
  <2>3. CallOf(y)' BY ONLY <1>11 DEF CallOf
  <2> QED BY ONLY <1>2, <1>6, <1>10, <2>1, <2>2, <2>3, m \in Mounts, TurnOwned
<1>16. \A i \in Mounts : mount'[i] = IF i = m THEN y ELSE mount[i]
  BY ONLY <1>2, <1>10, m \in Mounts
<1>17. crossed \subseteq crossed' BY ONLY <1>4
<1>18. ASSUME NEW r \in Refs, NEW field \in {"rest", "throttles"} PROVE Fair(r, field)'
  <2>1. Fair(r, field) BY ONLY <1>2, <1>18, FairAll
  <2>2. PICK S, T : S = BucketsOf(r) /\ T = BucketsOf(r)' OBVIOUS
  <2>3. \A b : b \in S <=>
              \/ b # 0 /\ \E k \in CounterKey : k[1] = r /\ table[k] = b
              \/ \E n \in Mounts : /\ mount[n].ref = r /\ Merging(mount[n])
                                   /\ mount[n].held = b
    BY ONLY <1>18, <2>2, InBuckets
  <2>4. \A b : b \in T <=>
              \/ b # 0 /\ \E k \in CounterKey : k[1] = r /\ table'[k] = b
              \/ \E n \in Mounts : /\ mount'[n].ref = r /\ Merging(mount'[n])
                                   /\ mount'[n].held = b
    BY ONLY <1>18, <2>2, InBucketsNext
  <2>5. ASSUME NEW b \in S PROVE b \in T
    <3>1. CASE b # 0 /\ \E k \in CounterKey : k[1] = r /\ table[k] = b
      <4>1. PICK k \in CounterKey : k[1] = r /\ table[k] = b BY ONLY <3>1
      <4>2. CASE k = key
        <5>1. Merging(y) /\ y.held = b /\ y.ref = r
          BY ONLY <1>6, <1>7, <1>11, <1>13, <3>1, <4>1, <4>2
        <5>2. mount'[m] = y BY ONLY <1>16, m \in Mounts
        <5> QED BY ONLY <2>4, <5>1, <5>2, m \in Mounts
      <4>3. CASE k # key
        <5>1. table'[k] = b BY ONLY <1>12, <4>1, <4>3
        <5> QED BY ONLY <2>4, <3>1, <4>1, <5>1
      <4> QED BY ONLY <4>2, <4>3
    <3>2. CASE \E n \in Mounts : /\ mount[n].ref = r /\ Merging(mount[n])
                                 /\ mount[n].held = b
      <4>1. PICK n \in Mounts : /\ mount[n].ref = r /\ Merging(mount[n])
                                /\ mount[n].held = b
        BY ONLY <3>2
      <4>2. n # m BY ONLY <1>1, <1>14, <4>1
      <4>3. mount'[n] = mount[n] BY ONLY <1>16, <4>2
      <4> QED BY ONLY <2>4, <4>1, <4>3
    <3> QED BY ONLY <2>3, <2>5, <3>1, <3>2
  <2>6. ASSUME NEW b \in T PROVE b \in S
    <3>1. CASE b # 0 /\ \E k \in CounterKey : k[1] = r /\ table'[k] = b
      <4>1. PICK k \in CounterKey : k[1] = r /\ table'[k] = b BY ONLY <3>1
      <4>2. table[k] = b BY ONLY <1>12, <3>1, <4>1
      <4> QED BY ONLY <2>3, <3>1, <4>1, <4>2
    <3>2. CASE \E n \in Mounts : /\ mount'[n].ref = r /\ Merging(mount'[n])
                                 /\ mount'[n].held = b
      <4>1. PICK n \in Mounts : /\ mount'[n].ref = r /\ Merging(mount'[n])
                                /\ mount'[n].held = b
        BY ONLY <3>2
      <4>2. CASE n = m
        <5>1. mount'[n] = y BY ONLY <1>16, <4>2
        <5>2. h # 0 /\ b = h /\ r = x.ref BY ONLY <1>11, <1>13, <4>1, <5>1
        <5> QED BY ONLY <1>6, <1>7, <2>3, <5>2
      <4>3. CASE n # m
        <5>1. mount'[n] = mount[n] BY ONLY <1>16, <4>3
        <5> QED BY ONLY <2>3, <4>1, <5>1
      <4> QED BY ONLY <4>2, <4>3
    <3> QED BY ONLY <2>4, <2>6, <3>1, <3>2
  <2>7. S = T BY ONLY <2>5, <2>6
  <2>8. Total(buckets, BucketsOf(r), field)' = Total(buckets, BucketsOf(r), field)
    BY ONLY <1>4, <2>2, <2>7 DEF Total
  <2>9. Cardinality(Due(r, field)') = Cardinality(Due(r, field))
    BY ONLY <1>1, <1>5, <1>10, <1>11, <1>18, ProviderInv, m \in Mounts, QuietDue
  <2>10. answered'[r][field] = answered[r][field] BY ONLY <1>4
  <2> QED BY ONLY <1>17, <1>18, <2>1, <2>8, <2>9, <2>10, ProviderInv, FairStays
<1>19. CallsAreCounted' BY ONLY <1>18, FairAllNext
<1> QED BY ONLY <1>15, <1>19 DEF CallsInv

\* The bucket h of S is poured into c, which is in S or new.
Pours(bs, cs, S, T, h, c, field) ==
    /\ Sums(bs, S, field) /\ h \in S /\ c # h
    /\ T = (S \ {h}) \cup {c}
    /\ \A b \in S \ {h, c} : cs[b][field] = bs[b][field]
    /\ c \in S => cs[c][field] = bs[c][field] + bs[h][field]
    /\ c \notin S => cs[c][field] = bs[h][field]

\* What is poured is not lost.
LEMMA TotalPours ==
    ASSUME NEW bs, NEW cs, NEW S, NEW T, NEW h, NEW c, NEW field,
           Pours(bs, cs, S, T, h, c, field)
    PROVE  Total(cs, T, field) = Total(bs, S, field)
<1>1. /\ Sums(bs, S, field) /\ h \in S /\ c # h
      /\ T = (S \ {h}) \cup {c}
      /\ \A b \in S \ {h, c} : cs[b][field] = bs[b][field]
  BY ONLY Pours(bs, cs, S, T, h, c, field) DEF Pours
<1>2. PICK R : R = S \ {h} OBVIOUS
<1>3. PICK u \in Nat, t \in Nat :
         /\ u = bs[h][field] /\ t = Total(bs, R, field)
         /\ Sums(bs, R, field)
         /\ Total(bs, S, field) = t + u
  <2>1. PICK z \in S : z = h BY ONLY <1>1
  <2>2. Sums(bs, S, field) BY ONLY <1>1
  <2>3. /\ Sums(bs, S \ {z}, field)
        /\ Total(bs, S \ {z}, field) \in Nat /\ bs[z][field] \in Nat
        /\ Total(bs, S, field) = Total(bs, S \ {z}, field) + bs[z][field]
    BY ONLY <2>2, z \in S, TotalRemove
  <2> QED BY ONLY <1>2, <2>1, <2>3
<1>4. CASE c \in S
  <2>1. c \in R /\ T = R BY ONLY <1>1, <1>2, <1>4
  <2>2. PICK v \in Nat : v = bs[c][field] BY ONLY <1>3, <2>1 DEF Sums
  <2>3. PICK w \in Nat : w = cs[c][field] /\ w = v + u
    <3>1. cs[c][field] = v + u
      BY ONLY <1>3, <1>4, <2>2, Pours(bs, cs, S, T, h, c, field) DEF Pours
    <3>2. v + u \in Nat BY ONLY v \in Nat, u \in Nat
    <3> QED BY ONLY <3>1, <3>2
  <2>4. \A b \in R \ {c} : cs[b][field] = bs[b][field] BY ONLY <1>1, <1>2
  <2>5. cs[c][field] \in Nat BY ONLY <2>3
  <2>6. /\ Sums(cs, R, field)
        /\ Total(cs, R, field) + bs[c][field] = Total(bs, R, field) + cs[c][field]
    <3>1. PICK z \in R : z = c BY ONLY <2>1
    <3>2. cs[z][field] \in Nat /\ \A b \in R \ {z} : cs[b][field] = bs[b][field]
      BY ONLY <2>4, <2>5, <3>1
    <3>3. /\ Sums(cs, R, field)
          /\ Total(cs, R, field) + bs[z][field] = Total(bs, R, field) + cs[z][field]
      BY ONLY <1>3, <3>2, z \in R, TotalChange
    <3> QED BY ONLY <3>1, <3>3
  <2>7. PICK s \in Nat : s = Total(cs, R, field) BY ONLY <2>6, TotalType
  <2>8. s + v = t + w BY ONLY <1>3, <2>2, <2>3, <2>6, <2>7
  <2>9. s = t + u
    BY ONLY <2>3, <2>8, s \in Nat, t \in Nat, u \in Nat, v \in Nat
  <2> QED BY ONLY <1>3, <2>1, <2>7, <2>9
<1>5. CASE c \notin S
  <2>1. c \notin R /\ T = R \cup {c} BY ONLY <1>1, <1>2, <1>5
  <2>2. cs[c][field] = u
    BY ONLY <1>3, <1>5, Pours(bs, cs, S, T, h, c, field) DEF Pours
  <2>3. \A b \in R : bs[b][field] = cs[b][field] BY ONLY <1>1, <1>2, <1>5
  <2>4. Total(cs, R, field) = t
    <3>1. Total(bs, R, field) = Total(cs, R, field) BY ONLY <2>3, TotalSame
    <3> QED BY ONLY <1>3, <3>1
  <2>5. Sums(cs, R, field) BY ONLY <1>3, <2>3 DEF Sums
  <2>6. cs[c][field] \in Nat BY ONLY <2>2, u \in Nat
  <2>7. Joins(cs, R, field, c) BY ONLY <2>1, <2>5, <2>6 DEF Joins
  <2>8. Total(cs, R \cup {c}, field) = Total(cs, R, field) + cs[c][field]
    BY ONLY <2>7, TotalAdd
  <2> QED BY ONLY <1>3, <2>1, <2>2, <2>4, <2>8
<1> QED BY ONLY <1>4, <1>5

\* A step that adds bucket h to that of `key`, which is c: one of the `len`
\* there are, or a new one.
MergesIn(h, key, len, c) ==
    /\ IF table[key] = 0 THEN c = len + 1 ELSE c = table[key] /\ c # len + 1
    /\ \A k \in CounterKey : table'[k] = IF k = key THEN c ELSE table[k]
    /\ \A b \in 1..len \ {c} : buckets'[b] = buckets[b]
    /\ \A f \in {"rest", "throttles"} :
          buckets'[c][f] = (IF table[key] = 0 THEN 0 ELSE buckets[c][f])
                              + buckets[h][f]

\* merge_and_drop_placeholder, the addition: what the step does to the table
\* and to the buckets.
LEMMA MergeEffect ==
    ASSUME ProviderInv, NEW m \in Mounts, MergeIn(m), NEW x \in Mount, x = mount[m],
           NEW key \in CounterKey, key = KeyOf(m),
           NEW len \in Nat, len = Len(buckets)
    PROVE  \E c \in 1..(len + 1) : MergesIn(x.held, key, len, c)
<1>1. /\ RequestsTypeOK /\ buckets \in Seq(MountCounters)
      /\ table \in [CounterKey -> 0..len]
  BY Mover
<1>2. PICK bs, cs, h : bs = buckets /\ cs = buckets' /\ h = x.held OBVIOUS
<1>3. PICK snap : snap = bs[h] OBVIOUS
<1>4. /\ table' = [table EXCEPT ![key] = BucketAt(key)]
      /\ buckets' = IF table[key] = 0 THEN Append(buckets, Merge(NewCounters, snap))
                    ELSE [buckets EXCEPT ![table[key]] = Merge(@, snap)]
  BY <1>2, <1>3 DEF MergeIn
<1>5. \A u : Merge(u, snap)["rest"] = u.rest + snap.rest
             /\ Merge(u, snap)["throttles"] = u.throttles + snap.throttles
  BY ONLY DEF Merge
<1>6. CASE table[key] = 0
  <2>1. PICK e : e = Merge(NewCounters, snap) OBVIOUS
  <2>2. /\ table' = [table EXCEPT ![key] = Len(buckets) + 1]
        /\ buckets' = Append(buckets, e)
    BY ONLY <1>4, <1>6, <2>1 DEF BucketAt
  <2>3. /\ \A k \in CounterKey :
              table'[k] = IF k = key THEN Len(buckets) + 1 ELSE table[k]
        /\ \A b \in 1..Len(buckets) : buckets'[b] = buckets[b]
        /\ buckets'[Len(buckets) + 1] = e
    BY ONLY <1>1, <1>6, <2>2, key \in CounterKey, NewBucketTable
  <2>4. \A f \in {"rest", "throttles"} : e[f] = 0 + snap[f]
    BY ONLY <1>5, <2>1 DEF NewCounters
  <2>5. PICK c \in 1..(len + 1) : c = len + 1 BY ONLY len \in Nat
  <2>6. /\ \A k \in CounterKey : table'[k] = IF k = key THEN c ELSE table[k]
        /\ \A b \in 1..len \ {c} : buckets'[b] = buckets[b]
        /\ buckets'[c] = e
    BY ONLY <2>3, <2>5, len = Len(buckets)
  <2>7. \A f \in {"rest", "throttles"} :
           buckets'[c][f] = (IF table[key] = 0 THEN 0 ELSE buckets[c][f])
                               + buckets[x.held][f]
    BY ONLY <1>2, <1>3, <1>6, <2>4, <2>6
  <2>8. IF table[key] = 0 THEN c = len + 1 ELSE c = table[key] /\ c # len + 1
    BY ONLY <1>6, <2>5
  <2>9. MergesIn(x.held, key, len, c) BY ONLY <2>6, <2>7, <2>8 DEF MergesIn
  <2> QED BY ONLY <2>9, c \in 1..(len + 1)
<1>7. CASE table[key] # 0
  <2>1. PICK c \in 1..len : c = table[key]
    <3>1. table[key] \in 0..len BY ONLY <1>1, key \in CounterKey
    <3> QED BY ONLY <1>7, <3>1
  <2>2. PICK e : e = Merge(bs[c], snap) OBVIOUS
  <2>3. /\ table' = [table EXCEPT ![key] = c]
        /\ buckets' = [buckets EXCEPT ![c] = e]
    BY ONLY <1>2, <1>4, <1>7, <2>1, <2>2 DEF BucketAt
  <2>4. DOMAIN buckets = 1..len BY ONLY <1>1, len = Len(buckets), LenProperties
  <2>5. /\ \A k \in CounterKey : table'[k] = IF k = key THEN c ELSE table[k]
        /\ \A b \in 1..len \ {c} : buckets'[b] = buckets[b]
        /\ buckets'[c] = e
    <3>1. \A k \in CounterKey : table'[k] = IF k = key THEN c ELSE table[k]
      BY ONLY <1>1, <2>3, key \in CounterKey
    <3>2. \A b \in 1..len : buckets'[b] = IF b = c THEN e ELSE buckets[b]
      BY ONLY <2>3, <2>4
    <3> QED BY ONLY <3>1, <3>2, c \in 1..len
  <2>6. \A f \in {"rest", "throttles"} : e[f] = bs[c][f] + snap[f]
    BY ONLY <1>5, <2>2
  <2>7. \A f \in {"rest", "throttles"} :
           buckets'[c][f] = (IF table[key] = 0 THEN 0 ELSE buckets[c][f])
                               + buckets[x.held][f]
    BY ONLY <1>2, <1>3, <1>7, <2>5, <2>6
  <2>8. c # len + 1 /\ c \in 1..(len + 1) BY ONLY c \in 1..len, len \in Nat
  <2>9. IF table[key] = 0 THEN c = len + 1 ELSE c = table[key] /\ c # len + 1
    BY ONLY <1>7, <2>1, <2>8
  <2>10. MergesIn(x.held, key, len, c) BY ONLY <2>5, <2>7, <2>9 DEF MergesIn
  <2> QED BY ONLY <2>8, <2>10
<1> QED BY ONLY <1>6, <1>7

\* It pours the held bucket into the commit's, and no other ref's changes.
LEMMA MergeTotals ==
    ASSUME ProviderInv, Owned, NEW m \in Mounts, NEW x \in Mount, x = mount[m],
           Merging(x), x.held # 0, NEW y, mount' = [mount EXCEPT ![m] = y], ~Merging(y),
           NEW key \in CounterKey, key[1] = x.ref,
           NEW len \in Nat, len = Len(buckets), NEW c \in 1..(len + 1),
           MergesIn(x.held, key, len, c),
           NEW r \in Refs, NEW field \in {"rest", "throttles"}
    PROVE  Total(buckets, BucketsOf(r), field)' = Total(buckets, BucketsOf(r), field)
<1>0. /\ IF table[key] = 0 THEN c = len + 1 ELSE c = table[key] /\ c # len + 1
      /\ \A k \in CounterKey : table'[k] = IF k = key THEN c ELSE table[k]
      /\ \A b \in 1..len \ {c} : buckets'[b] = buckets[b]
      /\ \A f \in {"rest", "throttles"} :
            buckets'[c][f] = (IF table[key] = 0 THEN 0 ELSE buckets[c][f])
                                + buckets[x.held][f]
  BY ONLY MergesIn(x.held, key, len, c) DEF MergesIn
<1>1. /\ mount \in [Mounts -> Mount] /\ OneKey /\ OneFold /\ Removed
      /\ \A k \in CounterKey : table[k] \in 0..len
      /\ x.held \in 0..len
  <2>1. RequestsTypeOK /\ table \in [CounterKey -> 0..Len(buckets)]
        /\ mount \in [Mounts -> Mount] /\ MountTyped(x, Len(buckets))
    BY Mover
  <2> QED BY <2>1 DEF Owned, MountTyped
<1>2. PICK bs, cs, h : bs = buckets /\ cs = buckets' /\ h = x.held OBVIOUS
<1>3. PICK S, T : S = BucketsOf(r) /\ T = BucketsOf(r)' OBVIOUS
<1>4. \A b : b \in S <=>
            \/ b # 0 /\ \E k \in CounterKey : k[1] = r /\ table[k] = b
            \/ \E n \in Mounts : /\ mount[n].ref = r /\ Merging(mount[n])
                                 /\ mount[n].held = b
  BY ONLY <1>3, r \in Refs, InBuckets
<1>5. \A b : b \in T <=>
            \/ b # 0 /\ \E k \in CounterKey : k[1] = r /\ table'[k] = b
            \/ \E n \in Mounts : /\ mount'[n].ref = r /\ Merging(mount'[n])
                                 /\ mount'[n].held = b
  BY ONLY <1>3, r \in Refs, InBucketsNext
<1>6. S \subseteq 1..len /\ Sums(bs, S, field)
  BY ONLY <1>2, <1>3, ProviderInv, r \in Refs, field \in {"rest", "throttles"},
          len = Len(buckets), BucketsAre
<1>7. \A i \in Mounts : mount'[i] = IF i = m THEN y ELSE mount[i]
  BY ONLY <1>1, mount' = [mount EXCEPT ![m] = y], m \in Mounts
<1>8. \A i \in Mounts : Merging(mount'[i]) <=> i # m /\ Merging(mount[i])
  BY ONLY <1>7, ~Merging(y)
<1>9. \A b \in 1..len \ {c} : cs[b] = bs[b]
  BY ONLY <1>2, <1>0
<1>10. c \notin 1..len => table[key] = 0
  <2>1. table[key] \in 0..len BY ONLY <1>1, key \in CounterKey
  <2> QED BY ONLY <2>1, <1>0
<1>11. c # 0 /\ c # h
  <2>1. c # 0 BY ONLY c \in 1..(len + 1), len \in Nat
  <2>2. CASE c = len + 1 BY ONLY <1>1, <1>2, <2>2, len \in Nat
  <2>3. CASE c = table[key]
    BY ONLY <1>1, <1>2, <2>3, Merging(x), x = mount[m], m \in Mounts, key \in CounterKey
       DEF Removed
  <2> QED BY ONLY <2>1, <2>2, <2>3, <1>0
<1>12. CASE r # x.ref
  <2>1. \A k \in CounterKey : k[1] = r => table'[k] = table[k]
    BY ONLY <1>12, key[1] = x.ref, <1>0
  <2>2. \A i \in Mounts : /\ mount'[i].ref = r /\ Merging(mount'[i]) =>
                                mount'[i] = mount[i]
                          /\ mount[i].ref = r /\ Merging(mount[i]) =>
                                mount'[i] = mount[i]
    BY ONLY <1>7, <1>8, <1>12, x = mount[m]
  <2>3. \A b : b \in S <=> b \in T BY ONLY <1>4, <1>5, <2>1, <2>2
  <2>4. S = T BY ONLY <2>3
  <2>5. c \notin S
    <3>1. CASE c = len + 1 BY ONLY <1>6, <3>1, len \in Nat
    <3>2. CASE c = table[key]
      <4>1. \A k \in CounterKey : table[k] = c => k = key
        BY ONLY <1>1, <1>11, <3>2, key \in CounterKey DEF OneKey
      <4>2. \A n \in Mounts : Merging(mount[n]) => mount[n].held # c
        BY ONLY <1>1, <3>2, key \in CounterKey DEF Removed
      <4> QED BY ONLY <1>4, <1>12, <4>1, <4>2, key[1] = x.ref
    <3> QED BY ONLY <3>1, <3>2, <1>0
  <2>6. \A b \in S : bs[b][field] = cs[b][field] BY ONLY <1>6, <1>9, <2>5
  <2>7. Total(bs, S, field) = Total(cs, S, field) BY ONLY <2>6, TotalSame
  <2> QED BY ONLY <1>2, <1>3, <2>4, <2>7 DEF Total
<1>13. CASE r = x.ref
  <2>1. h \in S BY ONLY <1>2, <1>4, <1>13, Merging(x), x = mount[m], m \in Mounts
  <2>2. \A k \in CounterKey : table[k] # h
    BY ONLY <1>1, <1>2, Merging(x), x = mount[m], m \in Mounts DEF Removed
  <2>3. \A n \in Mounts : n # m /\ Merging(mount[n]) => mount[n].held # h
    BY ONLY <1>1, <1>2, Merging(x), x = mount[m], m \in Mounts DEF OneFold
  <2>4. c \in T
    <3>1. table'[key] = c
      BY ONLY key \in CounterKey, <1>0
    <3> QED BY ONLY <1>5, <1>11, <1>13, <3>1, key \in CounterKey, key[1] = x.ref
  <2>5. ASSUME NEW b \in T PROVE b = c \/ (b \in S /\ b # h)
    <3>1. CASE b # 0 /\ \E k \in CounterKey : k[1] = r /\ table'[k] = b
      <4>1. PICK k \in CounterKey : k[1] = r /\ table'[k] = b BY ONLY <3>1
      <4>2. b = c \/ table[k] = b
        BY ONLY <4>1, <1>0
      <4> QED BY ONLY <1>4, <2>2, <3>1, <4>1, <4>2
    <3>2. CASE \E n \in Mounts : /\ mount'[n].ref = r /\ Merging(mount'[n])
                                 /\ mount'[n].held = b
      <4>1. PICK n \in Mounts : /\ mount'[n].ref = r /\ Merging(mount'[n])
                                /\ mount'[n].held = b
        BY ONLY <3>2
      <4>2. n # m /\ Merging(mount[n]) /\ mount'[n] = mount[n]
        BY ONLY <1>7, <1>8, <4>1
      <4> QED BY ONLY <1>4, <2>3, <4>1, <4>2
    <3> QED BY ONLY <1>5, <2>5, <3>1, <3>2
  <2>6. ASSUME NEW b \in S, b # h PROVE b \in T
    <3>1. CASE b # 0 /\ \E k \in CounterKey : k[1] = r /\ table[k] = b
      <4>1. PICK k \in CounterKey : k[1] = r /\ table[k] = b BY ONLY <3>1
      <4>2. CASE k = key
        <5>1. table[key] # 0 /\ table[key] = b BY ONLY <3>1, <4>1, <4>2
        <5>2. c = b
          BY ONLY <5>1, <1>0
        <5> QED BY ONLY <2>4, <5>2
      <4>3. CASE k # key
        <5>1. table'[k] = b
          BY ONLY <4>1, <4>3, <1>0
        <5> QED BY ONLY <1>5, <3>1, <4>1, <5>1
      <4> QED BY ONLY <4>2, <4>3
    <3>2. CASE \E n \in Mounts : /\ mount[n].ref = r /\ Merging(mount[n])
                                 /\ mount[n].held = b
      <4>1. PICK n \in Mounts : /\ mount[n].ref = r /\ Merging(mount[n])
                                /\ mount[n].held = b
        BY ONLY <3>2
      <4>2. n # m BY ONLY <1>2, <2>6, <4>1, x = mount[m]
      <4>3. Merging(mount'[n]) /\ mount'[n] = mount[n] BY ONLY <1>7, <1>8, <4>1, <4>2
      <4> QED BY ONLY <1>5, <4>1, <4>3
    <3> QED BY ONLY <1>4, <2>6, <3>1, <3>2
  <2>7. T = (S \ {h}) \cup {c} BY ONLY <2>4, <2>5, <2>6
  <2>8. c \in S <=> table[key] # 0
    <3>1. ASSUME table[key] # 0 PROVE c \in S
      <4>1. c = table[key]
        BY ONLY <3>1, <1>0
      <4> QED BY ONLY <1>4, <1>11, <1>13, <4>1, key \in CounterKey, key[1] = x.ref
    <3>2. ASSUME table[key] = 0 PROVE c \notin S
      <4>1. c = len + 1
        BY ONLY <3>2, <1>0
      <4> QED BY ONLY <1>6, <4>1, len \in Nat
    <3> QED BY ONLY <3>1, <3>2
  <2>9. PICK u \in Nat : u = bs[h][field] BY ONLY <1>6, <2>1 DEF Sums
  <2>10. cs[c][field] = (IF table[key] = 0 THEN 0 ELSE bs[c][field]) + u
    BY ONLY <1>2, <2>9, field \in {"rest", "throttles"}, <1>0
  <2>11. c \in S => cs[c][field] = bs[c][field] + bs[h][field]
    BY ONLY <2>8, <2>9, <2>10
  <2>12. c \notin S => cs[c][field] = bs[h][field]
    <3>1. 0 + u = u BY ONLY u \in Nat
    <3> QED BY ONLY <2>8, <2>9, <2>10, <3>1
  <2>13. \A b \in S \ {h, c} : cs[b][field] = bs[b][field] BY ONLY <1>6, <1>9
  <2>14. Pours(bs, cs, S, T, h, c, field)
    BY ONLY <1>6, <1>11, <2>1, <2>7, <2>11, <2>12, <2>13 DEF Pours
  <2>15. Total(cs, T, field) = Total(bs, S, field) BY ONLY <2>14, TotalPours
  <2> QED BY ONLY <1>2, <1>3, <2>15 DEF Total
<1> QED BY ONLY <1>12, <1>13

\* merge_and_drop_placeholder, the addition: the accounts are what they were.
LEMMA MergeCalls ==
    ASSUME ProviderInv, CallsInv, NEW m \in Mounts, MergeIn(m)
    PROVE  CallsInv'
<1>1. PICK x \in Mount : x = mount[m] BY Mover
<1>2. /\ RequestsTypeOK /\ mount \in [Mounts -> Mount]
      /\ Staged(x, clock) /\ Len(buckets) \in Nat
      /\ Owned /\ CallsAreCounted
      /\ \A n \in Mounts : Staged(mount[n], clock)
  BY <1>1, Mover DEF CallsInv, ProviderInv, Typed
<1>3. /\ x.pc = "merging"
      /\ mount' = [mount EXCEPT ![m].pc = "content", ![m].held = 0]
      /\ answered' = answered /\ crossed' = crossed
  BY <1>1 DEF MergeIn
<1>4. /\ x.ref \in Refs /\ x.commit \in Commits /\ x.call = Nothing /\ x.held # 0
      /\ Merging(x)
  BY ONLY <1>2, <1>3 DEF Staged, Window, Merging
<1>5. PICK key : key = KeyOf(m) OBVIOUS
<1>6. key \in CounterKey /\ key = <<x.ref, x.commit>> /\ key[1] = x.ref
  <2>1. key = <<x.ref, x.commit>> BY ONLY <1>1, <1>5 DEF KeyOf
  <2> QED BY ONLY <1>4, <2>1 DEF CounterKey
<1>7. PICK len \in Nat : len = Len(buckets) BY ONLY <1>2
<1>8. PICK c \in 1..(len + 1) : MergesIn(x.held, key, len, c)
  BY ONLY <1>1, <1>5, <1>6, <1>7, ProviderInv, m \in Mounts, MergeIn(m), x \in Mount,
          MergeEffect
<1>9. PICK y : y = [x EXCEPT !.pc = "content", !.held = 0] OBVIOUS
<1>10. mount' = [mount EXCEPT ![m] = y]
  BY ONLY <1>1, <1>2, <1>3, <1>9, x \in Mount DEF Mount
<1>11. y.call = Nothing /\ ~Merging(y)
  BY ONLY <1>4, <1>9, x \in Mount DEF Mount, Merging
<1>12. Owned'
  <2>1. \A k \in CounterKey : \/ table'[k] \in {0, table[k]}
                              \/ k = key /\ table'[k] = len + 1
    BY ONLY <1>8 DEF MergesIn
  <2>2. \A k \in CounterKey : Keeps(k) BY ONLY <1>8 DEF Keeps, MergesIn
  <2>3. Rekeys(key) BY ONLY <1>7, <2>1, <2>2 DEF Rekeys
  <2>4. Takes(y) BY ONLY <1>11 DEF Takes
  <2>5. CallOf(y)' BY ONLY <1>11 DEF CallOf
  <2> QED BY ONLY <1>2, <1>6, <1>10, <2>3, <2>4, <2>5, m \in Mounts, TurnOwned
<1>13. crossed \subseteq crossed' BY ONLY <1>3
<1>14. ASSUME NEW r \in Refs, NEW field \in {"rest", "throttles"} PROVE Fair(r, field)'
  <2>1. Fair(r, field) BY ONLY <1>2, <1>14, FairAll
  <2>2. Total(buckets, BucketsOf(r), field)' = Total(buckets, BucketsOf(r), field)
    BY ONLY <1>1, <1>2, <1>4, <1>6, <1>7, <1>8, <1>10, <1>11, <1>14, ProviderInv,
            m \in Mounts, x \in Mount, MergeTotals
  <2>3. Cardinality(Due(r, field)') = Cardinality(Due(r, field))
    BY ONLY <1>1, <1>4, <1>10, <1>11, <1>14, ProviderInv, m \in Mounts, QuietDue
  <2>4. answered'[r][field] = answered[r][field] BY ONLY <1>3
  <2> QED BY ONLY <1>13, <1>14, <2>1, <2>2, <2>3, <2>4, ProviderInv, FairStays
<1>15. CallsAreCounted' BY ONLY <1>14, FairAllNext
<1> QED BY ONLY <1>12, <1>15 DEF CallsInv

-----------------------------------------------------------------------------
(* Requests: the accounts are kept.                                        *)

\* A request that is not fetching has no call.
LEMMA Callless ==
    ASSUME ProviderInv, NEW m \in Mounts,
           mount[m].pc \in {"idle", "latest", "resolve", "put"}
    PROVE  ~Merging(mount[m]) /\ mount[m].call = Nothing
<1>1. PICK x \in Mount : x = mount[m] BY Mover
<1>2. Staged(x, clock) BY <1>1, Mover
<1>3. x.pc \in {"idle", "latest", "resolve", "put"} BY ONLY <1>1,
        mount[m].pc \in {"idle", "latest", "resolve", "put"}
<1>4. x.call = Nothing BY ONLY <1>2, <1>3 DEF Staged
<1> QED BY ONLY <1>1, <1>3, <1>4 DEF Merging

\* prepare_mount and the resolvers' requests.
LEMMA SetupCalls ==
    ASSUME ProviderInv, CallsInv, NEW m \in Mounts,
           \/ \E s \in Specs : PrepareMount(m, s)
           \/ RegistryFails(m) \/ SendFails(m) \/ Unmount(m)
           \/ ResolveLatest(m) \/ ResolveNpm(m) \/ ResolvePyPI(m) \/ ResolveCrate(m)
           \/ Put(m)
    PROVE  CallsInv'
<1>1. PICK x \in Mount : x = mount[m] BY Mover
<1>2. mount \in [Mounts -> Mount] BY Mover
<1>3. ~Merging(NewMount) /\ NewMount.call = Nothing BY DEF NewMount, Merging
<1>4. ASSUME NEW y, ~Merging(mount[m]), mount[m].call = Nothing,
             mount' = [mount EXCEPT ![m] = y], ~Merging(y), y.call = Nothing,
             UNCHANGED accounts, crossed \subseteq crossed'
      PROVE  CallsInv'
  <2>1. table' = table /\ buckets' = buckets /\ answered' = answered
    BY ONLY <1>4 DEF accounts
  <2> QED BY ONLY <1>4, <2>1, ProviderInv, CallsInv, m \in Mounts, QuietCalls
<1>5. ASSUME NEW y, StartFetch(m, y)
      PROVE  mount' = [mount EXCEPT ![m] = y] /\ crossed \subseteq crossed'
  BY ONLY <1>5 DEF StartFetch
<1>6. ASSUME NEW s \in Specs, PrepareMount(m, s) PROVE CallsInv'
  <2>1. mount[m].pc = "idle" /\ UNCHANGED accounts BY ONLY <1>6 DEF PrepareMount
  <2>2. ~Merging(mount[m]) /\ mount[m].call = Nothing
    BY ONLY <2>1, ProviderInv, m \in Mounts, Callless
  <2>3. PICK new : new = [NewMount EXCEPT !.spec = s, !.looked = clock,
                                          !.version = s.version]
    OBVIOUS
  <2>4. PICK y1, y2, y3 :
           /\ y1 = [new EXCEPT !.pc = "resolving",
                       !.ref = IF s.version = 0 THEN <<"branch", 0>>
                                                ELSE <<"tag", s.version>>]
           /\ y2 = [new EXCEPT !.pc = "resolving",
                       !.ref = entries[s].ref, !.version = entries[s].version]
           /\ y3 = [new EXCEPT !.pc = IF IsLatest(s) THEN "latest" ELSE "resolve"]
    OBVIOUS
  <2>5. /\ ~Merging(y1) /\ y1.call = Nothing
        /\ ~Merging(y2) /\ y2.call = Nothing
        /\ ~Merging(y3) /\ y3.call = Nothing
    BY ONLY <2>3, <2>4 DEF NewMount, Merging
  <2>6. \/ StartFetch(m, y1) \/ StartFetch(m, y2)
        \/ mount' = [mount EXCEPT ![m] = y3] /\ crossed' = crossed
    BY ONLY <1>6, <2>3, <2>4 DEF PrepareMount
  <2>7. CASE StartFetch(m, y1) BY ONLY <1>4, <1>5, <2>1, <2>2, <2>5, <2>7
  <2>8. CASE StartFetch(m, y2) BY ONLY <1>4, <1>5, <2>1, <2>2, <2>5, <2>8
  <2>9. CASE mount' = [mount EXCEPT ![m] = y3] /\ crossed' = crossed
    BY ONLY <1>4, <2>1, <2>2, <2>5, <2>9
  <2> QED BY ONLY <2>6, <2>7, <2>8, <2>9
<1>7. CASE RegistryFails(m) \/ SendFails(m) \/ Unmount(m)
  <2>1. /\ mount' = [mount EXCEPT ![m] = NewMount]
        /\ UNCHANGED accounts /\ crossed' = crossed
    BY ONLY <1>7 DEF RegistryFails, SendFails, Unmount
  <2>2. ~Merging(mount[m]) /\ mount[m].call = Nothing
    <3>1. CASE RegistryFails(m)
      BY ONLY <3>1, ProviderInv, m \in Mounts, Callless DEF RegistryFails
    <3>2. CASE SendFails(m) BY ONLY <3>2 DEF SendFails, Merging
    <3>3. CASE Unmount(m) BY ONLY <3>3 DEF Unmount, Merging
    <3> QED BY ONLY <1>7, <3>1, <3>2, <3>3
  <2> QED BY ONLY <1>3, <1>4, <2>1, <2>2
<1>8. CASE ResolveLatest(m)
  <2>1. /\ mount[m].pc = "latest" /\ UNCHANGED accounts /\ crossed' = crossed
        /\ mount' = [mount EXCEPT ![m].pc = "resolve", ![m].version = Last,
                                  ![m].asked = clock]
    BY ONLY <1>8 DEF ResolveLatest
  <2>2. ~Merging(mount[m]) /\ mount[m].call = Nothing
    BY ONLY <2>1, ProviderInv, m \in Mounts, Callless
  <2>3. PICK y : y = [x EXCEPT !.pc = "resolve", !.version = Last, !.asked = clock]
    OBVIOUS
  <2>4. mount' = [mount EXCEPT ![m] = y]
    BY ONLY <1>1, <1>2, <2>1, <2>3
  <2>5. ~Merging(y) /\ y.call = Nothing
    <3>1. y.pc = "resolve" /\ y.call = x.call BY ONLY <2>3, x \in Mount DEF Mount
    <3> QED BY ONLY <1>1, <2>2, <3>1 DEF Merging
  <2> QED BY ONLY <1>4, <2>1, <2>2, <2>4, <2>5
<1>9. CASE ResolveNpm(m) \/ ResolvePyPI(m) \/ ResolveCrate(m)
  <2>1. mount[m].pc = "resolve" /\ \E ref : Resolved(m, ref)
    BY ONLY <1>9 DEF ResolveNpm, ResolvePyPI, ResolveCrate
  <2>2. PICK ref : Resolved(m, ref) BY ONLY <2>1
  <2>3. /\ UNCHANGED accounts /\ crossed' = crossed
        /\ mount' = [mount EXCEPT ![m].pc = "put", ![m].ref = ref]
    BY ONLY <2>2 DEF Resolved
  <2>4. ~Merging(mount[m]) /\ mount[m].call = Nothing
    BY ONLY <2>1, ProviderInv, m \in Mounts, Callless
  <2>5. PICK y : y = [x EXCEPT !.pc = "put", !.ref = ref] OBVIOUS
  <2>6. mount' = [mount EXCEPT ![m] = y] BY ONLY <1>1, <1>2, <2>3, <2>5
  <2>7. ~Merging(y) /\ y.call = Nothing
    <3>1. y.pc = "put" /\ y.call = x.call BY ONLY <2>5, x \in Mount DEF Mount
    <3> QED BY ONLY <1>1, <2>4, <3>1 DEF Merging
  <2> QED BY ONLY <1>4, <2>3, <2>4, <2>6, <2>7
<1>10. CASE Put(m)
  <2>1. /\ mount[m].pc = "put" /\ UNCHANGED accounts
        /\ StartFetch(m, [mount[m] EXCEPT !.pc = "resolving"])
    BY ONLY <1>10 DEF Put
  <2>2. ~Merging(mount[m]) /\ mount[m].call = Nothing
    BY ONLY <2>1, ProviderInv, m \in Mounts, Callless
  <2>3. PICK y : y = [x EXCEPT !.pc = "resolving"] OBVIOUS
  <2>4. mount' = [mount EXCEPT ![m] = y] /\ crossed \subseteq crossed'
    BY ONLY <1>1, <1>5, <2>1, <2>3
  <2>5. ~Merging(y) /\ y.call = Nothing
    <3>1. y.pc = "resolving" /\ y.call = x.call BY ONLY <2>3, x \in Mount DEF Mount
    <3> QED BY ONLY <1>1, <2>2, <3>1 DEF Merging
  <2> QED BY ONLY <1>4, <2>1, <2>2, <2>4, <2>5
<1> QED BY <1>6, <1>7, <1>8, <1>9, <1>10

\* Every step keeps the accounts.
LEMMA CallsStep ==
    ProviderInv /\ CallsInv /\ [RequestsNext]_requestsVars => CallsInv'
<1> SUFFICES ASSUME ProviderInv, CallsInv, [RequestsNext]_requestsVars PROVE CallsInv'
  OBVIOUS
<1>1. CASE UNCHANGED requestsVars
  <2>1. UNCHANGED <<mount, table, buckets, answered, crossed>>
    BY <1>1 DEF requestsVars
  <2> QED BY ONLY <2>1, CallsInv, StillCalls
<1>2. ASSUME NEW m \in Mounts,
             \/ \E s \in Specs : PrepareMount(m, s)
             \/ RegistryFails(m) \/ SendFails(m) \/ Unmount(m)
             \/ ResolveLatest(m) \/ ResolveNpm(m) \/ ResolvePyPI(m) \/ ResolveCrate(m)
             \/ Put(m)
      PROVE  CallsInv'
  BY ONLY <1>2, ProviderInv, CallsInv, SetupCalls
<1>3. ASSUME NEW m \in Mounts, GetJson(m) PROVE CallsInv'
  BY ONLY <1>3, ProviderInv, CallsInv, GetJsonCalls
<1>4. ASSUME NEW m \in Mounts, Record(m) PROVE CallsInv'
  BY ONLY <1>4, ProviderInv, CallsInv, RecordCalls
<1>5. ASSUME NEW m \in Mounts, Mark(m) PROVE CallsInv'
  BY ONLY <1>5, ProviderInv, CallsInv, MarkCalls
<1>6. ASSUME NEW m \in Mounts, RecordThrottle(m) PROVE CallsInv'
  BY ONLY <1>6, ProviderInv, CallsInv, RecordThrottleCalls
<1>7. ASSUME NEW m \in Mounts, DropPlaceholder(m) PROVE CallsInv'
  BY ONLY <1>7, ProviderInv, CallsInv, DropCalls
<1>8. ASSUME NEW m \in Mounts, MergeIn(m) PROVE CallsInv'
  BY ONLY <1>8, ProviderInv, CallsInv, MergeCalls
<1>9. CASE Tick \/ NewRelease
  <2>1. UNCHANGED <<mount, table, buckets, answered, crossed>>
    BY ONLY <1>9 DEF Tick, NewRelease, accounts
  <2> QED BY ONLY <2>1, CallsInv, StillCalls
<1>10. CASE Restart
  <2>1. /\ mount' = [m \in Mounts |-> NewMount] /\ table' = [k \in CounterKey |-> 0]
        /\ answered' = [r \in Refs |-> NewCounters]
    BY ONLY <1>10 DEF Restart
  <2> QED BY ONLY <2>1, FreshCalls
<1> QED BY ONLY <1>1, <1>2, <1>3, <1>4, <1>5, <1>6, <1>7, <1>8, <1>9, <1>10,
                [RequestsNext]_requestsVars DEF RequestsNext

\* No answer of the GitHub API is counted twice, and none is lost but for a
\* ref that two mounts were resolving at the same time.
THEOREM CallsCorrect == RequestsSpec => []CallsAreCounted
<1>1. CallsInv => CallsAreCounted BY DEF CallsInv
<1>2. RequestsInit => ProviderInv /\ CallsInv BY RequestsStart, StartCalls
<1>3. ProviderInv /\ CallsInv /\ [RequestsNext]_requestsVars => ProviderInv' /\ CallsInv'
  BY RequestsStep, CallsStep
<1> QED BY <1>1, <1>2, <1>3, PTL DEF RequestsSpec
=============================================================================
