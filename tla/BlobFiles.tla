------------------------------ MODULE BlobFiles ------------------------------
(***************************************************************************)
(* The on-disk half of crates/ctxfs-cache: blob files, the threads that    *)
(* write, read and unlink them, and the index that is updated under the    *)
(* mutex in between.  `put` truncates and rewrites the canonical file;     *)
(* `commit_atomic` and BlobTempWriter::finalize stage a temporary file and *)
(* rename it.  Eviction decides under the mutex and unlinks after it.      *)
(*                                                                         *)
(* BlobCache models which entries an insertion may evict; here any set of  *)
(* entries may go.  A file is "whole" when its bytes are the digest's.     *)
(* A blob is stored and indexed under its digest's own algorithm: sha1 for *)
(* Git blobs, sha256 for directory objects.  Older releases left Git blobs *)
(* under sha256/ too.                                                      *)
(***************************************************************************)
EXTENDS Naturals, FiniteSets

CONSTANTS
    Digests,        \* content digests (hex)
    Algo,           \* Digest::algorithm of each
    Writers,        \* threads that store or prune
    Readers,        \* threads inside get
    Puts,           \* the blobs some caller stores with put
    Commits,        \* the blobs some caller stores with commit_atomic
    Nothing,        \* no index entry, no thread
    MaxCrashes      \* bound: crashes of the daemon

Algos == {"sha1", "sha256"}

ASSUME BlobFilesAssumption ==
    /\ Algo \in [Digests -> Algos]
    /\ Puts \subseteq Digests
    /\ Commits \subseteq Digests
    /\ Nothing \notin Algos
    /\ Nothing \notin Writers
    /\ MaxCrashes \in Nat

VARIABLES
    file,       \* what is at each path
    truncator,  \* the put that opened (and truncated) the path last
    index,      \* CacheEntry::algorithm of each entry
    writer,     \* storing and pruning threads
    reader,     \* threads inside get
    crashes,    \* crashes so far
    orphans,    \* history: files the daemon has lost track of, see below
    broken      \* history: files cut short by a put that failed or crashed

filesVars == <<file, truncator, index, writer, reader, crashes, orphans, broken>>

-----------------------------------------------------------------------------
Path == Digests \X Algos

\* blob_path
Canonical(b) == <<b, Algo[b]>>

\* `attached`: the file a put has open is still the one at its path.
Writer == [pc : {"idle", "writing", "staging", "stored", "unlinking"},
           blob : Digests \cup {Nothing},
           attached : BOOLEAN,
           pending : SUBSET Path]

IdleWriter == [pc |-> "idle", blob |-> Nothing, attached |-> FALSE, pending |-> {}]

\* `at`: where the get under way will read; `got`: what the last one found.
Reader == [at : Path \cup {Nothing}, got : {"absent", "partial", "whole"}]

IdleReader == [at |-> Nothing, got |-> "absent"]

Start(w, pc, b) == [IdleWriter EXCEPT !.pc = pc, !.blob = b]

\* rename(2) and unlink(2) leave open descriptors on the old file.
Detached(p) ==
    [w \in Writers |->
        IF writer[w].pc = "writing" /\ Canonical(writer[w].blob) = p
        THEN [writer[w] EXCEPT !.attached = FALSE]
        ELSE writer[w]]

Indexed(ix) == {b \in Digests : ix[b] # Nothing}

Dropped(E, ix) == [b \in Digests |-> IF b \in E THEN Nothing ELSE ix[b]]

\* remove_blob_file is given the algorithm of the evicted entry.
PathsOf(E, ix) == {<<b, ix[b]>> : b \in E}

\* Mutant: the sha256 file wins.
RebuiltOldFirst(fs) ==
    [b \in Digests |-> IF fs[<<b, "sha256">>] # "absent" THEN "sha256"
                     ELSE IF fs[<<b, "sha1">>] # "absent" THEN "sha1"
                     ELSE Nothing]

\* rebuild_index: a blob under both labels keeps its sha1 file only.
Rebuilt(fs) ==
    [b \in Digests |-> IF fs[<<b, "sha1">>] # "absent" THEN "sha1"
                     ELSE IF fs[<<b, "sha256">>] # "absent" THEN "sha256"
                     ELSE Nothing]

\* The files whose sha1 twin was kept ...
Duplicates(fs) ==
    {p \in Path : /\ p[2] = "sha256"
                  /\ fs[p] # "absent"
                  /\ fs[<<p[1], "sha1">>] # "absent"}

Without(fs, P) == [p \in Path |-> IF p \in P THEN "absent" ELSE fs[p]]

\* ... are removed, except those whose removal fails, which nothing reports.
Opened(fs) ==
    /\ index' = Rebuilt(fs)
    /\ \E stuck \in SUBSET Duplicates(fs) :
          /\ file' = Without(fs, Duplicates(fs) \ stuck)
          /\ orphans' = stuck
          /\ broken' = {p \in Path : file'[p] = "partial"}

-----------------------------------------------------------------------------
\* A cache opened on whole files of this release, and of older ones if they
\* are Git blobs.
FilesInit ==
    \E fs \in [Path -> {"absent", "whole"}] :
        /\ \A b \in Digests : Algo[b] = "sha256" => fs[<<b, "sha1">>] = "absent"
        /\ file = Without(fs, Duplicates(fs))
        /\ truncator = [p \in Path |-> Nothing]
        /\ index = Rebuilt(fs)
        /\ writer = [w \in Writers |-> IdleWriter]
        /\ reader = [r \in Readers |-> IdleReader]
        /\ crashes = 0
        /\ orphans = {}
        /\ broken = {}

\* put, first half of fs::write: open and truncate the canonical file.
PutOpen(w, b) ==
    /\ b \in Puts
    /\ writer[w].pc = "idle"
    /\ file' = [file EXCEPT ![Canonical(b)] = "partial"]
    /\ truncator' = [truncator EXCEPT ![Canonical(b)] = w]
    /\ writer' = [writer EXCEPT ![w] =
                     [Start(w, "writing", b) EXCEPT !.attached = TRUE]]
    /\ UNCHANGED <<index, reader, crashes, orphans, broken>>

\* The bytes are all written.  Unless this put truncated the file last, its
\* early bytes may have been cut off and a hole is left where they were.
PutDone(w) ==
    /\ writer[w].pc = "writing"
    /\ LET p == Canonical(writer[w].blob)
       IN  IF ~writer[w].attached THEN UNCHANGED <<file, broken>>
           ELSE \E content \in {"whole", file[p]} :
                   /\ truncator[p] = w => content = "whole"
                   /\ file' = [file EXCEPT ![p] = content]
                   /\ broken' = IF content = "whole" THEN broken \ {p} ELSE broken
    /\ writer' = [writer EXCEPT ![w].pc = "stored", ![w].attached = FALSE]
    /\ UNCHANGED <<truncator, index, reader, crashes, orphans>>

\* fs::write fails half-way (a full disk): put returns and leaves what it
\* wrote, which no entry accounts for if there was none.
PutFail(w) ==
    /\ writer[w].pc = "writing"
    /\ writer' = [writer EXCEPT ![w] = IdleWriter]
    /\ LET p == Canonical(writer[w].blob)
           left == IF writer[w].attached THEN {p} ELSE {}
       IN  /\ orphans' = orphans \cup {q \in left : index[q[1]] # q[2]}
           /\ broken' = broken \cup {q \in left : file[q] = "partial"}
    /\ UNCHANGED <<file, truncator, index, reader, crashes>>

\* commit_atomic_with_writer: the bytes go to <root>/tmp, outside the index.
CommitStage(w, b) ==
    /\ b \in Commits
    /\ writer[w].pc = "idle"
    /\ writer' = [writer EXCEPT ![w] = Start(w, "staging", b)]
    /\ UNCHANGED <<file, truncator, index, reader, crashes, orphans, broken>>

\* A digest mismatch, an early end of the stream, or a failed write.
CommitDrop(w) ==
    /\ writer[w].pc = "staging"
    /\ writer' = [writer EXCEPT ![w] = IdleWriter]
    /\ UNCHANGED <<file, truncator, index, reader, crashes, orphans, broken>>

\* Mutant: the rename happens before all bytes are there.
CommitEarly(w) ==
    /\ writer[w].pc = "staging"
    /\ LET p == Canonical(writer[w].blob)
       IN  /\ file' = [file EXCEPT ![p] = "partial"]
           /\ truncator' = [truncator EXCEPT ![p] = Nothing]
           /\ writer' = [Detached(p) EXCEPT ![w].pc = "stored"]
           /\ broken' = broken \ {p}
    /\ UNCHANGED <<index, reader, crashes, orphans>>

\* finalize: fsync, then rename over whatever is at the canonical path.
CommitRename(w) ==
    /\ writer[w].pc = "staging"
    /\ LET p == Canonical(writer[w].blob)
       IN  /\ file' = [file EXCEPT ![p] = "whole"]
           /\ truncator' = [truncator EXCEPT ![p] = Nothing]
           /\ writer' = [Detached(p) EXCEPT ![w].pc = "stored"]
           /\ broken' = broken \ {p}
    /\ UNCHANGED <<index, reader, crashes, orphans>>

\* lru_insert_evict, one locked section: insert the entry and pop others,
\* perhaps the new one too.  An entry an older release filed under sha256/ is
\* relabelled, and its old file forgotten.
Insert(w) ==
    /\ writer[w].pc = "stored"
    /\ LET b == writer[w].blob
           new == [index EXCEPT ![b] = Algo[b]]
       IN  /\ orphans' = (orphans \ {Canonical(b)})
                            \cup {<<b, a>> : a \in {index[b]} \ {Algo[b], Nothing}}
           /\ \E E \in SUBSET Indexed(new) :
                 /\ index' = Dropped(E, new)
                 /\ writer' = [writer EXCEPT
                                  ![w].pc = "unlinking",
                                  ![w].pending = PathsOf(E, new)]
    /\ UNCHANGED <<file, truncator, reader, crashes, broken>>

\* The locked section of prune, prune_blobs and set_max_bytes.
Prune(w, E) ==
    /\ writer[w].pc = "idle"
    /\ E # {}
    /\ E \subseteq Indexed(index)
    /\ index' = Dropped(E, index)
    /\ writer' = [writer EXCEPT ![w].pc = "unlinking",
                                ![w].pending = PathsOf(E, index)]
    /\ UNCHANGED <<file, truncator, reader, crashes, orphans, broken>>

\* remove_blob_file, after the mutex is released.
Unlink(w, p) ==
    /\ p \in writer[w].pending
    /\ file' = [file EXCEPT ![p] = "absent"]
    /\ truncator' = [truncator EXCEPT ![p] = Nothing]
    /\ writer' = [Detached(p) EXCEPT ![w].pending = @ \ {p}]
    /\ orphans' = orphans \ {p}
    /\ broken' = broken \ {p}
    /\ UNCHANGED <<index, reader, crashes>>

\* Its remove_file fails: the error is dropped, and the file stays.
UnlinkFails(w, p) ==
    /\ p \in writer[w].pending
    /\ writer' = [writer EXCEPT ![w].pending = @ \ {p}]
    /\ orphans' = IF file[p] # "absent" /\ index[p[1]] # p[2]
                  THEN orphans \cup {p} ELSE orphans
    /\ UNCHANGED <<file, truncator, index, reader, crashes, broken>>

Return(w) ==
    /\ writer[w].pc = "unlinking"
    /\ writer[w].pending = {}
    /\ writer' = [writer EXCEPT ![w] = IdleWriter]
    /\ UNCHANGED <<file, truncator, index, reader, crashes, orphans, broken>>

\* get, the locked section: where the file of an entry is.
Lookup(r, b) ==
    /\ reader[r].at = Nothing
    /\ index[b] # Nothing
    /\ reader' = [reader EXCEPT ![r] = [at |-> <<b, index[b]>>, got |-> "absent"]]
    /\ UNCHANGED <<file, truncator, index, writer, crashes, orphans, broken>>

\* get, fs::read after the mutex is released.
Read(r) ==
    /\ reader[r].at # Nothing
    /\ reader' = [reader EXCEPT ![r] = [at |-> Nothing,
                                        got |-> file[reader[r].at]]]
    /\ UNCHANGED <<file, truncator, index, writer, crashes, orphans, broken>>

\* The daemon dies and the next one opens the same directory.
CrashAndReopen ==
    /\ crashes < MaxCrashes
    /\ crashes' = crashes + 1
    /\ Opened(file)
    /\ truncator' = [p \in Path |-> Nothing]
    /\ writer' = [w \in Writers |-> IdleWriter]
    /\ reader' = [r \in Readers |-> IdleReader]

FilesNext ==
    \/ \E w \in Writers, b \in Digests : PutOpen(w, b) \/ CommitStage(w, b)
    \/ \E w \in Writers : PutDone(w) \/ PutFail(w)
    \/ \E w \in Writers : CommitDrop(w) \/ CommitRename(w)
    \/ \E w \in Writers : Insert(w) \/ Return(w)
    \/ \E w \in Writers, E \in SUBSET Digests : Prune(w, E)
    \/ \E w \in Writers, p \in Path : Unlink(w, p) \/ UnlinkFails(w, p)
    \/ \E r \in Readers, b \in Digests : Lookup(r, b)
    \/ \E r \in Readers : Read(r)
    \/ CrashAndReopen

FilesSpec == FilesInit /\ [][FilesNext]_filesVars

-----------------------------------------------------------------------------
\* Type invariant of the files, the index and the threads.
FilesTypeOK ==
    /\ file \in [Path -> {"absent", "partial", "whole"}]
    /\ truncator \in [Path -> Writers \cup {Nothing}]
    /\ index \in [Digests -> Algos \cup {Nothing}]
    /\ writer \in [Writers -> Writer]
    /\ reader \in [Readers -> Reader]
    /\ crashes \in 0..MaxCrashes
    /\ orphans \subseteq Path
    /\ broken \subseteq Path
    /\ \A w \in Writers :
          /\ writer[w].pc \in {"writing", "staging", "stored"}
               => writer[w].blob \in Digests
          /\ writer[w].attached
               => /\ writer[w].pc = "writing"
                  /\ file[Canonical(writer[w].blob)] # "absent"
          /\ writer[w].pending # {} => writer[w].pc = "unlinking"

\* Every file under the cache directory is counted by the entry at its path,
\* or a thread that writes, stores or unlinks it is about to see to it, through
\* every overlap of stores, evictions and restarts.  The disk keeps what
\* total_bytes does not count only where `orphans` says why: a removal that
\* failed, a put that failed, a legacy file whose entry was relabelled by a new
\* store.  The next start counts those, except a duplicate it cannot remove.
NoUncountedFiles ==
    \A p \in Path :
       file[p] # "absent"
         => \/ index[p[1]] = p[2]
            \/ p \in orphans
            \/ \E w \in Writers :
                  \/ /\ writer[w].pc = "stored" \/ writer[w].attached
                     /\ p = Canonical(writer[w].blob)
                  \/ p \in writer[w].pending

\* A put is writing the file at p, and none has truncated it since.
BeingWritten(p) ==
    \E w \in Writers : /\ truncator[p] = w
                       /\ writer[w].attached
                       /\ p = Canonical(writer[w].blob)

\* put truncates the file that readers open.  What overlaps, is renamed over
\* or unlinked meanwhile, a get finds a truncated file only while the put that
\* truncated it last is still writing, or where a put failed or the daemon
\* died in one and no store of the blob has been completed since.
ReadsAreWhole ==
    [][\A r \in Readers :
         reader[r].at # Nothing /\ reader'[r].got = "partial"
           => \/ BeingWritten(reader[r].at)
              \/ reader[r].at \in broken]_filesVars
=============================================================================
