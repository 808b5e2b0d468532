------------------------------- MODULE MCCache -------------------------------
\* The two halves of ctxfs-cache, which share no variable, in one run: a
\* behaviour is one of BlobCache with the files at rest, or one of BlobFiles, on
\* a Git blob and a directory object, with the index at rest.
EXTENDS BlobCache, BlobFiles, TLC

CONSTANTS git, dir, AnyLimit

VARIABLE half

MCAlgo == [b \in Digests |-> IF b = dir THEN "sha256" ELSE "sha1"]

\* Blobs and repositories are interchangeable.
CacheSymmetry == Permutations(Blobs) \cup Permutations(Repos)

CacheInit ==
    /\ Init
    /\ FilesInit
    /\ \/ half = "index" /\ Indexed(index) = {}
       \/ half = "files" /\ maxBytes = AnyLimit

CacheNext ==
    \/ half = "index" /\ Next /\ UNCHANGED <<filesVars, half>>
    \/ half = "files" /\ FilesNext /\ UNCHANGED <<vars, half>>

CacheSpec == CacheInit /\ [][CacheNext]_<<vars, filesVars, half>>
=============================================================================
