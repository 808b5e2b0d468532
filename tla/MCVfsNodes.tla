----------------------------- MODULE MCVfsNodes -----------------------------
\* VfsNodes on a small tree: a root with a file and a directory, which holds a
\* link and a file whose size the tree did not give.
EXTENDS VfsNodes

SmallTree ==
    [top |-> <<[name |-> "f", kind |-> "file", digest |-> "long"],
               [name |-> "d", kind |-> "dir", digest |-> "sub"]>>,
     sub |-> <<[name |-> "g", kind |-> "symlink", digest |-> "short"],
               [name |-> "u", kind |-> "file", digest |-> "odd"]>>]

\* The file takes two reads.
SmallData == [long |-> <<1, 2, 3>>, short |-> <<4>>, odd |-> <<5>>]

SmallSizes == [long |-> 3, short |-> 0, odd |-> 0]
=============================================================================
