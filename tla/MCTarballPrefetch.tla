-------------------------- MODULE MCTarballPrefetch --------------------------
\* TarballPrefetch on a repository with two files, a link and a directory.
\* The archive has the first file, the second one with its keywords expanded,
\* the link as a link, its own directory and a name that is not safe.
EXTENDS TarballPrefetch

SmallTree ==
    {[path |-> "a", type |-> "blob", sha |-> "A"],
     [path |-> "b", type |-> "blob", sha |-> "B"],
     [path |-> "l", type |-> "blob", sha |-> "L"],
     [path |-> "d", type |-> "tree", sha |-> "D"]}

SmallArchive ==
    <<[safe |-> TRUE, path |-> None, type |-> "directory", sha |-> "D"],
      [safe |-> TRUE, path |-> "a", type |-> "regular", sha |-> "A"],
      [safe |-> TRUE, path |-> "b", type |-> "regular", sha |-> "X"],
      [safe |-> FALSE, path |-> "b", type |-> "regular", sha |-> "B"],
      [safe |-> TRUE, path |-> "l", type |-> "symlink", sha |-> "L"]>>
=============================================================================
