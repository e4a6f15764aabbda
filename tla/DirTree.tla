------------------------------ MODULE DirTree ------------------------------
(***************************************************************************)
(* The directory hierarchy a scan of diskghost reads: which directories    *)
(* exist under the scanned root, what each holds, which of them the        *)
(* operating system refuses to list, and the scan options.  A directory is *)
(* an opaque value; Path gives the chain from the root down to it, which   *)
(* is all the code ever asks of a PathBuf (parent, file_name, prefix).     *)
(***************************************************************************)
EXTENDS Naturals, Sequences, FiniteSets, FiniteSetsExt

CONSTANTS
  Dirs,         \* every directory path a walk of the root may come across
  Root,         \* the directory handed to the scan
  Path,         \* Path[d]: the directories from Root to d, both included
  Bytes,        \* Bytes[d]: the bytes of the files directly in d
  Unreadable,   \* directories whose read_dir fails
  Flaky,        \* directories in whose listing a single entry may fail
  Target,       \* Target[d]: the canonical directory the path d leads to
  Follow,       \* Options::follow_symlinks
  MaxDepth      \* Options::max_depth (None is any number above every depth)

(* Path is the path structure of a rooted tree: every prefix of a path is  *)
(* the path of the directory it ends in.                                   *)
ASSUME PathAssumption ==
  /\ Root \in Dirs
  /\ Path \in [Dirs -> Seq(Dirs)]
  /\ \A d \in Dirs :
       /\ Len(Path[d]) > 0
       /\ Path[d][1] = Root
       /\ Path[d][Len(Path[d])] = d
       /\ \A i \in 1..Len(Path[d]) :
            /\ Len(Path[Path[d][i]]) = i
            /\ \A j \in 1..i : Path[Path[d][i]][j] = Path[d][j]

ASSUME ScanAssumption ==
  /\ IsFiniteSet(Dirs)
  /\ Bytes \in [Dirs -> Nat]
  /\ Unreadable \subseteq Dirs
  /\ Flaky \subseteq Dirs
  /\ DOMAIN Target = Dirs
  /\ Follow \in BOOLEAN
  /\ MaxDepth \in Nat \ {0}

(* The root has depth 0. *)
Depth(d) == Len(Path[d]) - 1

Parent(d) == Path[d][Len(Path[d]) - 1]

Children(d) == {c \in Dirs : c # Root /\ Parent(c) = d}

(* Path::starts_with: is p the directory d or one of its ancestors? *)
IsPrefix(p, d) == Len(Path[p]) <= Len(Path[d]) /\ Path[d][Len(Path[p])] = p

Below(d) == {x \in Dirs : IsPrefix(d, x)}

(* What a directory holds does not depend on the links by which it was     *)
(* reached: paths to one canonical directory have the same files, can be   *)
(* read or not alike, and go on to the same directories.  Only a path that *)
(* comes back to a directory it has passed need not go any further.        *)
ASSUME LinkAssumption ==
  Follow =>
    \A x, y \in Dirs : Target[x] = Target[y] =>
      /\ Bytes[x] = Bytes[y]
      /\ x \in Unreadable <=> y \in Unreadable
      /\ (\A a \in Dirs : IsPrefix(a, x) /\ Target[a] = Target[x] => a = x) =>
           \A c \in Children(y) : \E e \in Children(x) : Target[e] = Target[c]

(* The directories a scan is asked to list: above the depth limit, and not *)
(* below one that cannot be read.                                          *)
Visible ==
  {d \in Dirs : /\ Depth(d) < MaxDepth
                /\ \A u \in Unreadable : IsPrefix(u, d) => u = d}

=============================================================================
