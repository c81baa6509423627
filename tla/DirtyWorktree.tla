--------------------------- MODULE DirtyWorktree ---------------------------
(***************************************************************************)
(* The bundle of a dirty worktree (create_bundle of the deploy broker's    *)
(* client): HEAD is cloned, and what "git status --porcelain=v1" lists is  *)
(* copied or removed, line by line, so that the clone becomes the worktree *)
(* that the user sees.                                                     *)
(*                                                                         *)
(* git is external.  Paths are numbers in the order git sorts them; a      *)
(* directory exists while it has files.  The lines are a set, of which the *)
(* one is applied that comes before the others.  Symbolic links, nested    *)
(* repositories and paths that git quotes are left out.                    *)
(***************************************************************************)
EXTENDS Naturals

CONSTANTS
    Paths,        \* numbers
    Above,        \* the directories a path is in, the outer ones too
    Contents,
    FirstTree,    \* of the commit the user starts from
    MaxEdits      \* bound

NoFile == 0
Trees == [Paths -> Contents \union {NoFile}]

Has(tree, p) == tree[p] # NoFile
\* No path is a file and a directory of another file.
Sound(tree) == \A p \in Paths : Has(tree, p) => \A d \in Above[p] : ~Has(tree, d)
Put(tree, p, c) == [tree EXCEPT ![p] = c]

ASSUME WorktreeAssumption ==
    /\ Paths \subseteq Nat
    /\ Above \in [Paths -> SUBSET Paths]
    /\ \A p \in Paths : \A d \in Above[p] : d < p /\ Above[d] \subseteq Above[p]
    /\ NoFile \notin Contents
    /\ FirstTree \in Trees /\ Sound(FirstTree)

VARIABLES
    head, index, worktree,   \* trees
    unmerged,     \* paths in a conflict
    making,       \* of the bundle: "none", "running", "refused" or "done"
    lines,        \* to apply
    clone,        \* tree
    touched,      \* the worktree was edited while the bundle was made
    edits

repository == <<head, index, worktree, unmerged>>
worktreeVars == <<repository, making, lines, clone, touched, edits>>

WorktreeInit ==
    /\ head = FirstTree /\ index = FirstTree /\ worktree = FirstTree
    /\ unmerged = {}
    /\ making = "none" /\ lines = {} /\ clone = FirstTree /\ touched = FALSE
    /\ edits = 0

-----------------------------------------------------------------------------
(* The user.                                                               *)

Edit ==
    /\ edits < MaxEdits /\ edits' = edits + 1
    /\ making \in {"none", "running"}
    /\ touched' = (making = "running")
    /\ UNCHANGED <<making, lines, clone>>

EditFile(p, c) ==
    /\ Edit
    /\ worktree[p] # c /\ Sound(Put(worktree, p, c))
    /\ worktree' = Put(worktree, p, c)
    /\ UNCHANGED <<head, index, unmerged>>

\* git add, which takes away what is in the way of the path; or git rm --cached.
GitAdd(p) ==
    /\ Edit
    /\ LET InTheWay(q) == Has(worktree, p) /\ (q \in Above[p] \/ p \in Above[q])
           added == [q \in Paths |-> IF q = p THEN worktree[p]
                                     ELSE IF InTheWay(q) THEN NoFile ELSE index[q]]
       IN  index' \in {added, Put(index, p, NoFile)}
    /\ index' # index
    /\ UNCHANGED <<head, worktree, unmerged>>

GitCommit ==
    /\ Edit /\ unmerged = {} /\ index # head
    /\ head' = index
    /\ UNCHANGED <<index, worktree, unmerged>>

\* Both sides of a merge have changed the file.
GitConflict(p) ==
    /\ Edit /\ unmerged = {} /\ Has(head, p) /\ Has(worktree, p)
    /\ unmerged' = {p}
    /\ UNCHANGED <<head, index, worktree>>

-----------------------------------------------------------------------------
(* git status.                                                             *)

Line(x, y, old, p) == [x |-> x, y |-> y, old |-> old, path |-> p]

\* The first letter, of the index, and the second one, of the worktree.
Staged(p) ==
    IF head[p] = index[p] THEN " " ELSE IF ~Has(head, p) THEN "A"
    ELSE IF ~Has(index, p) THEN "D" ELSE "M"
Unstaged(p) ==
    IF ~Has(index, p) \/ worktree[p] = index[p] THEN " "
    ELSE IF ~Has(worktree, p) THEN "D" ELSE "M"

\* Renames of files that did not change: each added path with the first
\* deleted one that has the same content.
SameFile(q, p) == Staged(q) = "D" /\ Staged(p) = "A" /\ head[q] = index[p]
FirstSame(q, p) == SameFile(q, p) /\ \A r \in Paths : SameFile(r, p) => q <= r
Renamed(q, p) == FirstSame(q, p) /\ \A r \in Paths : FirstSame(q, r) => p <= r

Tracked(p) ==
    /\ p \notin unmerged
    /\ Staged(p) # " " \/ Unstaged(p) # " "
    /\ \A q \in Paths : ~Renamed(q, p) /\ ~Renamed(p, q)

TrackedLines ==
    {Line(Staged(p), Unstaged(p), 0, p) : p \in {q \in Paths : Tracked(q)}}
    \union {e \in {Line("R", Unstaged(p), q, p) : q, p \in Paths} : Renamed(e.old, e.path)}
    \union {Line("U", "U", 0, p) : p \in unmerged}

UntrackedLines ==
    {Line("?", "?", 0, p) : p \in {q \in Paths : Has(worktree, q) /\ ~Has(index, q)
                                                  /\ q \notin unmerged}}

Status == TrackedLines \union UntrackedLines

\* Mutant: the lines are sorted.
ComesByPath(e, f) == IF e.path = f.path THEN e.x = "?" ELSE e.path < f.path

\* The order of the output: by path, what is not tracked after the rest.
Comes(e, f) == IF (e.x = "?") = (f.x = "?") THEN e.path < f.path ELSE f.x = "?"

-----------------------------------------------------------------------------
(* The bundle.                                                             *)

\* create_bundle: a clean worktree is bundled as it is, without a clone.
StartBundle ==
    /\ making = "none"
    /\ making' = IF Status = {} THEN "done" ELSE "running"
    /\ lines' = Status /\ clone' = head
    /\ UNCHANGED <<repository, touched, edits>>

\* _remove_path: a directory with everything in it.
RemovePath(tree, p) ==
    [q \in Paths |-> IF q = p \/ p \in Above[q] THEN NoFile ELSE tree[q]]

\* shutil.copy2, after a directory in its place was removed.
Copy(tree, p) == Put(RemovePath(tree, p), p, worktree[p])

\* _copy_worktree_path: the source has to exist, and mkdir of the target's directory fails
\* where there is a file.
CanCopy(tree, p) == Has(worktree, p) /\ \A d \in Above[p] : ~Has(tree, d)

Deleted(line) == line.x # "R" /\ "D" \in {line.x, line.y}

\* Where a line is copied to: the old path of a rename is removed first.
Cleared(line) == IF line.x = "R" THEN RemovePath(clone, line.old) ELSE clone

\* The lines from the first on; what is neither renamed nor deleted is copied.
ApplyLine ==
    /\ making = "running"
    /\ \E line \in lines :
        /\ \A other \in lines \ {line} : Comes(line, other)
        /\ \/ /\ line.x = "U" \/ (~Deleted(line) /\ ~CanCopy(Cleared(line), line.path))
              /\ making' = "refused"
              /\ UNCHANGED <<lines, clone>>
           \/ /\ line.x # "U"
              /\ \/ Deleted(line) /\ clone' = RemovePath(clone, line.path)
                 \/ /\ ~Deleted(line) /\ CanCopy(Cleared(line), line.path)
                    /\ clone' = Copy(Cleared(line), line.path)
              /\ lines' = lines \ {line}
              /\ UNCHANGED making
    /\ UNCHANGED <<repository, touched, edits>>

\* git add -A and the commit of the snapshot, if there is anything to commit.
Snapshot ==
    /\ making = "running" /\ lines = {}
    /\ making' = "done"
    /\ UNCHANGED <<repository, lines, clone, touched, edits>>

WorktreeNext ==
    \/ \E p \in Paths, c \in Contents \union {NoFile} : EditFile(p, c)
    \/ \E p \in Paths : GitAdd(p) \/ GitConflict(p)
    \/ GitCommit
    \/ StartBundle \/ ApplyLine \/ Snapshot

WorktreeSpec == WorktreeInit /\ [][WorktreeNext]_worktreeVars

-----------------------------------------------------------------------------
(* Properties.                                                             *)

\* The state has its types; no path of a tree is both a file and a directory.
WorktreeTypeOK ==
    /\ \A tree \in {head, index, worktree, clone} : tree \in Trees /\ Sound(tree)
    /\ unmerged \subseteq Paths
    /\ making \in {"none", "running", "refused", "done"}
    /\ touched \in BOOLEAN

\* The commit that is deployed has the files of the worktree: additions, deletions, renames,
\* staged or not, files that became directories and the other way round; unless the user
\* went on editing while the lines were applied.
SnapshotIsWorktree == (making = "done" /\ ~touched) => clone = worktree

\* A worktree without conflicts and staged renames is not refused.
RefusedForAReason ==
    (making = "refused" /\ ~touched) => \E line \in Status : line.x \in {"U", "R"}

\* The invariants of the bundle of a dirty worktree (create_bundle).
WorktreeInv == WorktreeTypeOK /\ SnapshotIsWorktree /\ RefusedForAReason
=============================================================================
