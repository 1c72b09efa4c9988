-------------------------------- MODULE Sandbox --------------------------------
(***************************************************************************)
(* The file side of a session: the copies of the project (copy_project,    *)
(* protect_read_only, restore_manifest_permissions), what a checkpoint     *)
(* makes of the edits in the worktree (replacements_between), and what a   *)
(* trial makes of the checkpoint (apply_file_replacement).  A tree is a    *)
(* function from its paths to nodes; the root itself is a directory that   *)
(* can be written.                                                         *)
(***************************************************************************)
CONSTANTS Paths, Parent, RootPath, Contents   \* Parent: each path's directory

\* Directories are in the root, and files in them or in the root.
SandboxAssumption ==
    /\ Parent \in [Paths -> Paths \cup {RootPath}] /\ RootPath \notin Paths
    /\ \A p \in Paths : Parent[p] # RootPath => Parent[Parent[p]] = RootPath

VARIABLES
    phase,
    project,    \* the user's project; its manifest is captured in the first copy
    base,       \* the baseline
    worktree,
    patch,      \* the files of the FilePatch action
    sandbox     \* the tree of the trial

sandboxVars == <<phase, project, base, worktree, patch, sandbox>>

Modes == {"rw", "ro"}
Targets == {"root", "absolute", "excluded", "outside", "dangling"}

Regulars == [type : {"regular"}, data : Contents, mode : Modes]
Directories == [type : {"directory"}, data : {RootPath}, mode : Modes]
Symlinks == [type : {"symlink"}, data : Targets, mode : {"rw"}]
Nodes == Regulars \cup Directories \cup Symlinks

IsDirectory(tree, p) == p = RootPath \/ (p \in DOMAIN tree /\ tree[p].type = "directory")

Trees == {tree \in UNION {[S -> Nodes] : S \in SUBSET Paths} :
             \A p \in DOMAIN tree : IsDirectory(tree, Parent[p])}

Of(tree, type) == {p \in DOMAIN tree : tree[p].type = type}
Without(tree, S) == [p \in DOMAIN tree \ S |-> tree[p]]
InDirectory(tree, p) == {q \in DOMAIN tree : q = p \/ Parent[q] = p}

Init ==
    /\ phase = "start"
    /\ project \in Trees
    /\ base = <<>> /\ worktree = <<>> /\ patch = <<>> /\ sandbox = <<>>

\* copy_safe_symlink: the target is resolved where the copy is made from; from a copy,
\* an absolute target still leads to the project, and an excluded one to nothing.
Refused(isProject) ==
    {"outside", "dangling"} \cup (IF isProject THEN {} ELSE {"absolute", "excluded"})

CanCopy(tree, isProject) ==
    \A p \in Of(tree, "symlink") : tree[p].data \notin Refused(isProject)

\* protect_read_only: everything but the links.
Protected(tree) ==
    [p \in DOMAIN tree |-> [tree[p] EXCEPT !.mode = IF tree[p].type = "symlink" THEN @ ELSE "ro"]]

\* initialize_session: two copies, the trial of the empty journal on a third (which has
\* no manifest to restore), and the baseline made read-only.
Initialize ==
    /\ phase = "start"
    /\ IF CanCopy(project, TRUE) /\ CanCopy(project, FALSE)
       THEN /\ base' = Protected(project)
            /\ worktree' = project
            /\ phase' = "recording"
       ELSE phase' = "refused" /\ UNCHANGED <<base, worktree>>
    /\ UNCHANGED <<project, patch, sandbox>>

\* Outside of FixTrace, the files in the worktree are changed.
EditOutside ==
    /\ phase = "recording"
    /\ worktree' \in Trees
    /\ phase' = "edited"
    /\ UNCHANGED <<project, base, patch, sandbox>>

\* SnapshotManifest::diff.
Created(before, after) == DOMAIN after \ DOMAIN before
Deleted(before, after) == DOMAIN before \ DOMAIN after
Both(before, after) == DOMAIN before \cap DOMAIN after
ContentModified(before, after) ==
    {p \in Both(before, after) : before[p].type # after[p].type \/ before[p].data # after[p].data}
PermissionModified(before, after) ==
    {p \in Both(before, after) : before[p].mode # after[p].mode}

\* Mutant of Changed: only what was created or has new content.
ChangedContent(before, after) == Created(before, after) \cup ContentModified(before, after)

Changed(before, after) ==
    Created(before, after) \cup ContentModified(before, after) \cup PermissionModified(before, after)

\* replacements_between: a file that changed is written, a directory that changed is
\* left out, what was deleted is deleted, but not a link.
Writes(before, after) == Changed(before, after) \cap Of(after, "regular")
Deletes(before, after) == Deleted(before, after) \ Of(before, "symlink")

\* The checkpoint fails on a link that changed.
Checkpoint ==
    /\ phase = "edited"
    /\ IF Changed(project, worktree) \cap Of(worktree, "symlink") = {}
       THEN /\ patch' = [writes |-> [p \in Writes(project, worktree) |-> worktree[p]],
                         deletes |-> Deletes(project, worktree)]
            /\ phase' = "recorded"
       ELSE phase' = "refused" /\ UNCHANGED patch
    /\ UNCHANGED <<project, base, worktree, sandbox>>

\* safe_write_path: neither the path nor a directory on the way is a link.
SafeToWrite(tree, p) ==
    \A q \in {p, Parent[p]} \cap DOMAIN tree : tree[q].type # "symlink"

\* A trial begins with a copy of the baseline that gets the modes of the manifest.  The
\* path of every entry must be one that can be written, a link's too.
Copy ==
    /\ phase = "recorded"
    /\ IF CanCopy(base, FALSE) /\ \A p \in DOMAIN base : SafeToWrite(base, p)
       THEN /\ sandbox' = [p \in DOMAIN base |-> [base[p] EXCEPT !.mode = project[p].mode]]
            /\ phase' = "write"
       ELSE phase' = "unreplayable" /\ UNCHANGED sandbox
    /\ UNCHANGED <<project, base, worktree, patch>>

CanWriteIn(tree, d) == d = RootPath \/ tree[d].mode = "rw"

\* create_dir_all, fs::write and set_unix_mode.
CanPut(tree, p) ==
    IF p \in DOMAIN tree THEN tree[p].type = "regular" /\ tree[p].mode = "rw"
    ELSE \/ Parent[p] \in Paths \ DOMAIN tree
         \/ IsDirectory(tree, Parent[p]) /\ CanWriteIn(tree, Parent[p])

NewDirectory == [type |-> "directory", data |-> RootPath, mode |-> "rw"]

Put(tree, p, node) ==
    [q \in DOMAIN tree \cup {p} \cup ({Parent[p]} \ {RootPath}) |->
        IF q = p THEN node ELSE IF q \in DOMAIN tree THEN tree[q] ELSE NewDirectory]

\* symlink_metadata, then remove_dir_all or remove_file.
CanRemove(tree, p) ==
    p \in DOMAIN tree =>
        /\ CanWriteIn(tree, Parent[p])
        /\ InDirectory(tree, p) # {p} => CanWriteIn(tree, p)

\* apply_file_replacement, for each file of the patch: the writes, then the deletions.
WriteFile ==
    /\ phase = "write"
    /\ LET todo == {p \in DOMAIN patch.writes : p \notin DOMAIN sandbox
                                                   \/ sandbox[p] # patch.writes[p]}
       IN IF todo = {} THEN phase' = "delete" /\ UNCHANGED sandbox
          ELSE \E p \in todo :
                 IF CanPut(sandbox, p)
                 THEN sandbox' = Put(sandbox, p, patch.writes[p]) /\ UNCHANGED phase
                 ELSE phase' = "failed" /\ UNCHANGED sandbox
    /\ UNCHANGED <<project, base, worktree, patch>>

DeleteFile ==
    /\ phase = "delete"
    /\ LET todo == patch.deletes \cap DOMAIN sandbox
       IN IF todo = {} THEN phase' = "replayed" /\ UNCHANGED sandbox
          ELSE \E p \in {q \in todo : Parent[q] \notin todo} :
                 IF CanRemove(sandbox, p)
                 THEN sandbox' = Without(sandbox, InDirectory(sandbox, p)) /\ UNCHANGED phase
                 ELSE phase' = "failed" /\ UNCHANGED sandbox
    /\ UNCHANGED <<project, base, worktree, patch>>

Next == Initialize \/ EditOutside \/ Checkpoint \/ Copy \/ WriteFile \/ DeleteFile

Spec == Init /\ [][Next]_sandboxVars

TypeOK ==
    /\ {project, base, worktree, sandbox} \subseteq Trees
    /\ phase \in {"start", "recording", "edited", "recorded", "write", "delete", "replayed",
                  "failed", "refused", "unreplayable"}

FilesOf(tree) == [p \in Of(tree, "regular") |-> tree[p]]

\* What a patch cannot express: a path that is a file on one side and a directory on
\* the other, and a write or a deletion where the project is read-only.
ChangesKind == \E p \in Both(project, worktree) : project[p].type # worktree[p].type
ReadOnly == \E p \in DOMAIN project : project[p].mode = "ro"

\* A file that an empty directory has taken the place of: it is not deleted.
Emptied == {p \in Of(project, "regular") : IsDirectory(worktree, p)}

(***************************************************************************)
(* A checkpoint that replays repeats the edit: the trial has the very      *)
(* files of the worktree, with their modes, and besides only a file in     *)
(* whose place the edit put an empty directory.  A replay that fails does  *)
(* so because the edit changed the kind of a path or met something         *)
(* read-only.  A session with a symbolic link, though it was created and   *)
(* recorded, can never be replayed (replacements_between,                  *)
(* apply_file_replacement, restore_manifest_permissions).                  *)
(***************************************************************************)
EditIsRepeated ==
    /\ phase = "replayed" => Without(FilesOf(sandbox), Emptied) = FilesOf(worktree)
    /\ phase = "failed" => ChangesKind \/ ReadOnly
    /\ phase = "unreplayable" => Of(project, "symlink") # {}
================================================================================
