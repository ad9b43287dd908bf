------------------------------- MODULE SyncFs -------------------------------
(***************************************************************************)
(* SyncFs of crates/star9-fs/src/syncfs.rs: a local file system that       *)
(* remembers which paths were changed (dirty), pushes them to a remote as  *)
(* a tar patch and pulls the remote's tree back.                           *)
(*                                                                         *)
(* push and pull exclude each other (sync_lock) but not the users of the   *)
(* local file system, who change it and mark the change dirty in two       *)
(* steps; a file written to is marked when it is closed.  A step of push   *)
(* or pull is the work on one path.  The remote is external: other clients *)
(* change it, and applying a patch may fail after any number of entries.   *)
(***************************************************************************)
EXTENDS FileTree

CONSTANTS
  Empty,             (* the contents of a leaf just made or truncated *)
  InitTrees,         (* trees both sides may start from               *)
  RetainConflicts,   (* with_pull_conflicts_retained                  *)
  MaxGeneration,     (* bound on the number of marks, next_generation *)
  MaxRemoteChanges   (* bound on the changes other clients make       *)

ASSUME InitTreesAreTrees == InitTrees \subseteq Trees /\ Empty \in Data
ASSUME SyncBounds == MaxGeneration \in Nat /\ MaxRemoteChanges \in Nat /\ RetainConflicts \in BOOLEAN

VARIABLES
  policy,           (* SyncFs.pull_conflict_policy, fixed at construction   *)
  local,            (* SyncFs.local                                         *)
  dirty,            (* SyncState.dirty                                      *)
  next_generation,  (* SyncState.next_generation                            *)
  pull_conflicts,   (* SyncState.pull_conflicts, the paths                  *)
  marks,            (* marks the user's call in progress has still to make  *)
  file,             (* the SyncFile the user has open                       *)
  sync,             (* the locals of the push or pull that has sync_lock    *)
  remote,           (* external: the tree of the remote                     *)
  remoteChanges,    (* number of changes by other clients                   *)
  owed,             (* history: marked paths no push or pull has settled    *)
  touched           (* history: paths the user touched since the snapshot   *)

user == <<local, marks, file>>
marked == <<dirty, next_generation>>
external == <<remote, remoteChanges>>
vars == <<policy, user, marked, pull_conflicts, sync, external, owed, touched>>

Upsert == [kind |-> "upsert", recursive |-> FALSE]
Removal(recursive) == [kind |-> "remove", recursive |-> recursive]
Changes == {Upsert, Removal(TRUE), Removal(FALSE)}

Without(f, S) == [x \in DOMAIN f \ S |-> f[x]]

NoFile == [path |-> <<>>, linked |-> FALSE, dirty |-> FALSE]
NoDirty == [p \in {} |-> [change |-> Upsert, generation |-> 0]]

(* pc: what the holder of sync_lock does next; then: push alone or sync(); snap:   *)
(* the dirty map cloned at the start; cur: pull's working copy of it; todo: paths  *)
(* to work on; patch: the entries built and not yet applied; index:                *)
(* remote.index(); retained: skipped.  todo and patch are the rest of a sorted     *)
(* list, so they are kept as sets and the first element is worked on.              *)
Idle ==
  [pc |-> "idle", then |-> "return", snap |-> NoDirty, cur |-> NoDirty, todo |-> {},
   patch |-> {}, index |-> [p \in {} |-> Dir], retained |-> {}]

(* The order of the dirty BTreeMap, of collect_paths, and of collect_paths reversed. *)
IsFirst(p, S) == p \in S /\ \A q \in S \ {p} : PathLess(p, q)
IsShallowest(p, S) == p \in S /\ \A q \in S \ {p} : ShallowFirst(p, q)
IsDeepest(p, S) == p \in S /\ \A q \in S \ {p} : ShallowFirst(q, p)

Init ==
  /\ policy \in {"KeepLocal", "PreferRemote"}
  /\ local \in InitTrees
  /\ remote = local
  /\ dirty = NoDirty
  /\ next_generation = 0
  /\ pull_conflicts = {}
  /\ marks = <<>>
  /\ file = NoFile
  /\ sync = Idle
  /\ remoteChanges = 0
  /\ owed = {}
  /\ touched = {}

-----------------------------------------------------------------------------
(* The user of the local file system: one call at a time, and one open file. *)

Busy == marks # <<>>
Mark(p, change) == [path |-> p, change |-> change]
PathsOf(calls) == {m.path : m \in ToSet(calls)}

(* What the user has done or is doing that a dirty entry will stand for. *)
InProgress == PathsOf(marks) \cup (IF file.dirty THEN {file.path} ELSE {})

(* A call of FileSystem for SyncFs: change the local tree, then make the marks. *)
LocalCall(t, calls, f) ==
  /\ ~Busy
  /\ next_generation + Len(calls) <= MaxGeneration
  /\ local' = t
  /\ marks' = calls
  /\ file' = f
  /\ touched' = IF sync = Idle THEN {} ELSE touched \cup InProgress'
  /\ UNCHANGED <<policy, marked, pull_conflicts, sync, external, owed>>

(* The open file once p and what is below it are gone: unlinked, but still open. *)
FileWithout(p) == IF path_contains(p, file.path) THEN [file EXCEPT !.linked = FALSE] ELSE file

mkdir(p) ==
  /\ ~exists(local, p) /\ is_dir(local, parent_path(p))
  /\ LocalCall(Put(local, p, Dir), <<Mark(p, Upsert)>>, file)

remove(p) ==
  /\ exists(local, p) /\ (is_dir(local, p) => is_empty(local, p))
  /\ LocalCall(remove_all(local, p), <<Mark(p, Removal(is_dir(local, p)))>>, FileWithout(p))

(* The user does not rename a file it has open: the node moves, and close would *)
(* mark the old name.                                                           *)
rename_path(old, new) ==
  /\ ~Busy /\ next_generation + 2 <= MaxGeneration
  /\ CanRename(local, old, new)
  /\ file.linked => ~path_contains(old, file.path)
  /\ LocalCall(rename(local, old, new),
               <<Mark(old, Removal(is_dir(local, old))), Mark(new, Upsert)>>, FileWithout(new))

(* link and symlink make a leaf; truncate empties one; chmod, chown, chtimes and the *)
(* xattr calls change metadata, which a patch carries but the tree here does not.    *)
link(p) ==
  /\ ~exists(local, p) /\ is_dir(local, parent_path(p))
  /\ LocalCall(Put(local, p, Empty), <<Mark(p, Upsert)>>, file)

truncate(p) ==
  /\ is_leaf(local, p)
  /\ LocalCall(Put(local, p, Empty), <<Mark(p, Upsert)>>, file)

chmod(p) ==
  /\ exists(local, p)
  /\ LocalCall(local, <<Mark(p, Upsert)>>, file)

(* create, and open_file with CREATE or TRUNC: the leaf is made or emptied, no mark yet. *)
create(p) ==
  /\ file = NoFile
  /\ ~is_dir(local, p) /\ is_dir(local, parent_path(p))
  /\ next_generation < MaxGeneration
  /\ LocalCall(Put(local, p, Empty), <<>>, [path |-> p, linked |-> TRUE, dirty |-> TRUE])

(* open_file without them: only a write makes the file dirty. *)
open_file(p) ==
  /\ file = NoFile
  /\ is_leaf(local, p)
  /\ next_generation < MaxGeneration
  /\ LocalCall(local, <<>>, [path |-> p, linked |-> TRUE, dirty |-> FALSE])

write(d) ==
  /\ file # NoFile
  /\ LocalCall(IF file.linked THEN Put(local, file.path, d) ELSE local, <<>>,
               [file EXCEPT !.dirty = TRUE])

close ==
  /\ file # NoFile
  /\ LocalCall(local, IF file.dirty THEN <<Mark(file.path, Upsert)>> ELSE <<>>, NoFile)

(* The close of the file below fails: no mark is made of what was written, and *)
(* its user is told so.  Of a file that was not written it is a close.         *)
close_fails ==
  /\ file.dirty /\ ~Busy
  /\ file' = NoFile
  /\ owed' = owed \ InProgress
  /\ UNCHANGED <<policy, local, marks, marked, pull_conflicts, sync, external, touched>>

MarkedEntry(change) == [change |-> change, generation |-> next_generation + 1]

mark_dirty ==
  /\ Busy
  /\ LET m == Head(marks)
     IN  /\ dirty' = Put(dirty, m.path, MarkedEntry(m.change))
         /\ owed' = owed \cup {m.path}
  /\ next_generation' = next_generation + 1
  /\ marks' = Tail(marks)
  /\ UNCHANGED <<policy, local, file, pull_conflicts, sync, external, touched>>

-----------------------------------------------------------------------------
(* push: clone the dirty map, build the patch path by path, apply, clear.    *)

(* The call returns; a sync() whose push went well goes on with its pull. *)
Return == sync' = Idle /\ touched' = {}
StartPull == [Idle EXCEPT !.pc = "index"]

push(then) ==
  /\ sync = Idle
  /\ DOMAIN dirty # {} \/ then = "pull"
  /\ sync' = IF DOMAIN dirty = {} THEN StartPull
             ELSE [Idle EXCEPT !.pc = "build", !.then = then, !.snap = dirty, !.todo = DOMAIN dirty]
  /\ touched' = InProgress
  /\ UNCHANGED <<policy, user, marked, pull_conflicts, external, owed>>

(* An entry of the patch; root is the dirty path it was built for. *)
Entry(root, p, node) == [root |-> root, path |-> p, node |-> node, recursive |-> FALSE]
DeleteMarker(p, recursive) == [root |-> p, path |-> p, node |-> Absent, recursive |-> recursive]
append_patch_path(p) == {Entry(p, q, local[q]) : q \in {r \in DOMAIN local : path_contains(p, r)}}

(* An Upsert of a path that is gone makes the whole push fail. *)
build_patch ==
  /\ sync.pc = "build"
  /\ \E p \in sync.todo :
       LET change == sync.snap[p].change
           next(entries) == [sync EXCEPT !.todo = @ \ {p}, !.patch = @ \cup entries,
                                         !.pc = IF sync.todo = {p} THEN "apply" ELSE @]
       IN  /\ IsFirst(p, sync.todo)
           /\ \/ /\ change # Upsert
                 /\ sync' = next({DeleteMarker(p, change.recursive)})
                 /\ UNCHANGED touched
              \/ /\ change = Upsert /\ exists(local, p)
                 /\ sync' = next(append_patch_path(p))
                 /\ UNCHANGED touched
              \/ change = Upsert /\ ~exists(local, p) /\ Return
  /\ UNCHANGED <<policy, user, marked, pull_conflicts, external, owed>>

(* apply_sync_patch, one entry: parents are made directories, what is in the way of *)
(* the entry is removed; a delete that is not recursive fails on a non-empty         *)
(* directory.                                                                        *)
ensure_sync_patch_parent_dirs(t, p) ==
  LET up == Upto(p) \ {p}
      freed == [q \in {r \in DOMAIN t : ~\E u \in up : is_leaf(t, u) /\ path_contains(u, r)} |-> t[q]]
  IN  [q \in DOMAIN freed \cup up |-> IF q \in up THEN Dir ELSE freed[q]]

ApplyEntry(t, e) ==
  LET base == ensure_sync_patch_parent_dirs(t, e.path)
  IN  CASE e.node = Absent -> remove_all(t, e.path)
        [] e.node = Dir    -> IF is_dir(base, e.path) THEN base ELSE Put(base, e.path, Dir)
        [] OTHER           -> Put(remove_all(base, e.path), e.path, e.node)

EntryApplies(t, e) == e.node = Absent /\ ~e.recursive /\ is_dir(t, e.path) => is_empty(t, e.path)

(* The order the entries were built in: by dirty path, and parents first below it. *)
Precedes(e, f) == PathLess(e.root, f.root) \/ (e.root = f.root /\ PathLess(e.path, f.path))

(* The marks a push or pull has dealt with: the user has not touched the path since. *)
Settled(S) == owed \ (S \ touched)

(* remote.apply_patch: the entries one after the other, then the answer. *)
apply_sync_patch ==
  /\ sync.pc = "apply"
  /\ \E e \in sync.patch :
       /\ \A f \in sync.patch \ {e} : Precedes(e, f)
       /\ EntryApplies(remote, e)
       /\ remote' = ApplyEntry(remote, e)
       /\ sync' = [sync EXCEPT !.patch = @ \ {e}]
  /\ UNCHANGED <<policy, user, marked, pull_conflicts, remoteChanges, owed, touched>>

apply_patch ==
  /\ sync.pc = "apply" /\ sync.patch = {}
  /\ owed' = Settled(DOMAIN sync.snap)
  /\ sync' = [sync EXCEPT !.pc = "clear"]
  /\ UNCHANGED <<policy, user, marked, pull_conflicts, external, touched>>

(* The remote refuses an entry, or fails on its own, after any number of entries. *)
apply_patch_fails ==
  /\ sync.pc = "apply"
  /\ Return
  /\ UNCHANGED <<policy, user, marked, pull_conflicts, external, owed>>

(* Mutant of Unchanged: the generations are not compared. *)
UnchangedOrNot(snapshot) == DOMAIN snapshot \cap DOMAIN dirty

Unchanged(snapshot) == {p \in DOMAIN snapshot \cap DOMAIN dirty : dirty[p].generation = snapshot[p].generation}

push_clear ==
  /\ sync.pc = "clear"
  /\ dirty' = Without(dirty, Unchanged(sync.snap))
  /\ pull_conflicts' = pull_conflicts \ Unchanged(sync.snap)
  /\ \/ sync.then = "return" /\ Return
     \/ sync.then = "pull" /\ sync' = StartPull /\ UNCHANGED touched
  /\ UNCHANGED <<policy, user, next_generation, external, owed>>

-----------------------------------------------------------------------------
(* pull: fetch the index, then clone the dirty map, then delete local paths the   *)
(* index does not have (deepest first), then bring every path of the index over.  *)

pull ==
  /\ sync = Idle
  /\ sync' = StartPull
  /\ touched' = InProgress
  /\ UNCHANGED <<policy, user, marked, pull_conflicts, external, owed>>

pull_index ==
  /\ sync.pc = "index"
  /\ \/ sync' = [sync EXCEPT !.pc = "snapshot", !.index = remote] /\ UNCHANGED touched
     \/ Return
  /\ UNCHANGED <<policy, user, marked, pull_conflicts, external, owed>>

(* The locals once a path is dealt with and rest is left. *)
Advance(s, rest) ==
  IF s.pc = "delete" /\ rest = {}
  THEN [s EXCEPT !.pc = "fetch", !.todo = DOMAIN s.index]
  ELSE [s EXCEPT !.todo = rest]

pull_snapshot ==
  /\ sync.pc = "snapshot"
  /\ sync' = [sync EXCEPT !.pc = "collect", !.snap = dirty, !.cur = dirty]
  /\ touched' = InProgress
  /\ UNCHANGED <<policy, user, marked, pull_conflicts, external, owed>>

(* The local paths are listed after that: one made in between is not known to be *)
(* dirty, and is deleted.                                                        *)
pull_collect ==
  /\ sync.pc = "collect"
  /\ sync' = Advance([sync EXCEPT !.pc = "delete"], DOMAIN local \ DOMAIN sync.index)
  /\ UNCHANGED <<policy, user, marked, pull_conflicts, external, owed, touched>>

Overlapping(p) == {d \in DOMAIN sync.cur : paths_overlap(d, p)}

(* Mutant of conflicting_dirty_paths: dirty paths below a path are not looked at. *)
ConflictsAboveOnly(p) == {d \in DOMAIN sync.cur : path_contains(d, p)}

(* A directory both sides have is left alone below, so only marks above it matter. *)
conflicting_dirty_paths(p) ==
  IF is_dir(sync.index, p) /\ is_dir(local, p)
  THEN {d \in DOMAIN sync.cur : path_contains(d, p)}
  ELSE Overlapping(p)

Subpaths(p) == {q \in Paths : path_contains(p, q)}

(* Mutant of Skip: the conflicts are not recorded. *)
SkipSilently(p) ==
  /\ sync' = Advance(sync, sync.todo \ {p})
  /\ UNCHANGED <<local, file, touched>>

Skip(p) ==
  /\ sync' = Advance([sync EXCEPT !.retained = @ \cup conflicting_dirty_paths(p)], sync.todo \ {p})
  /\ UNCHANGED <<local, file, touched>>

GiveUp == Return /\ UNCHANGED <<local, file>>

Overwrites(p) == conflicting_dirty_paths(p) = {} \/ policy = "PreferRemote"

pull_delete ==
  /\ sync.pc = "delete"
  /\ \E p \in sync.todo :
       /\ IsDeepest(p, sync.todo)
       /\ \/ ~Overwrites(p) /\ Skip(p)
          \/ /\ Overwrites(p) /\ exists(local, p)
             /\ local' = remove_all(local, p)
             /\ file' = FileWithout(p)
             /\ UNCHANGED touched
             /\ sync' = Advance([sync EXCEPT !.cur = Without(@, Subpaths(p))], sync.todo \ {p})
          \/ Overwrites(p) /\ ~exists(local, p) /\ GiveUp
  /\ UNCHANGED <<policy, marks, marked, pull_conflicts, external, owed>>

(* Mutant of Fetched: what exists locally is taken to be up to date. *)
FetchedIfMissing(p) ==
  IF exists(local, p) THEN local
  ELSE IF is_dir(sync.index, p) THEN mkdir_all(local, p)
  ELSE Put(mkdir_all(local, parent_path(p)), p, sync.index[p])

(* sync_path_from_remote *)
Fetched(p) ==
  IF is_dir(sync.index, p)
  THEN IF is_dir(local, p) THEN local ELSE mkdir_all(remove_all(local, p), p)
  ELSE Put(mkdir_all(remove_all(local, p), parent_path(p)), p, sync.index[p])

CanFetch(p) == Len(p) = 1 \/ CanMkdirAll(local, parent_path(p))

(* A file is rewritten in place, so a SyncFile open on it stays on it. *)
pull_fetch ==
  /\ sync.pc = "fetch"
  /\ \E p \in sync.todo :
       LET isDir == is_dir(sync.index, p)
       IN  /\ IsShallowest(p, sync.todo)
           /\ \/ ~Overwrites(p) /\ Skip(p)
              \/ /\ Overwrites(p) /\ CanFetch(p)
                 /\ local' = Fetched(p)
                 /\ UNCHANGED touched
                 /\ file' = IF isDir = is_dir(local, p) THEN file ELSE FileWithout(p)
                 /\ sync' = Advance([sync EXCEPT !.cur = Without(@, IF isDir THEN {p} ELSE Subpaths(p))],
                                    sync.todo \ {p})
              \/ Overwrites(p) /\ ~CanFetch(p) /\ GiveUp
  /\ UNCHANGED <<policy, marks, marked, pull_conflicts, external, owed>>

pull_finish ==
  /\ sync.pc = "fetch" /\ sync.todo = {}
  /\ dirty' = Without(dirty, Unchanged(sync.snap) \ DOMAIN sync.cur)
  /\ pull_conflicts' = IF RetainConflicts THEN sync.retained ELSE {}
  /\ owed' = Settled(DOMAIN sync.snap \ DOMAIN sync.cur)
  /\ Return
  /\ UNCHANGED <<policy, user, next_generation, external>>

-----------------------------------------------------------------------------
(* External: another client of the remote makes, replaces or removes a path, between *)
(* two entries of a patch too.  While a push builds its patch or a pull works from    *)
(* its index the remote is not looked at, so that such a change need not be told from *)
(* one just before or after.                                                          *)
RemoteChange(p, node) ==
  /\ remoteChanges < MaxRemoteChanges
  /\ sync.pc \in {"idle", "apply", "index"}
  /\ is_dir(remote, parent_path(p))
  /\ Node(remote, p) # node
  /\ remote' = IF node = Absent THEN remove_all(remote, p) ELSE Put(remove_all(remote, p), p, node)
  /\ remoteChanges' = remoteChanges + 1
  /\ UNCHANGED <<policy, user, marked, pull_conflicts, sync, owed, touched>>

UserNext ==
  \/ \E p \in Paths : \/ mkdir(p) \/ remove(p) \/ link(p) \/ truncate(p) \/ chmod(p)
                     \/ create(p) \/ open_file(p)
  \/ \E p, q \in Paths : rename_path(p, q)
  \/ \E d \in Data : write(d)
  \/ close \/ close_fails
  \/ mark_dirty

SyncNext ==
  \/ \E then \in {"return", "pull"} : push(then)
  \/ build_patch \/ apply_sync_patch \/ apply_patch \/ apply_patch_fails \/ push_clear
  \/ pull \/ pull_index \/ pull_snapshot \/ pull_collect \/ pull_delete \/ pull_fetch \/ pull_finish

Next ==
  \/ UserNext
  \/ SyncNext
  \/ \E p \in Paths, node \in Data \cup {Dir, Absent} : RemoteChange(p, node)

Spec == Init /\ [][Next]_vars

-----------------------------------------------------------------------------
TypeOK ==
  /\ policy \in {"KeepLocal", "PreferRemote"}
  /\ local \in Trees
  /\ remote \in Trees
  /\ DOMAIN dirty \subseteq Paths
  /\ \A p \in DOMAIN dirty : dirty[p].change \in Changes /\ dirty[p].generation \in 1..next_generation
  /\ next_generation \in 0..MaxGeneration
  /\ pull_conflicts \subseteq Paths
  /\ file.path \in Paths \cup {<<>>} /\ (file.linked => is_leaf(local, file.path))

(* No mark is dropped before it is served: a path stays dirty until a push whose  *)
(* patch was built after the user's last call on it was applied, or a pull took   *)
(* the remote's version over a mark it had seen.  Of a file whose close failed    *)
(* the user was told that it was not written.                                     *)
MarksAreKept == owed \subseteq DOMAIN dirty \cup InProgress

(* Under KeepLocal no step of a pull changes a path that was dirty when the pull  *)
(* began; and where a finished pull leaves local and remote different, a pull     *)
(* that retains its conflicts reports one there, unless the user was changing the *)
(* path meanwhile.                                                                *)
DirtyPathsAreKept ==
  [][/\ policy = "KeepLocal" /\ sync.pc \in {"delete", "fetch"} /\ sync' # sync =>
          \A p \in DOMAIN sync.snap : Node(local', p) = Node(local, p)
     /\ pull_finish /\ RetainConflicts =>
          \A p \in Paths :
            Node(local, p) # Node(sync.index, p) =>
              \E d \in pull_conflicts' \cup touched : paths_overlap(d, p)]_vars

(* A sync() that ends well while the user was quiet leaves the local tree equal   *)
(* to the remote's, under either policy and whatever went wrong before.           *)
QuietSyncConverges ==
  [][pull_finish /\ touched = {} /\ DOMAIN sync.snap = {} => local = sync.index]_vars

=============================================================================
