----------------------------- MODULE MetaCacheFs -----------------------------
(***************************************************************************)
(* MetaCacheFs of crates/star9-fs/src/metacache.rs: stat, lstat and        *)
(* read_dir of an inner file system are cached for a time to live, results *)
(* and errors alike; half-way an entry is refreshed by a spawned thread.   *)
(* Changes made through the cache call the inner file system and then      *)
(* remove the entries they affect, in critical sections of their own.      *)
(*                                                                         *)
(* The inner file system is external: a FileTree.  A leaf is Link, a       *)
(* symbolic link to LinkTarget, or a file with its present metadata: names *)
(* with the same leaf are hard links to one file.  The metadata of a       *)
(* directory is its size, which counts its entries as MemFs does; modes    *)
(* and owners of directories are left out.  Others change the tree behind  *)
(* the cache's back, and a call to it may fail.                            *)
(***************************************************************************)
EXTENDS FileTree

CONSTANTS
  Users,              (* threads that call the file system                     *)
  Refreshers,         (* refresh threads that may be running at a time         *)
  LinkTarget,         (* where symbolic links point                            *)
  InitTrees,          (* inner trees at the start                              *)
  Keys,               (* the cache keys looked up: [path, kind]                *)
  Mutations,          (* the changes: path, and path2, the new name of a       *)
                      (* rename or the old name of a link                      *)
  ForeignChanges,     (* those that others make too                            *)
  Ttls,               (* values set_ttl may choose                             *)
  MaxTime,            (* bound on the clock                                    *)
  MaxMutations,       (* bound on the changes made through the cache           *)
  MaxDisturbances     (* bound on foreign changes and failed calls             *)

Link == "link"

ASSUME UsersAreNotRefreshers == Users \cap Refreshers = {}
ASSUME KeysAreTyped == Keys \subseteq [path : Paths \cup {<<>>}, kind : {"stat", "lstat", "read_dir"}]
ASSUME MutationsAreTyped ==
  \A m \in Mutations :
    /\ m.op \in {"create", "symlink", "mkdir", "link", "chmod", "write", "remove", "rename"}
    /\ m.path \in Paths /\ (m.op \in {"rename", "link"} => m.path2 \in Paths)
    /\ m.op \in {"create", "chmod", "write"} => m.node \in Data \ {Link}
    /\ m.op = "symlink" => m.node = Link
    /\ m.op = "mkdir" => m.node = Dir
ASSUME ForeignChangesAreChanges == ForeignChanges \subseteq Mutations
ASSUME InitTreesAreTrees == InitTrees \subseteq Trees
ASSUME LinkIsALeaf == Link \in Data
ASSUME TtlsAreNat == Ttls \subseteq Nat /\ MaxTime \in Nat

VARIABLES
  now, ttl,
  inner,       (* external: the wrapped file system                              *)
  cache,       (* MetaCacheState.cache                                           *)
  thread,      (* per thread: the lookup, refresh or change it is executing      *)
  mutations, disturbances, (* numbers of changes, and of foreign changes and failures *)
  zeroed       (* history: caching was switched off at some time                 *)

vars == <<now, ttl, inner, cache, thread, mutations, disturbances, zeroed>>

Threads == Users \cup Refreshers
Error == [error |-> TRUE, nodes |-> {}, sizes |-> {}]

(* pc: what the thread does next; key, result: of a lookup or refresh; todo: the        *)
(* invalidations a change has still to make; excused: history, the result read is known *)
(* to be outdated.                                                                      *)
NoWork == [pc |-> "idle", key |-> [path |-> <<>>, kind |-> "stat"], result |-> Error, ttl |-> 0,
           todo |-> <<>>, excused |-> FALSE]

Init ==
  /\ now = 0
  /\ ttl \in Ttls
  /\ inner \in InitTrees
  /\ cache = [k \in {} |-> NoWork]
  /\ thread = [t \in Threads |-> NoWork]
  /\ mutations = 0
  /\ disturbances = 0
  /\ zeroed = FALSE

-----------------------------------------------------------------------------
(* What the inner file system answers.                                      *)

Followed(t, p) == IF Node(t, p) = Link THEN LinkTarget ELSE p
Children(t, p) == {q \in DOMAIN t : parent_path(q) = p}
Size(t, p) == 2 + Cardinality(Children(t, p))   (* recompute_dir_sizes *)

(* The metadata of the paths in S: the node, and the size of a directory. *)
Shows(t, S) == [error |-> FALSE, nodes |-> {<<q, Node(t, q)>> : q \in S},
                sizes |-> {<<q, Size(t, q)>> : q \in {r \in S : is_dir(t, r)}}]
Answer(t, k) ==
  LET p == IF k.kind = "lstat" THEN k.path ELSE Followed(t, k.path)
  IN  CASE k.kind \in {"stat", "lstat"} ->
             IF exists(t, p) /\ (k.kind = "stat" => Node(t, p) # Link) THEN Shows(t, {p}) ELSE Error
        [] k.kind = "read_dir" -> IF is_dir(t, p) THEN Shows(t, Children(t, p)) ELSE Error

-----------------------------------------------------------------------------
(* Lookups and the refresh they may start.                                  *)

Forget(k) == [j \in DOMAIN cache \ {k} |-> cache[j]]
Live(k) == k \in DOMAIN cache /\ now < cache[k].expires_at

(* get_cached finds nothing, or an entry that has expired and is removed. *)
lookup_miss(u, k) ==
  /\ thread[u].pc = "idle"
  /\ ~Live(k)
  /\ cache' = Forget(k)
  /\ thread' = [thread EXCEPT ![u].pc = "read", ![u].key = k]
  /\ UNCHANGED <<now, ttl, inner, mutations, disturbances, zeroed>>

RefreshDue(k) == cache[k].renews /\ cache[k].renew_at <= now /\ ~cache[k].refreshing

(* get_cached finds an entry past its half life: it is marked and a thread is spawned. *)
lookup_refresh(u, r, k) ==
  /\ thread[u].pc = "idle" /\ thread[r].pc = "idle"
  /\ Live(k) /\ RefreshDue(k)
  /\ cache' = [cache EXCEPT ![k].refreshing = TRUE]
  /\ thread' = [thread EXCEPT ![r].pc = "read", ![r].key = k]
  /\ UNCHANGED <<now, ttl, inner, mutations, disturbances, zeroed>>

(* The call of the inner file system. *)
read_inner(t) ==
  /\ thread[t].pc = "read"
  /\ thread' = [thread EXCEPT ![t].pc = "ttl", ![t].result = Answer(inner, thread[t].key),
                              ![t].excused = FALSE]
  /\ UNCHANGED <<now, ttl, inner, cache, mutations, disturbances, zeroed>>

read_fails(t) ==
  /\ thread[t].pc = "read" /\ disturbances < MaxDisturbances
  /\ thread' = [thread EXCEPT ![t].pc = "ttl", ![t].result = Error, ![t].excused = TRUE]
  /\ disturbances' = disturbances + 1
  /\ UNCHANGED <<now, ttl, inner, cache, mutations, zeroed>>

Return(t) == thread' = [thread EXCEPT ![t] = NoWork]
Extends(t) == t \in Refreshers /\ thread[t].result.error

(* set_cached reads the time to live in a critical section of its own; zero is no cache. *)
cache_ttl(t) ==
  /\ thread[t].pc = "ttl" /\ ~Extends(t)
  /\ IF ttl = 0 THEN Return(t) ELSE thread' = [thread EXCEPT ![t].pc = "insert", ![t].ttl = ttl]
  /\ UNCHANGED <<now, ttl, inner, cache, mutations, disturbances, zeroed>>

(* Errors are kept for half the time and not refreshed (renew_at is None: ~renews).     *)
(* History: excused, extended, and resized, the directories in which a name was made or *)
(* removed through the cache since.                                                     *)
Entry(t) ==
  LET w == thread[t]
  IN  [payload |-> w.result, renews |-> ~w.result.error, renew_at |-> now + w.ttl \div 2,
       expires_at |-> now + (IF w.result.error THEN w.ttl \div 2 ELSE w.ttl),
       refreshing |-> FALSE, extended |-> FALSE, excused |-> w.excused, resized |-> {}]

set_cached(t) ==
  /\ thread[t].pc = "insert"
  /\ cache' = [k \in DOMAIN cache \cup {thread[t].key} |->
                 IF k = thread[t].key THEN Entry(t) ELSE cache[k]]
  /\ Return(t)
  /\ UNCHANGED <<now, ttl, inner, mutations, disturbances, zeroed>>

(* Mutant of Extended: the entry stays marked as being refreshed. *)
ExtendedButMarked(e) ==
  [e EXCEPT !.renews = TRUE, !.renew_at = now + ttl \div 2, !.expires_at = now + ttl, !.extended = TRUE]

Extended(e) ==
  [e EXCEPT !.renews = TRUE, !.renew_at = now + ttl \div 2, !.expires_at = now + ttl,
            !.refreshing = FALSE, !.extended = TRUE]

(* extend_expiry: a refresh that fails keeps what is cached for another period. *)
extend_expiry(r) ==
  /\ thread[r].pc = "ttl" /\ Extends(r)
  /\ LET k == thread[r].key
     IN  cache' = IF ttl = 0 THEN Forget(k)
                  ELSE [j \in DOMAIN cache |-> IF j = k THEN Extended(cache[j]) ELSE cache[j]]
  /\ Return(r)
  /\ UNCHANGED <<now, ttl, inner, mutations, disturbances, zeroed>>

-----------------------------------------------------------------------------
(* Changes: the inner call, then the invalidations the code makes for it.   *)

exact(p) == [scope |-> "path", path |-> p]      (* invalidate                *)
below(p) == [scope |-> "dir", path |-> p]       (* invalidate_dir            *)
listing(p) == [scope |-> "listing", path |-> parent_path(p)] (* invalidate_parent_listing *)

(* Mutant of Invalidations: the listing a name was moved into is forgotten about. *)
InvalidationsOfOld(m) ==
  CASE m.op = "remove" -> <<below(m.path), listing(m.path)>>
    [] m.op = "rename" -> <<below(m.path), below(m.path2), listing(m.path)>>
    [] m.op \notin {"remove", "rename"} -> <<exact(m.path), listing(m.path)>>

(* write: MetaCacheFile writes through and invalidates when it is closed. *)
Invalidations(m) ==
  CASE m.op = "remove" -> <<below(m.path), listing(m.path)>>
    [] m.op = "rename" -> <<below(m.path), below(m.path2), listing(m.path), listing(m.path2)>>
    [] m.op \notin {"remove", "rename"} -> <<exact(m.path), listing(m.path)>>

NewFile(m) == \A p \in DOMAIN inner : inner[p] # m.node
Possible(m) ==
  CASE m.op = "create" -> is_dir(inner, parent_path(m.path)) /\ ~exists(inner, m.path) /\ NewFile(m)
    [] m.op \in {"symlink", "mkdir"} -> is_dir(inner, parent_path(m.path)) /\ ~exists(inner, m.path)
    [] m.op = "link" -> is_dir(inner, parent_path(m.path)) /\ ~exists(inner, m.path) /\ is_leaf(inner, m.path2)
    [] m.op \in {"chmod", "write"} ->
         is_leaf(inner, Followed(inner, m.path)) /\ Node(inner, Followed(inner, m.path)) # Link /\ NewFile(m)
    [] m.op = "remove" -> exists(inner, m.path) /\ is_empty(inner, m.path)
    [] m.op = "rename" -> CanRename(inner, m.path, m.path2)

(* chmod and write reach the file under all its names. *)
Altered(p, node) == [q \in DOMAIN inner |-> IF inner[q] = Node(inner, p) THEN node ELSE inner[q]]
Result(m) ==
  CASE m.op \in {"create", "symlink", "mkdir"} -> Put(inner, m.path, m.node)
    [] m.op = "link" -> Put(inner, m.path, inner[m.path2])
    [] m.op \in {"chmod", "write"} -> Altered(Followed(inner, m.path), m.node)
    [] m.op = "remove" -> remove_all(inner, m.path)
    [] m.op = "rename" -> rename(inner, m.path, m.path2)

(* History: results read before a change, and not yet stored, are outdated by it. *)
Outdated(w) ==
  IF w.pc \in {"ttl", "insert"} /\ Answer(inner', w.key) # Answer(inner, w.key)
  THEN [w EXCEPT !.excused = TRUE] ELSE w

(* History: the invalidations of a change name the path it was given, so they miss what  *)
(* it alters under another name: that of a hard link, or one side of a symbolic link,    *)
(* its own or that of the cached path.                                                   *)
At(a, p) == {n \in a.nodes : n[1] = p}
BehindLink(m, k) ==
  /\ Answer(inner', k) # Answer(inner, k)
  /\ k.path # m.path
  /\ \/ m.op \in {"chmod", "write"} /\ At(Answer(inner', k), m.path) = At(Answer(inner, k), m.path)
     \/ k.kind # "lstat" /\ Followed(inner, k.path) # k.path /\ Followed(inner', k.path) # k.path
Excuse(k) == [cache[k] EXCEPT !.excused = TRUE]

(* History: the directories whose number of entries a change may alter. *)
Parents(m) ==
  CASE m.op \in {"chmod", "write"} -> {}
    [] m.op = "rename" -> {parent_path(m.path), parent_path(m.path2)}
    [] m.op \notin {"chmod", "write", "rename"} -> {parent_path(m.path)}
Resize(k, m) == [cache[k] EXCEPT !.resized = @ \cup Parents(m)]

mutate(u, m) ==
  /\ thread[u].pc = "idle" /\ mutations < MaxMutations
  /\ Possible(m)
  /\ inner' = Result(m)
  /\ cache' = [k \in DOMAIN cache |-> IF BehindLink(m, k) THEN Excuse(k) ELSE Resize(k, m)]
  /\ thread' = [t \in Threads |->
                  IF t = u THEN [NoWork EXCEPT !.pc = "invalidate", !.todo = Invalidations(m)]
                  ELSE Outdated(thread[t])]
  /\ mutations' = mutations + 1
  /\ UNCHANGED <<now, ttl, disturbances, zeroed>>

Covers(i, k) ==
  CASE i.scope = "path" -> k.path = i.path
    [] i.scope = "dir" -> path_contains(i.path, k.path)
    [] i.scope = "listing" -> k.path = i.path /\ k.kind = "read_dir"

invalidate(u) ==
  /\ thread[u].pc = "invalidate"
  /\ cache' = [k \in {j \in DOMAIN cache : ~Covers(Head(thread[u].todo), j)} |-> cache[k]]
  /\ IF Len(thread[u].todo) = 1 THEN Return(u) ELSE thread' = [thread EXCEPT ![u].todo = Tail(@)]
  /\ UNCHANGED <<now, ttl, inner, mutations, disturbances, zeroed>>

invalidate_all ==
  /\ cache # [k \in {} |-> NoWork]
  /\ cache' = [k \in {} |-> NoWork]
  /\ UNCHANGED <<now, ttl, inner, thread, mutations, disturbances, zeroed>>

set_ttl(n) ==
  /\ n # ttl
  /\ ttl' = n
  /\ zeroed' = (zeroed \/ n = 0)
  /\ UNCHANGED <<now, inner, cache, thread, mutations, disturbances>>

(* External: somebody else changes the inner file system. *)
foreign_change(m) ==
  /\ disturbances < MaxDisturbances
  /\ Possible(m)
  /\ inner' = Result(m)
  /\ cache' = [k \in DOMAIN cache |->
                 IF Answer(inner', k) # Answer(inner, k) THEN Excuse(k) ELSE cache[k]]
  /\ thread' = [t \in Threads |-> Outdated(thread[t])]
  /\ disturbances' = disturbances + 1
  /\ UNCHANGED <<now, ttl, mutations, zeroed>>

tick ==
  /\ now < MaxTime
  /\ now' = now + 1
  /\ UNCHANGED <<ttl, inner, cache, thread, mutations, disturbances, zeroed>>

Next ==
  \/ \E u \in Users :
       \/ \E k \in Keys : lookup_miss(u, k) \/ \E r \in Refreshers : lookup_refresh(u, r, k)
       \/ \E m \in Mutations : mutate(u, m)
       \/ invalidate(u)
  \/ \E t \in Threads : read_inner(t) \/ read_fails(t) \/ cache_ttl(t) \/ set_cached(t)
  \/ \E r \in Refreshers : extend_expiry(r)
  \/ \E m \in ForeignChanges : foreign_change(m)
  \/ \E n \in Ttls : set_ttl(n)
  \/ invalidate_all
  \/ tick

Spec == Init /\ [][Next]_vars

-----------------------------------------------------------------------------

TypeOK ==
  /\ now \in 0..MaxTime /\ ttl \in Ttls
  /\ inner \in Trees
  /\ DOMAIN cache \subseteq Keys
  /\ \A k \in DOMAIN cache :
       /\ cache[k].renew_at <= cache[k].expires_at
       /\ cache[k].renews = (cache[k].extended \/ ~cache[k].payload.error)
  /\ \A t \in Threads : thread[t].pc \in {"idle", "read", "ttl", "insert", "invalidate"}

Outstanding(k) == \E u \in Users : \E i \in DOMAIN thread[u].todo : Covers(thread[u].todo[i], k)

(* The same answer, but for the sizes of some directories. *)
Agree(a, b, dirs) ==
  /\ a.error = b.error /\ a.nodes = b.nodes
  /\ {z \in a.sizes : z[1] \notin dirs} = {z \in b.sizes : z[1] \notin dirs}

UpToDate(k) ==
  Live(k) /\ ~cache[k].excused /\ ~Outstanding(k) => Agree(cache[k].payload, Answer(inner, k), cache[k].resized)

(* Changes made through the cache are seen: once the change has made its invalidations, *)
(* no lookup finds a result from before it, whatever lookups, refreshes and other       *)
(* changes run at the same time.  Excepted are the size of the directory in which the   *)
(* change made or removed a name (invalidate_parent_listing forgets its listing, not    *)
(* its stat, nor the listing above that shows it), a result that was read from the      *)
(* inner file system before the change and is stored after it (a miss or a refresh in   *)
(* flight re-inserts it), what others changed, and what a change alters under another   *)
(* name, through a symbolic or a hard link.                                             *)
ChangesAreSeen == \A k \in DOMAIN cache : UpToDate(k)

(* An entry marked as being refreshed has a thread refreshing its key, so no entry that *)
(* is looked up again and again is left without refresh-ahead.  (Unless caching was     *)
(* switched off: set_cached then returns and leaves the mark.)                          *)
RefreshIsRunning ==
  \A k \in DOMAIN cache : cache[k].refreshing =>
    zeroed \/ ttl = 0 \/ \E r \in Refreshers : thread[r].pc # "idle" /\ thread[r].key = k

=============================================================================
