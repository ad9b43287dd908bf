------------------------------- MODULE HttpFs -------------------------------
(***************************************************************************)
(* HttpFs (crates/star9-fs/src/lib.rs), a file system over HTTP with a     *)
(* cache of metadata and nodes, against HttpFsHandler (http_server.rs),    *)
(* which serves an in-memory file system.  Threads share the client; the   *)
(* cache's mutex is not held during a request, so a lookup is a check of   *)
(* the cache, a request and a store.  An expired entry is kept: its        *)
(* validators make the next request conditional.  The server's ETag is the *)
(* mode, the length and the second of the last change, and a response may  *)
(* be lost after the server has made the change.  Bodies are one of Data,  *)
(* names have one length, a tar patch holds one file and is sent to ".",   *)
(* the steps of one PUT are one, and symbolic links, owners, permission    *)
(* bits, ignored names and the metadata in listings are left out.          *)
(***************************************************************************)
EXTENDS MemFs, FiniteSets, TLC

CONSTANTS
  Users,        (* threads of the client                              *)
  Paths,        (* the paths in use                                   *)
  Data,         (* what files hold                                    *)
  Length,       (* how long that is                                   *)
  InitTree,     (* the files the server starts with                   *)
  Changes,      (* the changes that are made                          *)
  Lookups,      (* the lookups that are made: [op, path]              *)
  MaxChanges,   (* bound: how many changes are made                   *)
  MaxTime       (* bound: how far the clock goes, in seconds          *)

ASSUME PathsAreSequences == Paths \subseteq Seq(Nat)
ASSUME InitTreeIsTyped == DOMAIN InitTree \subseteq Paths
ASSUME LookupsAreTyped == \A l \in Lookups : l.op \in {"stat", "open", "read_dir"} /\ l.path \in Paths
ASSUME ChangesAreTyped ==
  \A c \in Changes :
    /\ c.op \in {"put", "mkdir", "remove", "rename", "patch"} /\ c.path \in Paths
    /\ c.op = "rename" => c.to \in Paths

VARIABLES
  tree, mtime,   (* the server's nodes and when they were changed     *)
  cache,         (* the client's entries, by [kind, path]             *)
  thread,        (* what each thread is doing                         *)
  now,           (* the clock                                         *)
  changes,       (* how many changes were made                        *)
  versions       (* history: the versions of every file               *)

vars == <<tree, mtime, cache, thread, now, changes, versions>>

Ttl == 1
NoValidators == <<>>
NotFound == [kind |-> "not_found"]
Idle == [pc |-> "idle"]

-----------------------------------------------------------------------------
(* The server. *)
ContentLength(t, p) == IF t[p] = Dir THEN Cardinality(children_for(t, p)) ELSE Length[t[p]]
IsDir(t, p) == t[p] = Dir

(* metadata_headers: the ETag, and what a HEAD tells. *)
ETag(t, m, p) == <<IsDir(t, p), ContentLength(t, p), m[p]>>
Metadata(t, m, p) == [kind |-> "stat", dir |-> IsDir(t, p), size |-> ContentLength(t, p), modified |-> m[p]]
NodeOf(t, p) ==
  IF IsDir(t, p) THEN [kind |-> "dir", entries |-> {<<n, stat(t, Append(p, n)) = Dir>> : n \in children_for(t, p)}]
  ELSE [kind |-> "file", body |-> t[p]]
Answer(t, m, k) ==
  IF ~exists(t, k.path) THEN NotFound
  ELSE IF k.kind = "stat" THEN Metadata(t, m, k.path) ELSE NodeOf(t, k.path)

(* What PUT, DELETE, MOVE and PATCH do to the tree: MKCOL of a directory   *)
(* that exists is no error, a PATCH makes the directories it needs.        *)
handle_put(t, p, d) == IF HasParent(t, p) THEN Ok(Insert(t, p, d)) ELSE Fail("not_found", t)
handle_mkdir(t, p) == IF stat(t, p) = Dir THEN Ok(t) ELSE mkdir(t, p)
handle_patch(t, p, d) ==
  Ok([q \in {r \in DOMAIN t : ~IsStrictPrefix(p, r)} \cup {SubSeq(p, 1, n) : n \in 1..Len(p)} |->
        IF q = p THEN d ELSE IF IsStrictPrefix(q, p) THEN Dir ELSE t[q]])
handle(t, c) ==
  CASE c.op = "put" -> handle_put(t, c.path, c.data)
    [] c.op = "mkdir" -> handle_mkdir(t, c.path)
    [] c.op = "remove" -> remove(t, c.path)
    [] c.op = "rename" -> rename(t, c.path, c.to)
    [] c.op = "patch" -> handle_patch(t, c.path, c.data)

(* Content-Modified sets the time of what was put; a node that moves keeps *)
(* its time, and no change of its entries touches that of a directory.     *)
Stamped(t, m, c, new) ==
  [q \in DOMAIN new |->
     CASE c.op \in {"put", "mkdir", "patch"} /\ q = c.path -> now
       [] c.op = "rename" /\ IsPrefix(c.to, q) /\ c.path \o SubSeq(q, Len(c.to) + 1, Len(q)) \in DOMAIN t ->
            m[c.path \o SubSeq(q, Len(c.to) + 1, Len(q))]
       [] OTHER -> IF q \in DOMAIN t /\ t[q] = new[q] THEN m[q] ELSE now]

Versions(t, m) == {[path |-> p, etag |-> ETag(t, m, p), body |-> t[p]] : p \in {q \in DOMAIN t : t[q] # Dir}}

Init ==
  /\ tree = InitTree /\ mtime = [p \in DOMAIN InitTree |-> 0]
  /\ cache = [k \in {} |-> Idle]
  /\ thread = [u \in Users |-> Idle]
  /\ now = 0 /\ changes = 0
  /\ versions = Versions(InitTree, mtime)

-----------------------------------------------------------------------------
(* Lookups: open and read_dir load the node, stat the metadata. *)
Key(l) == [kind |-> IF l.op = "stat" THEN "stat" ELSE "node", path |-> l.path]
Live(k) == k \in DOMAIN cache /\ cache[k].expires_at > now

(* An expired value is revalidated; an expired "not found" is asked anew. *)
NoEntry == [value |-> NotFound, validators |-> NoValidators, excused |-> FALSE, torn |-> FALSE]
stale_entry(k) ==
  IF k \in DOMAIN cache /\ cache[k].value # NotFound
  THEN [value |-> cache[k].value, validators |-> cache[k].validators,
        excused |-> cache[k].excused \/ \E u \in Users : thread[u].pc = "invalidate", torn |-> cache[k].torn]
  ELSE NoEntry

lookup(u, l) ==
  /\ thread[u] = Idle /\ ~Live(Key(l))
  /\ thread' = [thread EXCEPT ![u] = [pc |-> "ask", key |-> Key(l), multi |-> l.op = "read_dir",
                                      stale |-> stale_entry(Key(l))]]
  /\ UNCHANGED <<tree, mtime, cache, now, changes, versions>>

(* A bug to catch: any validator of the request will do. *)
NotModifiedIfAny(validators, etag) == validators # NoValidators

conditional_not_modified(validators, etag) == validators = etag

(* The multipart listing of a directory carries no validators and is never *)
(* conditional; the client then keeps those of its stale entry.            *)
response_validators(stale, etag, multipart) == IF multipart THEN stale.validators ELSE etag

Stores(r, value, validators, excused, torn) ==
  [pc |-> "store", key |-> r.key,
   entry |-> [value |-> value, validators |-> validators, excused |-> excused, torn |-> torn]]
Answered(u, r) == thread' = [thread EXCEPT ![u] = r] /\ UNCHANGED <<tree, mtime, cache, now, changes, versions>>

(* A response and its parsing: 304 renews the stale entry. *)
Response(r, etag, multipart, fresh, torn) ==
  LET same == ~multipart /\ conditional_not_modified(r.stale.validators, etag)
  IN  Stores(r, IF same THEN r.stale.value ELSE fresh, response_validators(r.stale, etag, multipart),
             torn \/ (same /\ r.stale.excused), torn \/ (same /\ r.stale.torn))

handle_head(u) ==
  LET r == thread[u]
      p == r.key.path
  IN  /\ r.pc = "ask" /\ r.key.kind = "stat"
      /\ Answered(u, IF exists(tree, p)
                     THEN Response(r, ETag(tree, mtime, p), FALSE, Metadata(tree, mtime, p), FALSE)
                     ELSE Stores(r, NotFound, NoValidators, FALSE, FALSE))

(* handle_get reads the metadata and then the contents, which another      *)
(* request may change in between (`torn`: they are not of one version).    *)
handle_get(u) ==
  LET r == thread[u]
      p == r.key.path
  IN  /\ r.pc = "ask" /\ r.key.kind = "node"
      /\ Answered(u, IF exists(tree, p)
                     THEN [pc |-> "read", key |-> r.key, multi |-> r.multi, stale |-> r.stale,
                           modified |-> mtime[p], dir |-> IsDir(tree, p), torn |-> FALSE]
                     ELSE Stores(r, NotFound, NoValidators, FALSE, FALSE))

(* What turned from a file into a directory, or back, is an error.  The    *)
(* listing with a part for every child is several calls on the server: it  *)
(* is one step here.  A call that fails ends the lookup as lookup_fails    *)
(* does; an answer mixed from before and after a change is not modelled.   *)
handle_get_body(u) ==
  LET r == thread[u]
      p == r.key.path
  IN  /\ r.pc = "read"
      /\ Answered(u, IF ~exists(tree, p) THEN Stores(r, NotFound, NoValidators, FALSE, FALSE)
                     ELSE IF IsDir(tree, p) # r.dir THEN Idle
                     ELSE Response(r, <<r.dir, ContentLength(tree, p), r.modified>>, r.multi /\ r.dir,
                                   NodeOf(tree, p), r.torn))

(* The request or its response is lost: an error, which is not cached. *)
lookup_fails(u) ==
  /\ thread[u].pc \in {"ask", "read", "store"}
  /\ thread' = [thread EXCEPT ![u] = Idle]
  /\ UNCHANGED <<tree, mtime, cache, now, changes, versions>>

With(k, e) == [j \in DOMAIN cache \cup {k} |-> IF j = k THEN e ELSE cache[j]]
cache_store(u) ==
  LET r == thread[u]
  IN  /\ r.pc = "store"
      /\ cache' = With(r.key, [value |-> r.entry.value, validators |-> r.entry.validators, excused |-> r.entry.excused,
                               torn |-> r.entry.torn, expires_at |-> now + Ttl])
      /\ thread' = [thread EXCEPT ![u] = Idle]
      /\ UNCHANGED <<tree, mtime, now, changes, versions>>

-----------------------------------------------------------------------------
(* Changes.  History: what lookups in flight carry is `excused` when the   *)
(* change puts it out of date, and so is what is cached if the client is   *)
(* not told of the change.  Nor can it tell what a change does where a     *)
(* file took the place of a directory: the nodes left below it make up     *)
(* directories that are listed and are no longer there (NoOrphans).        *)
Outdated(k, new, m) == Answer(tree, mtime, k) # Answer(new, m, k)

Unforeseen(told) == ~told \/ ~NoOrphans(tree)

Serve(c, told) ==
  LET new == handle(tree, c).tree
      m == Stamped(tree, mtime, c, new)
  IN  /\ handle(tree, c).err = "none" /\ changes < MaxChanges
      /\ \A p \in DOMAIN new : p \in Paths
      /\ tree' = new /\ mtime' = m
      /\ changes' = changes + 1
      /\ versions' = versions \cup Versions(new, m)
      /\ cache' = [k \in DOMAIN cache |->
                     IF Unforeseen(told) /\ Outdated(k, new, m) THEN [cache[k] EXCEPT !.excused = TRUE] ELSE cache[k]]

Noted(u) ==
  LET new == tree'
  IN  IF thread[u].pc \in {"ask", "read", "store"} /\ Outdated(thread[u].key, new, mtime')
      THEN CASE thread[u].pc = "ask" -> [thread[u] EXCEPT !.stale.excused = TRUE]
             [] thread[u].pc = "read" -> [thread[u] EXCEPT !.stale.excused = TRUE, !.torn = TRUE]
             [] thread[u].pc = "store" -> [thread[u] EXCEPT !.entry.excused = TRUE]
      ELSE thread[u]

(* put_node, remove, rename, patch_tar: the request is answered. *)
change(u, c) ==
  /\ thread[u] = Idle
  /\ Serve(c, TRUE)
  /\ thread' = [v \in Users |-> IF v = u THEN [pc |-> "invalidate", change |-> c] ELSE Noted(v)]
  /\ UNCHANGED now

(* The server makes the change, and its response is lost: the call fails   *)
(* and invalidates nothing.  Or somebody else makes it.                    *)
change_unseen(c) ==
  /\ Serve(c, FALSE)
  /\ thread' = [v \in Users |-> Noted(v)]
  /\ UNCHANGED now

InTree(p) == {k \in DOMAIN cache : IsPrefix(p, k.path)}
Exact(p) == {k \in DOMAIN cache : k.path = p}

(* A bug to catch: the directory something vanishes from is not invalidated. *)
InvalidationsOfTrees(c) == InTree(c.path) \cup (IF c.op = "rename" THEN InTree(c.to) ELSE {})

Invalidations(c) ==
  CASE c.op = "rename" -> InTree(c.path) \cup InTree(c.to) \cup Exact(parent_path(c.path)) \cup Exact(parent_path(c.to))
    [] c.op = "patch" -> DOMAIN cache
    [] OTHER -> InTree(c.path) \cup Exact(parent_path(c.path))

invalidate(u) ==
  /\ thread[u].pc = "invalidate"
  /\ cache' = [k \in DOMAIN cache \ Invalidations(thread[u].change) |-> cache[k]]
  /\ thread' = [thread EXCEPT ![u] = Idle]
  /\ UNCHANGED <<tree, mtime, now, changes, versions>>

tick ==
  /\ now < MaxTime
  /\ now' = now + 1
  /\ UNCHANGED <<tree, mtime, cache, thread, changes, versions>>

Next ==
  \/ \E u \in Users :
       \/ \E l \in Lookups : lookup(u, l)
       \/ handle_head(u) \/ handle_get(u) \/ handle_get_body(u) \/ lookup_fails(u) \/ cache_store(u) \/ invalidate(u)
       \/ \E c \in Changes : change(u, c)
  \/ \E c \in Changes : change_unseen(c)
  \/ tick

Spec == Init /\ [][Next]_vars

-----------------------------------------------------------------------------
Values ==
  {NotFound} \cup [kind : {"stat"}, dir : BOOLEAN, size : Nat, modified : 0..MaxTime]
             \cup [kind : {"file"}, body : Data]
             \cup [kind : {"dir"}, entries : SUBSET (Nat \X BOOLEAN)]
Entries == [value : Values, validators : {NoValidators} \cup (BOOLEAN \X Nat \X (0..MaxTime)),
            excused : BOOLEAN, torn : BOOLEAN]

(* Type invariant: nodes have times, an entry of the node cache is a node  *)
(* and one of the stat cache metadata.                                     *)
TypeOK ==
  /\ DOMAIN mtime = DOMAIN tree /\ DOMAIN tree \subseteq Paths
  /\ \A k \in DOMAIN cache :
       /\ k.path \in Paths
       /\ cache[k].value.kind \in {"not_found"} \cup (IF k.kind = "stat" THEN {"stat"} ELSE {"file", "dir"})
       /\ [f \in {"value", "validators", "excused", "torn"} |-> cache[k][f]] \in Entries
       /\ cache[k].expires_at \in Nat
  /\ \A u \in Users : thread[u].pc \in {"idle", "ask", "read", "store", "invalidate"}

(* Once a put, remove, rename or patch has returned, no live entry shows   *)
(* the state before it: every entry that is out of date was loaded while a *)
(* change was made, or after a change this client was not told of.  What a *)
(* mutation invalidates (the tree below, the listing above) is enough,     *)
(* unless nodes had been left without the directory above them.            *)
OwnChangesAreSeen ==
  (\A u \in Users : thread[u].pc # "invalidate") =>
    \A k \in DOMAIN cache :
      Live(k) /\ ~cache[k].excused => cache[k].value = Answer(tree, mtime, k)

(* A cached file body is one the server had under the validators cached    *)
(* with it, however often it was revalidated: a 304 never joins the body   *)
(* of one version to the validators of another.                            *)
ValidatorsNameTheirBody ==
  \A k \in DOMAIN cache :
    cache[k].value.kind = "file" /\ ~cache[k].torn =>
      [path |-> k.path, etag |-> cache[k].validators, body |-> cache[k].value.body] \in versions

=============================================================================
