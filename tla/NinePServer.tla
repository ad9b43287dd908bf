---------------------------- MODULE NinePServer ----------------------------
(***************************************************************************)
(* NinePServer of crates/star9-protocol/src/p9.rs: the fid table of a      *)
(* 9P2000.L server and the handlers that serve a file system through it.   *)
(*                                                                         *)
(* Requests are handled by threads (the caller's, or one per request in    *)
(* AsyncNinePServer) that share the table under one mutex.  A handler is a *)
(* few steps: a critical section that resolves its fids, its calls to the  *)
(* served file system, and for some a second critical section that         *)
(* installs the result.  read and write call the file inside the critical  *)
(* section.  How requests arrive and replies leave is up to the modules    *)
(* that extend this one.                                                   *)
(*                                                                         *)
(* The served file system is external: a FileTree.  File contents are not  *)
(* modelled; the data of a leaf is the value of its one extended attribute.*)
(***************************************************************************)
EXTENDS FileTree, FiniteSets

CONSTANTS
  Threads,   (* the threads that run handlers                       *)
  Fids,      (* fid numbers                                         *)
  Bytes,     (* byte values clients write to an extended attribute  *)
  DirChunk   (* directory entries that fit in one Rreaddir          *)

(* Values of an attribute: unset, set and empty, every byte the same, or mixed. *)
Unset == "unset"
Blank == "blank"
Torn == "torn"
Zero == "zero"
ASSUME DataIsAttribute == Data = {Unset, Blank, Torn} \cup Bytes /\ {Unset, Blank, Torn, Zero} \cap Bytes = {}
ASSUME BytesAreFinite == IsFiniteSet(Bytes)
ASSUME DirChunkIsPositive == DirChunk \in Nat \ {0}
ASSUME NoThreadIsFree == 0 \notin Threads

VARIABLES
  fids,      (* ServerState.fids                                            *)
  lock,      (* the thread doing file I/O under the mutex of ServerState    *)
  handler,   (* per thread: locals of NinePServer::handle                   *)
  tree,      (* external: the served file system                            *)
  lost       (* history: an open file was dropped, unclosed, after a write  *)

server == <<fids, lock, handler, tree, lost>>

Free == 0
NoHandle == [kind |-> "none"]
File(dirty) == [kind |-> "file", dirty |-> dirty]
XattrRead(value) == [kind |-> "xattr_read", value |-> value]
unopened(path) == [path |-> path, handle |-> NoHandle]

Ok(n) == [ok |-> TRUE, n |-> n, names |-> <<>>]
Lerror == [ok |-> FALSE, n |-> 0, names |-> <<>>]
NoRequest == [type |-> "none"]
Ready == [pc |-> "idle", req |-> NoRequest, path |-> <<>>, path2 |-> <<>>, n |-> 0,
          state |-> unopened(<<>>), reply |-> Lerror]

InitServer(initFids, initTree) ==
  /\ fids = initFids
  /\ lock = Free
  /\ handler = [t \in Threads |-> Ready]
  /\ tree = initTree
  /\ lost = FALSE

-----------------------------------------------------------------------------
(* XattrWriteState: an attribute is collected from writes at any offset and *)
(* stored once every byte of it has been written.  A range <<s, e>> is      *)
(* s..e-1; the sorted list of the ranges written is kept as their set.      *)

NewXattrWrite(size) ==
  [kind |-> "xattr_write", data |-> [i \in 0..size - 1 |-> Zero], written |-> {},
   committed |-> FALSE]

Lowest(S) == CHOOSE s \in S : \A x \in S : s <= x
Highest(S) == CHOOSE s \in S : \A x \in S : s >= x
Span(ranges) == <<Lowest({r[1] : r \in ranges}), Highest({r[2] : r \in ranges})>>

(* Mutant of record_write: a range that only touches the new one is taken to overlap *)
(* it by one byte more.                                                             *)
RecordLoosely(written, start, end) ==
  LET touching == {r \in written : r[2] + 1 >= start /\ r[1] <= end + 1}
  IN  (written \ touching) \cup {Span(touching \cup {<<start, end>>})}

(* Ranges that overlap or touch the new one are merged with it. *)
record_write(written, start, end) ==
  LET touching == {r \in written : r[2] >= start /\ r[1] <= end}
  IN  IF start = end THEN written
      ELSE (written \ touching) \cup {Span(touching \cup {<<start, end>>})}

is_complete(w) == DOMAIN w.data = {} \/ w.written = {<<0, Cardinality(DOMAIN w.data)>>}

(* The write fails, and changes nothing, when it ends beyond the announced size. *)
CanWriteAt(w, offset, n) == offset + n <= Cardinality(DOMAIN w.data)
write_at(w, offset, n, byte) ==
  [w EXCEPT !.data = [i \in DOMAIN @ |-> IF i \in offset..offset + n - 1 THEN byte ELSE @[i]],
            !.written = record_write(@, offset, offset + n)]

Value(w) ==
  IF DOMAIN w.data = {} THEN Blank
  ELSE IF \E b \in Bytes : \A i \in DOMAIN w.data : w.data[i] = b
       THEN CHOOSE b \in Bytes : \A i \in DOMAIN w.data : w.data[i] = b
       ELSE Torn

(* Mutant of CommitReady: the pieces are not checked for holes. *)
CommitUnchecked(h) == h.kind = "xattr_write" /\ ~h.committed

(* commit_xattr_if_ready stores the attribute once, when it is complete. *)
CommitReady(h) == h.kind = "xattr_write" /\ ~h.committed /\ is_complete(h)

(* set_xattr of the served file system: it keeps attributes on leaves only. *)
CommitTo(path, h) ==
  \/ /\ CommitReady(h) /\ is_leaf(tree, path)
     /\ tree' = Put(tree, path, Value(h))
  \/ /\ ~(CommitReady(h) /\ is_leaf(tree, path))
     /\ UNCHANGED tree
Committed(path, h) == h.kind # "xattr_write" \/ h.committed \/ (CommitReady(h) /\ is_leaf(tree, path))

-----------------------------------------------------------------------------
(* Steps shared by the handlers.                                            *)

Handles(t, pc, types) == handler[t].pc = pc /\ handler[t].req.type \in types
Req(t) == handler[t].req

Reply(t, reply) == handler' = [handler EXCEPT ![t].pc = "done", ![t].reply = reply]
Fail(t) == Reply(t, Lerror) /\ UNCHANGED <<fids, lock, tree, lost>>
Answer(t, ok, n) == Reply(t, IF ok THEN Ok(n) ELSE Lerror)

(* fids.insert: the previous state of the fid, and its open file, are dropped. *)
Install(fid, state) ==
  /\ fids' = [f \in DOMAIN fids \cup {fid} |-> IF f = fid THEN state ELSE fids[f]]
  /\ lost' = (lost \/ (fid \in DOMAIN fids /\ fids[fid].handle = File(TRUE)))

(* A handle that takes the place of the fid's handle. *)
SetHandle(fid, handle) == Install(fid, [fids[fid] EXCEPT !.handle = handle])

(* Begin handling a request; Start is called by the extending modules. *)
Start(t, req) == handler' = [handler EXCEPT ![t] = [Ready EXCEPT !.pc = "begin", !.req = req]]

-----------------------------------------------------------------------------
(* Handlers that only touch the table.                                      *)

(* Tversion: the negotiated msize is stored and read by nobody. *)
version(t) ==
  /\ Handles(t, "begin", {"version"}) /\ lock = Free
  /\ Reply(t, Ok(0))
  /\ UNCHANGED <<fids, lock, tree, lost>>

(* attach fails, and installs nothing, when the root cannot be looked up. *)
attach(t) ==
  /\ Handles(t, "begin", {"attach"}) /\ lock = Free
  /\ \/ /\ Install(Req(t).fid, unopened(<<>>))
        /\ Reply(t, Ok(0))
        /\ UNCHANGED <<lock, tree>>
     \/ Fail(t)

(* getattr asks the open file, which may fail, or looks the path up. *)
getattr(t) ==
  /\ Handles(t, "begin", {"getattr"}) /\ lock = Free
  /\ \E stats \in BOOLEAN :
       LET f == Req(t).fid
           path == IF f \in DOMAIN fids THEN fids[f].path ELSE <<>>
           ok == /\ f \in DOMAIN fids
                 /\ fids[f].handle = NoHandle => exists(tree, path)
                 /\ fids[f].handle.kind = "file" => stats
       IN  Answer(t, ok, IF is_dir(tree, path) THEN 1 ELSE 0)
  /\ UNCHANGED <<fids, lock, tree, lost>>

xattrcreate(t) ==
  /\ Handles(t, "begin", {"xattrcreate"}) /\ lock = Free
  /\ IF Req(t).fid \in DOMAIN fids
     THEN /\ SetHandle(Req(t).fid, NewXattrWrite(Req(t).size))
          /\ Reply(t, Ok(0))
          /\ UNCHANGED <<lock, tree>>
     ELSE Fail(t)

(* read and write of an extended attribute: no file is called. *)
xattr_io(t) ==
  /\ Handles(t, "begin", {"read", "write"}) /\ lock = Free
  /\ LET f == Req(t).fid
         h == IF f \in DOMAIN fids THEN fids[f].handle ELSE NoHandle
     IN  /\ h.kind # "file"
         /\ \/ /\ Req(t).type = "write" /\ h.kind = "xattr_write"
               /\ CanWriteAt(h, Req(t).offset, Req(t).n)
               /\ SetHandle(f, write_at(h, Req(t).offset, Req(t).n, Req(t).byte))
               /\ Reply(t, Ok(Req(t).n))
               /\ UNCHANGED <<lock, tree>>
            \/ /\ Req(t).type = "read" /\ h.kind = "xattr_read"
               /\ Reply(t, [Ok(1) EXCEPT !.names = <<h.value>>])
               /\ UNCHANGED <<fids, lock, tree, lost>>
            \/ /\ ~(Req(t).type = "read" /\ h.kind = "xattr_read")
               /\ ~(Req(t).type = "write" /\ h.kind = "xattr_write" /\ CanWriteAt(h, Req(t).offset, Req(t).n))
               /\ Fail(t)

(* read, write and fsync of an open file call it with the mutex held. *)
file_io(t) ==
  /\ Handles(t, "begin", {"read", "write", "fsync"}) /\ lock = Free
  /\ Req(t).fid \in DOMAIN fids /\ fids[Req(t).fid].handle.kind = "file"
  /\ lock' = t
  /\ handler' = [handler EXCEPT ![t].pc = "io"]
  /\ UNCHANGED <<fids, tree, lost>>

(* Mutant of file_io_done: the early return of a failed call keeps the mutex. *)
IoDoneLocked(t) ==
  /\ handler[t].pc = "io"
  /\ \E ok \in BOOLEAN :
       /\ IF ok THEN fids' = [fids EXCEPT ![Req(t).fid].handle = File(Req(t).type = "write" \/ (@.dirty /\ Req(t).type = "read"))]
          ELSE UNCHANGED fids
       /\ lock' = IF ok THEN Free ELSE lock
       /\ Answer(t, ok, 0)
  /\ UNCHANGED <<tree, lost>>

file_io_done(t) ==
  /\ handler[t].pc = "io"
  /\ \E ok \in BOOLEAN :
       /\ IF ok THEN fids' = [fids EXCEPT ![Req(t).fid].handle = File(Req(t).type = "write" \/ (@.dirty /\ Req(t).type = "read"))]
          ELSE UNCHANGED fids
       /\ Answer(t, ok, 0)
  /\ lock' = Free
  /\ UNCHANGED <<tree, lost>>

(* fsync of anything but an open file; a complete attribute is stored. *)
fsync(t) ==
  /\ Handles(t, "begin", {"fsync"}) /\ lock = Free
  /\ LET f == Req(t).fid
     IN  \/ /\ f \notin DOMAIN fids
            /\ Fail(t)
         \/ /\ f \in DOMAIN fids /\ fids[f].handle.kind # "file"
            /\ LET h == fids[f].handle
                   ok == Committed(fids[f].path, h)
               IN  /\ CommitTo(fids[f].path, h)
                   /\ IF ok /\ h.kind = "xattr_write"
                      THEN fids' = [fids EXCEPT ![f].handle.committed = TRUE]
                      ELSE UNCHANGED fids
                   /\ Answer(t, ok, 0)
            /\ UNCHANGED <<lock, lost>>

-----------------------------------------------------------------------------
(* Handlers that resolve a fid, call the file system, and may install a     *)
(* result: the table may have changed in between.                           *)

OneFid == {"lopen", "lcreate", "setattr", "mkdir", "readdir", "unlinkat", "symlink", "readlink"}
TwoFids == {"link", "renameat"}
NewFid == {"walk", "xattrwalk"}

(* fid_path *)
fid_path(t) ==
  /\ Handles(t, "begin", OneFid \cup TwoFids) /\ lock = Free
  /\ IF Req(t).fid \in DOMAIN fids
     THEN /\ handler' = [handler EXCEPT ![t].path = fids[Req(t).fid].path,
                                        ![t].pc = IF Req(t).type \in TwoFids THEN "second" ELSE "fs"]
          /\ UNCHANGED <<fids, lock, tree, lost>>
     ELSE Fail(t)

(* The second fid of link and rename_at is looked up in a critical section of its own. *)
second_fid_path(t) ==
  /\ handler[t].pc = "second" /\ lock = Free
  /\ IF Req(t).newfid \in DOMAIN fids
     THEN /\ handler' = [handler EXCEPT ![t].path2 = fids[Req(t).newfid].path, ![t].pc = "fs"]
          /\ UNCHANGED <<fids, lock, tree, lost>>
     ELSE Fail(t)

(* walk and xattrwalk reject a newfid in use before anything else. *)
new_fid_path(t) ==
  /\ Handles(t, "begin", NewFid) /\ lock = Free
  /\ LET f == Req(t).fid
         g == Req(t).newfid
     IN  IF (g # f /\ g \in DOMAIN fids) \/ f \notin DOMAIN fids
         THEN Fail(t)
         ELSE /\ handler' = [handler EXCEPT ![t].path = fids[f].path, ![t].pc = "fs"]
              /\ UNCHANGED <<fids, lock, tree, lost>>

(* The names of a walk are resolved one by one up to the first that is not there. *)
Walked(base, names) ==
  LET good == {n \in 0..Len(names) : \A m \in 1..n : exists(tree, base \o SubSeq(names, 1, m))}
  IN  CHOOSE n \in good : \A m \in good : m <= n

walk(t) ==
  /\ Handles(t, "fs", {"walk"})
  /\ LET names == Req(t).names
         n == Walked(handler[t].path, names)
     IN  IF n = 0 /\ names # <<>>
         THEN Fail(t)
         ELSE /\ handler' = [handler EXCEPT ![t].pc = "install", ![t].n = n,
                               ![t].state = unopened(handler[t].path \o SubSeq(names, 1, n))]
              /\ UNCHANGED <<fids, lock, tree, lost>>

xattrwalk(t) ==
  /\ Handles(t, "fs", {"xattrwalk"})
  /\ LET path == handler[t].path
     IN  IF is_leaf(tree, path) /\ Node(tree, path) # Unset
         THEN /\ handler' = [handler EXCEPT ![t].pc = "install",
                               ![t].n = IF Node(tree, path) = Blank THEN 0 ELSE 1,
                               ![t].state = [path |-> path, handle |-> XattrRead(Node(tree, path))]]
              /\ UNCHANGED <<fids, lock, tree, lost>>
         ELSE Fail(t)

lopen(t) ==
  /\ Handles(t, "fs", {"lopen"})
  /\ IF exists(tree, handler[t].path)
     THEN /\ handler' = [handler EXCEPT ![t].pc = "install",
                           ![t].state = [path |-> handler[t].path, handle |-> File(FALSE)]]
          /\ UNCHANGED <<fids, lock, tree, lost>>
     ELSE Fail(t)

lcreate(t) ==
  /\ Handles(t, "fs", {"lcreate"})
  /\ LET path == Append(handler[t].path, Req(t).name)
     IN  IF is_dir(tree, handler[t].path) /\ ~is_dir(tree, path)
         THEN /\ tree' = IF exists(tree, path) THEN tree ELSE Put(tree, path, Unset)
              /\ handler' = [handler EXCEPT ![t].pc = "install",
                               ![t].state = [path |-> path, handle |-> File(FALSE)]]
              /\ UNCHANGED <<fids, lock, lost>>
         ELSE Fail(t)

(* walk and xattrwalk insert the new fid without a second look at the table. *)
install_new(t) ==
  /\ Handles(t, "install", NewFid) /\ lock = Free
  /\ Install(Req(t).newfid, handler[t].state)
  /\ Reply(t, Ok(handler[t].n))
  /\ UNCHANGED <<lock, tree>>

(* lopen and lcreate give the file to the fid if it is still there. *)
install_file(t) ==
  /\ Handles(t, "install", {"lopen", "lcreate"}) /\ lock = Free
  /\ IF Req(t).fid \in DOMAIN fids
     THEN /\ Install(Req(t).fid, handler[t].state)
          /\ Reply(t, Ok(0))
          /\ UNCHANGED <<lock, tree>>
     ELSE Fail(t)

-----------------------------------------------------------------------------
(* Handlers that end with their call to the file system.                    *)

CanUnlink(path, removedir) ==
  /\ exists(tree, path)
  /\ is_dir(tree, path) <=> removedir
  /\ is_empty(tree, path)

setattr(t) ==
  /\ Handles(t, "fs", {"setattr"})
  /\ LET path == handler[t].path
     IN  Answer(t, IF Req(t).size THEN is_leaf(tree, path) ELSE exists(tree, path), 0)
  /\ UNCHANGED <<fids, lock, tree, lost>>

mkdir(t) ==
  /\ Handles(t, "fs", {"mkdir"})
  /\ LET path == Append(handler[t].path, Req(t).name)
         ok == is_dir(tree, handler[t].path) /\ ~exists(tree, path)
     IN  /\ tree' = IF ok THEN Put(tree, path, Dir) ELSE tree
         /\ Answer(t, ok, 0)
  /\ UNCHANGED <<fids, lock, lost>>

symlink(t) ==
  /\ Handles(t, "fs", {"symlink"})
  /\ LET path == Append(handler[t].path, Req(t).name)
         ok == is_dir(tree, handler[t].path) /\ ~exists(tree, path)
     IN  /\ tree' = IF ok THEN Put(tree, path, Unset) ELSE tree
         /\ Answer(t, ok, 0)
  /\ UNCHANGED <<fids, lock, lost>>

(* Files and links are not told apart, so a leaf may or may not have a target. *)
readlink(t) ==
  /\ Handles(t, "fs", {"readlink"})
  /\ \E ok \in BOOLEAN : (ok => is_leaf(tree, handler[t].path)) /\ Answer(t, ok, 0)
  /\ UNCHANGED <<fids, lock, tree, lost>>

link(t) ==
  /\ Handles(t, "fs", {"link"})
  /\ LET path == Append(handler[t].path2, Req(t).name)
         ok == is_leaf(tree, handler[t].path) /\ is_dir(tree, handler[t].path2) /\ ~exists(tree, path)
     IN  /\ tree' = IF ok THEN Put(tree, path, Node(tree, handler[t].path)) ELSE tree
         /\ Answer(t, ok, 0)
  /\ UNCHANGED <<fids, lock, lost>>

rename_at(t) ==
  /\ Handles(t, "fs", {"renameat"})
  /\ LET old == Append(handler[t].path, Req(t).name)
         new == Append(handler[t].path2, Req(t).newname)
         ok == CanRename(tree, old, new)
     IN  /\ tree' = IF ok THEN rename(tree, old, new) ELSE tree
         /\ Answer(t, ok, 0)
  /\ UNCHANGED <<fids, lock, lost>>

unlink_at(t) ==
  /\ Handles(t, "fs", {"unlinkat"})
  /\ LET path == Append(handler[t].path, Req(t).name)
         ok == CanUnlink(path, Req(t).removedir)
     IN  /\ tree' = IF ok THEN remove_all(tree, path) ELSE tree
         /\ Answer(t, ok, 0)
  /\ UNCHANGED <<fids, lock, lost>>

Children(path) ==
  SetToSortSeq({p[Len(p)] : p \in {q \in DOMAIN tree : parent_path(q) = path}}, <)

(* Mutant of readdir: the entry after the offset is skipped. *)
ReaddirSkips(t) ==
  /\ Handles(t, "fs", {"readdir"})
  /\ LET all == Children(handler[t].path)
         skip == IF Req(t).offset = 0 THEN 0 ELSE Req(t).offset + 1
         last == IF Len(all) < skip + DirChunk THEN Len(all) ELSE skip + DirChunk
     IN  IF is_dir(tree, handler[t].path)
         THEN Reply(t, [Ok(last) EXCEPT !.names = SubSeq(all, skip + 1, last)])
         ELSE Reply(t, Lerror)
  /\ UNCHANGED <<fids, lock, tree, lost>>

(* The entries after the first `offset`, as many as fit; n is the offset of the last. *)
readdir(t) ==
  /\ Handles(t, "fs", {"readdir"})
  /\ LET all == Children(handler[t].path)
         skip == Req(t).offset
         last == IF Len(all) < skip + DirChunk THEN Len(all) ELSE skip + DirChunk
     IN  IF is_dir(tree, handler[t].path)
         THEN Reply(t, [Ok(last) EXCEPT !.names = SubSeq(all, skip + 1, last)])
         ELSE Reply(t, Lerror)
  /\ UNCHANGED <<fids, lock, tree, lost>>

-----------------------------------------------------------------------------
(* Handlers that take the fid out of the table first, whatever follows.     *)

take_fid(t) ==
  /\ Handles(t, "begin", {"clunk", "remove"}) /\ lock = Free
  /\ IF Req(t).fid \in DOMAIN fids
     THEN /\ fids' = [f \in DOMAIN fids \ {Req(t).fid} |-> fids[f]]
          /\ handler' = [handler EXCEPT ![t].pc = "taken", ![t].state = fids[Req(t).fid]]
          /\ UNCHANGED <<lock, tree, lost>>
     ELSE Fail(t)

(* Mutant of clunk: the open file is dropped and not closed. *)
ClunkWithoutClose(t) ==
  /\ Handles(t, "taken", {"clunk"})
  /\ LET s == handler[t].state
     IN  /\ CommitTo(s.path, s.handle)
         /\ lost' = (lost \/ s.handle = File(TRUE))
         /\ Answer(t, Committed(s.path, s.handle), 0)
  /\ UNCHANGED <<fids, lock>>

(* clunk stores a complete attribute, or closes the open file, which may fail: the *)
(* fid is gone all the same.                                                       *)
clunk(t) ==
  /\ Handles(t, "taken", {"clunk"})
  /\ \E closes \in BOOLEAN :
       LET s == handler[t].state
       IN  /\ CommitTo(s.path, s.handle)
           /\ Answer(t, Committed(s.path, s.handle) /\ (s.handle.kind = "file" => closes), 0)
  /\ UNCHANGED <<fids, lock, lost>>

(* remove of the root fails with the fid's file dropped, otherwise it is closed. *)
remove(t) ==
  /\ Handles(t, "taken", {"remove"})
  /\ LET s == handler[t].state
         ok == s.path # <<>> /\ exists(tree, s.path) /\ is_empty(tree, s.path)
     IN  /\ tree' = IF ok THEN remove_all(tree, s.path) ELSE tree
         /\ lost' = (lost \/ (s.path = <<>> /\ s.handle = File(TRUE)))
         /\ Answer(t, ok, 0)
  /\ UNCHANGED <<fids, lock>>

HandlerStep(t) ==
  \/ version(t) \/ attach(t) \/ getattr(t) \/ xattrcreate(t)
  \/ xattr_io(t) \/ file_io(t) \/ file_io_done(t) \/ fsync(t)
  \/ fid_path(t) \/ second_fid_path(t) \/ new_fid_path(t)
  \/ walk(t) \/ xattrwalk(t) \/ lopen(t) \/ lcreate(t) \/ install_new(t) \/ install_file(t)
  \/ setattr(t) \/ mkdir(t) \/ symlink(t) \/ readlink(t) \/ link(t) \/ rename_at(t) \/ unlink_at(t) \/ readdir(t)
  \/ take_fid(t) \/ clunk(t) \/ remove(t)

-----------------------------------------------------------------------------

HandlerStates == {"idle", "begin", "io", "second", "fs", "install", "taken", "done"}

ServerTypeOK ==
  /\ DOMAIN fids \subseteq Fids
  /\ \A f \in DOMAIN fids :
       /\ fids[f].path \in Paths \cup {<<>>}
       /\ fids[f].handle.kind \in {"none", "file", "xattr_read", "xattr_write"}
  /\ lock \in Threads \cup {Free}
  /\ \A t \in Threads : handler[t].pc \in HandlerStates /\ handler[t].path \in Paths \cup {<<>>}
  /\ DOMAIN tree \subseteq Paths /\ \A p \in DOMAIN tree : tree[p] \in Data \cup {Dir}
  /\ IsTree(tree)
  /\ lost \in BOOLEAN

(* What a writer of an attribute is made of. *)
IsXattrWrite(h) ==
  LET size == Cardinality(DOMAIN h.data)
  IN  /\ DOMAIN h = {"kind", "data", "written", "committed"} /\ h.kind = "xattr_write"
      /\ size \in Nat /\ DOMAIN h.data = 0..size - 1 /\ \A i \in DOMAIN h.data : h.data[i] \in Bytes \cup {Zero}
      /\ \A r \in h.written : r[1] \in 0..size - 1 /\ r[2] \in r[1] + 1..size /\ r = <<r[1], r[2]>>
      /\ h.committed \in BOOLEAN

(* The ranges it keeps (XattrWriteState.written) are exactly the bytes written so far, *)
(* merged wherever they overlap or touch; that is what lets is_complete look at one    *)
(* range only.                                                                         *)
Exact(h) ==
  /\ \A i \in DOMAIN h.data : h.data[i] # Zero <=> \E r \in h.written : i \in r[1]..r[2] - 1
  /\ \A r, s \in h.written : r # s => r[2] < s[1] \/ s[2] < r[1]
RangesAreExact == \A f \in DOMAIN fids : fids[f].handle.kind = "xattr_write" => Exact(fids[f].handle)

=============================================================================
