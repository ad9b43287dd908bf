-------------------------------- MODULE Wasi --------------------------------
(***************************************************************************)
(* The WASI host functions (crates/star9-runtime/src/wasi.rs) as one guest *)
(* calls them: the descriptor table of its task, the handles behind it     *)
(* (NodeFile and DirFile of crates/star9-fs/src/lib.rs) and the file       *)
(* system in memory that its namespace shows at the root.                  *)
(*                                                                         *)
(* A handle on a file carries a copy of the contents, taken when it was    *)
(* opened; fd_write and fd_pwrite change the copy and put all of it back.  *)
(* A node of the tree is a number in a string, a byte is an element of     *)
(* Bytes or 0.  Symbolic links, times, attributes and the addresses of the *)
(* guest's memory are left out; all its pointers are good.                 *)
(***************************************************************************)
EXTENDS Naturals, Integers, Sequences, FiniteSets, SequencesExt, MemFs

CONSTANTS
  Paths,     (* the paths the guest names: sequences of numbers            *)
  NodeIds,   (* the nodes of files, in the order they are made             *)
  Bytes,     (* what the guest writes: positive numbers                    *)
  Buffers,   (* sizes of the buffers of fd_readdir: an entry takes two     *)
  MaxLen,    (* bound: length of a file                                    *)
  MaxFd,     (* bound: descriptors that are made                           *)
  MaxOps     (* bound: calls of the guest that change something            *)

VARIABLES
  tree,      (* MemFs.nodes, by path                                       *)
  nodes,     (* Node.data, by node                                         *)
  fds,       (* FdTable.files, by number                                   *)
  next,      (* FdTable.next                                               *)
  net,       (* #net/1: the connections that wait, were made and were hung *)
  result,    (* what the last call answered                                *)
  ops,       (* how many calls were made                                   *)
  ref,       (* history: by node, every write where it was meant to go     *)
  lost,      (* history: nodes written from a copy that was out of date    *)
  walks      (* history: by descriptor, the listing the guest reads        *)

vars == <<tree, nodes, fds, next, net, result, ops, ref, lost, walks>>

Root == <<>>
NoWalks == [fd \in {} |-> <<>>]

(* Handles; pos and stale are history: the offset the guest expects, and   *)
(* whether the node has changed behind the handle.                         *)
DirHandle(path) == [kind |-> "dir", path |-> path]
FileHandle(path, node, off) ==
  [kind |-> "file", path |-> path, node |-> node, data |-> nodes'[node], off |-> off, pos |-> off,
   stale |-> FALSE]

(* ensure_default_preopen: the root, with a file and a directory, is open. *)
Init ==
  /\ tree = [p \in {Root, <<1>>, <<2>>} |-> IF p = <<1>> THEN NodeIds[1] ELSE Dir]
  /\ nodes = [n \in {NodeIds[1]} |-> <<CHOOSE b \in Bytes : TRUE>>]
  /\ fds = [fd \in {3} |-> DirHandle(Root)] /\ next = 4
  /\ net = [waiting |-> <<>>, dialed |-> 0, hung |-> {}] /\ result = <<"start">> /\ ops = 0
  /\ ref = nodes /\ lost = {} /\ walks = NoWalks

Answer(r) == ops < MaxOps /\ ops' = ops + 1 /\ result' = r

(* A call that changes nothing is not counted. *)
Fails(errno) ==
  /\ ops < MaxOps /\ result' = <<errno>>
  /\ UNCHANGED <<tree, nodes, fds, next, net, ops, ref, lost, walks>>

Changed(f, k, v) == [x \in DOMAIN f \cup {k} |-> IF x = k THEN v ELSE f[x]]
Fds(kind) == {fd \in DOMAIN fds : fds[fd].kind = kind}
join_wasi_path(fd, rel) == fds[fd].path \o rel

-----------------------------------------------------------------------------
(* NodeFile.  A write beyond the end fills the gap with zeros. *)
Resized(data, n) == [i \in 1..n |-> IF i <= Len(data) THEN data[i] ELSE 0]
Largest(a, b) == IF a > b THEN a ELSE b
Smallest(a, b) == IF a < b THEN a ELSE b
Piece(data, at, n) == SubSeq(data, at + 1, Smallest(at + n, Len(data)))
Overlay(data, at, bytes) ==
  [i \in 1..Largest(Len(data), at + Len(bytes)) |->
     IF i > at /\ i <= at + Len(bytes) THEN bytes[i - at]
     ELSE IF i <= Len(data) THEN data[i] ELSE 0]
NodeFile_write(h, bytes) ==
  LET end == h.off + Len(bytes)
      grown == IF end > Len(h.data) THEN Resized(h.data, end) ELSE h.data
  IN  [h EXCEPT !.data = SubSeq(grown, 1, h.off) \o bytes \o SubSeq(grown, end + 1, Len(grown)),
                !.off = end]

(* NodeFile::sync puts the copy of descriptor fd back into the node.  The  *)
(* other handles on the node do not hear of it.                            *)
Overtake(table, fd, node) ==
  [f \in DOMAIN table |->
     IF f # fd /\ table[f].kind = "file" /\ table[f].node = node THEN [table[f] EXCEPT !.stale = TRUE]
     ELSE table[f]]

Store(fd, h, at, bytes) ==
  /\ Len(h.data) <= MaxLen
  /\ nodes' = [nodes EXCEPT ![h.node] = h.data]
  /\ fds' = Overtake([fds EXCEPT ![fd] = h], fd, h.node)
  /\ ref' = [ref EXCEPT ![h.node] = Overlay(@, at, bytes)]
  /\ lost' = IF h.stale THEN lost \cup {h.node} ELSE lost
  /\ UNCHANGED <<tree, next, net, walks>>

(* fd_write: the buffers are written and synced one after the other. *)
fd_write(fd, bytes) ==
  \/ /\ fd \in Fds("file")
     /\ LET h == NodeFile_write(fds[fd], bytes)
        IN  Store(fd, [h EXCEPT !.pos = @ + Len(bytes)], fds[fd].pos, bytes)
     /\ Answer(<<"written", Len(bytes)>>)
  \/ fd \in Fds("dir") /\ Fails("denied")

fd_read(fd, n) ==
  \/ /\ fd \in Fds("file")
     /\ LET h == fds[fd]
            got == Piece(h.data, h.off, n)
        IN  /\ fds' = [fds EXCEPT ![fd].off = @ + Len(got), ![fd].pos = @ + Len(got)]
            /\ Answer(<<"read", got>>)
     /\ UNCHANGED <<tree, nodes, next, net, ref, lost, walks>>
  \/ fd \in Fds("dir") /\ Fails("invalid")

(* A bug to catch: the offset is left where the write ended. *)
offset_moved(before, after) == after

with_preserved_offset(before, after) == [after EXCEPT !.off = before.off]

(* NodeFile::write_at moves the offset and writes; fd_pwrite puts it back. *)
fd_pwrite(fd, bytes, at) ==
  \/ /\ fd \in Fds("file")
     /\ LET h == fds[fd]
            moved == NodeFile_write([h EXCEPT !.off = at, !.data = IF at > Len(@) THEN Resized(@, at) ELSE @], bytes)
        IN  Store(fd, with_preserved_offset(h, moved), at, bytes)
     /\ Answer(<<"written", Len(bytes)>>)
  \/ fd \in Fds("dir") /\ Fails("not_supported")

(* NodeFile::read_at refuses an offset beyond the end. *)
fd_pread(fd, n, at) ==
  \/ /\ fd \in Fds("file")
     /\ IF at > Len(fds[fd].data) THEN Fails("invalid")
        ELSE /\ ops < MaxOps /\ result' = <<"read", Piece(fds[fd].data, at, n)>>
             /\ UNCHANGED <<tree, nodes, fds, next, net, ops, ref, lost, walks>>
  \/ fd \in Fds("dir") /\ Fails("not_supported")

(* fd_seek and fd_tell; NodeFile::seek refuses to leave the file. *)
fd_seek(fd, whence, offset) ==
  \/ /\ fd \in Fds("file")
     /\ LET h == fds[fd]
            to == offset + (CASE whence = "set" -> 0 [] whence = "cur" -> h.off [] whence = "end" -> Len(h.data))
        IN  IF to < 0 \/ to > Len(h.data) THEN Fails("invalid")
            ELSE /\ fds' = [fds EXCEPT ![fd].off = to, ![fd].pos = to]
                 /\ Answer(<<"offset", to>>)
                 /\ UNCHANGED <<tree, nodes, next, net, ref, lost, walks>>
  \/ fd \in Fds("dir") /\ Fails("not_supported")

(* fd_allocate writes a zero at the new end of a file that is shorter.  A  *)
(* directory has the size it was opened with; it cannot be written.        *)
fd_allocate(fd, end) ==
  \/ /\ fd \in Fds("file")
     /\ LET h == fds[fd]
            moved == NodeFile_write([h EXCEPT !.off = end - 1, !.data = Resized(@, end - 1)], <<0>>)
        IN  IF end <= Len(h.data) THEN Fails("success")
            ELSE Store(fd, with_preserved_offset(h, moved), end - 1, <<0>>) /\ Answer(<<"success">>)
  \/ /\ fd \in Fds("dir")
     /\ \E errno \in {"success", "not_supported"} : Fails(errno)

(* fd_filestat_set_size: the node at the path of the descriptor, not its copy. *)
fd_filestat_set_size(fd, size) ==
  LET path == fds[fd].path
  IN  /\ fd \in Fds("file")
      /\ IF ~exists(tree, path) \/ tree[path] = Dir THEN Fails("not_found")
         ELSE /\ nodes' = [nodes EXCEPT ![tree[path]] = Resized(@, size)]
              /\ ref' = [ref EXCEPT ![tree[path]] = Resized(@, size)]
              /\ fds' = Overtake(fds, 0, tree[path])
              /\ Answer(<<"success">>)
              /\ UNCHANGED <<tree, next, net, lost, walks>>

-----------------------------------------------------------------------------
(* Task::open_fd, close_fd and renumber_fd.  A handle that is closed has   *)
(* nothing left to sync.                                                   *)
OpenFd(h) == fds' = Changed(fds, next, h) /\ next' = next + 1

fd_close(fd) ==
  /\ IF fd \in DOMAIN fds
     THEN /\ fds' = [f \in DOMAIN fds \ {fd} |-> fds[f]]
          /\ walks' = [f \in DOMAIN walks \ {fd} |-> walks[f]]
          /\ Answer(<<"success">>)
          /\ UNCHANGED <<tree, nodes, next, net, ref, lost>>
     ELSE Fails("invalid")

fd_renumber(from, to) ==
  IF {from, to} \subseteq DOMAIN fds
  THEN /\ fds' = [f \in (DOMAIN fds \ {from}) \cup {to} |-> IF f = to THEN fds[from] ELSE fds[f]]
       /\ walks' = [f \in DOMAIN walks \ {from, to} |-> walks[f]]
       /\ Answer(<<"success">>)
       /\ UNCHANGED <<tree, nodes, next, net, ref, lost>>
  ELSE Fails("invalid")

(* FileSystem::open_file, as Namespace and MemFs inherit it: a file opened *)
(* for writing is created if it is missing, made anew if it is truncated,  *)
(* and positioned at its end, once, to append.                             *)
NewNode == NodeIds[Cardinality(DOMAIN nodes) + 1]
Making(path, flags) ==
  "write" \in flags /\ IF exists(tree, path) THEN "trunc" \in flags ELSE "create" \in flags

path_open(fd, rel, flags) ==
  LET path == join_wasi_path(fd, rel)
      made == create(tree, path)
      append == {"write", "append"} \subseteq flags
  IN  /\ fd \in Fds("dir") /\ next <= MaxFd
      /\ IF Making(path, flags) /\ "directory" \notin flags
         THEN IF made.err # "none" THEN Fails("not_found")
              ELSE /\ Cardinality(DOMAIN nodes) < Len(NodeIds)
                   /\ tree' = Insert(tree, path, NewNode)
                   /\ nodes' = Changed(nodes, NewNode, <<>>)
                   /\ ref' = Changed(ref, NewNode, <<>>)
                   /\ OpenFd(FileHandle(path, NewNode, 0))
                   /\ Answer(<<"fd", next>>)
                   /\ walks' = NoWalks /\ UNCHANGED <<net, lost>>
         ELSE IF ~exists(tree, path) THEN Fails("not_found")
         ELSE IF tree[path] = Dir /\ append /\ "directory" \notin flags THEN Fails("not_supported")
         ELSE /\ nodes' = nodes
              /\ OpenFd(IF tree[path] = Dir THEN DirHandle(path)
                        ELSE FileHandle(path, tree[path],
                               IF append /\ "directory" \notin flags THEN Len(nodes[tree[path]]) ELSE 0))
              /\ Answer(<<"fd", next>>)
              /\ UNCHANGED <<tree, net, ref, lost, walks>>

-----------------------------------------------------------------------------
(* The calls that change the tree.  A listing that is being read is not    *)
(* held to one state of it.                                                *)
Become(t) ==
  IF t.err # "none" THEN Fails(t.err)
  ELSE /\ tree' = t.tree /\ walks' = NoWalks /\ Answer(<<"success">>)
       /\ UNCHANGED <<nodes, fds, next, net, ref, lost>>

path_create_directory(fd, rel) == fd \in Fds("dir") /\ Become(mkdir(tree, join_wasi_path(fd, rel)))

path_unlink_file(fd, rel) ==
  LET path == join_wasi_path(fd, rel)
  IN  /\ fd \in Fds("dir")
      /\ Become(CASE ~exists(tree, path) -> Fail("not_found", tree)
                  [] stat(tree, path) = Dir -> Fail("isdir", tree)
                  [] OTHER -> remove(tree, path))

path_remove_directory(fd, rel) ==
  LET path == join_wasi_path(fd, rel)
  IN  /\ fd \in Fds("dir")
      /\ Become(CASE ~exists(tree, path) -> Fail("not_found", tree)
                  [] stat(tree, path) # Dir -> Fail("notdir", tree)
                  [] children_for(tree, path) # {} -> Fail("not_empty", tree)
                  [] OTHER -> remove(tree, path))

path_rename(fd, old, new) ==
  fd \in Fds("dir") /\ Become(rename(tree, join_wasi_path(fd, old), join_wasi_path(fd, new)))
path_link(fd, old, new) ==
  fd \in Fds("dir") /\ Become(link(tree, join_wasi_path(fd, old), join_wasi_path(fd, new)))

-----------------------------------------------------------------------------
(* fd_readdir.  The listing is made anew at every call: ".", ".." and the  *)
(* names in order, each with the cookie of the one after it.  A buffer     *)
(* that is too small is reported full, with part of an entry at its end.   *)
Here == -2
Up == -1
wasi_readdir_entries(path) ==
  <<Here, Up>> \o SetToSortSeq(children_for(tree, path), LAMBDA a, b : a < b)

(* A bug to catch: the cookie of an entry is that of the one after next. *)
late_cookie(i) == i + 1

d_next(i) == i

(* The guest keeps the whole entries and goes on at the cookie of the last *)
(* one, until a buffer comes back that is not full.                        *)
Walk(fd) == IF fd \in DOMAIN walks /\ ~walks[fd].done THEN walks[fd] ELSE [cookie |-> 0, got |-> <<>>, done |-> FALSE]

fd_readdir(fd, size) ==
  LET path == fds[fd].path
      walk == Walk(fd)
      rest == SubSeq(wasi_readdir_entries(path), walk.cookie + 1, Len(wasi_readdir_entries(path)))
      whole == Smallest(Len(rest), size \div 2)
      bufused == IF Len(rest) > whole THEN size ELSE 2 * whole
  IN  \/ /\ fd \in Fds("dir") /\ stat(tree, path) = Dir
         /\ walks' = Changed(walks, fd,
              [cookie |-> IF whole = 0 THEN walk.cookie ELSE d_next(walk.cookie + whole),
               got |-> walk.got \o SubSeq(rest, 1, whole), done |-> bufused < size])
         /\ Answer(<<"used", bufused>>)
         /\ UNCHANGED <<tree, nodes, fds, next, net, ref, lost>>
      \/ /\ fd \in Fds("dir") \cup Fds("file") /\ stat(tree, path) # Dir
         /\ Fails(IF exists(tree, path) THEN "notdir" ELSE "not_found")

-----------------------------------------------------------------------------
(* Sockets are descriptors of #net files.  Another task dials; the handle  *)
(* of the listen file takes one connection and keeps its number.           *)
dial ==
  /\ Answer(<<"dialed">>)
  /\ net' = [net EXCEPT !.waiting = Append(@, net.dialed + 1), !.dialed = @ + 1]
  /\ UNCHANGED <<tree, nodes, fds, next, ref, lost, walks>>

open_listener ==
  /\ next <= MaxFd /\ OpenFd([kind |-> "listen", taken |-> FALSE]) /\ Answer(<<"fd", next>>)
  /\ UNCHANGED <<tree, nodes, net, ref, lost, walks>>

sock_accept(fd) ==
  \/ /\ fd \in Fds("listen") /\ ~fds[fd].taken /\ net.waiting # <<>> /\ next <= MaxFd
     /\ fds' = Changed([fds EXCEPT ![fd].taken = TRUE], next, [kind |-> "data", conn |-> Head(net.waiting)])
     /\ next' = next + 1 /\ net' = [net EXCEPT !.waiting = Tail(@)]
     /\ Answer(<<"fd", next>>)
     /\ UNCHANGED <<tree, nodes, ref, lost, walks>>
  \/ fd \in Fds("listen") /\ (fds[fd].taken \/ net.waiting = <<>>) /\ Fails("again")
  \/ fd \in Fds("file") \cup Fds("data") /\ Fails("not_supported")

sock_shutdown(fd) ==
  \/ /\ fd \in Fds("data")
     /\ net' = [net EXCEPT !.hung = @ \cup {fds[fd].conn}] /\ Answer(<<"success">>)
     /\ UNCHANGED <<tree, nodes, fds, next, ref, lost, walks>>
  \/ fd \in Fds("file") \cup Fds("listen") /\ Fails("success")

-----------------------------------------------------------------------------
Chunks == {<<b>> : b \in Bytes}
Flags == {{}, {"write"}, {"write", "create"}, {"write", "create", "trunc"}, {"write", "create", "append"}}

Seeks == {<<"set", 0>>, <<"set", 3>>, <<"cur", -1>>, <<"cur", 0>>, <<"end", 0>>}

FileCalls ==
  \E fd \in Fds("file") \cup {3} :
    \/ \E bytes \in Chunks : fd_write(fd, bytes) \/ \E at \in 0..MaxLen : fd_pwrite(fd, bytes, at)
    \/ fd_read(fd, 1) \/ \E at \in 0..MaxLen : fd_pread(fd, 1, at)
    \/ \E seek \in Seeks : fd_seek(fd, seek[1], seek[2])
    \/ \E n \in 0..MaxLen : fd_filestat_set_size(fd, n) \/ (n > 0 /\ fd_allocate(fd, n))
TableCalls ==
  \/ \E fd \in 3..MaxFd : fd_close(fd)
  \/ \E from, to \in 4..MaxFd : from # to /\ fd_renumber(from, to)
(* The names that lead from a descriptor to a path. *)
Below(fd) == {SubSeq(p, Len(fds[fd].path) + 1, Len(p)) : p \in {q \in Paths : IsStrictPrefix(fds[fd].path, q)}}
PathCalls ==
  \E fd \in Fds("dir") : \E rel \in Below(fd) :
    \/ \E flags \in Flags \cup {{"directory"}} : path_open(fd, rel, flags)
    \/ path_create_directory(fd, rel) \/ path_unlink_file(fd, rel) \/ path_remove_directory(fd, rel)
    \/ \E new \in Below(fd) : path_rename(fd, rel, new) \/ path_link(fd, rel, new)
ListingCalls == \E fd \in DOMAIN fds, size \in Buffers : fd_readdir(fd, size)
SocketCalls ==
  dial \/ open_listener \/ \E fd \in DOMAIN fds : sock_accept(fd) \/ sock_shutdown(fd)

(* The functions that add_wasi_imports gives to the guest. *)
Next == FileCalls \/ TableCalls \/ PathCalls \/ ListingCalls \/ SocketCalls

Spec == Init /\ [][Next]_vars

-----------------------------------------------------------------------------
(* A descriptor behaves as if it worked on the file itself, though it      *)
(* works on a copy: its offset is where its own calls left it (positional  *)
(* calls and fd_allocate move nothing), and as long as no other descriptor *)
(* and no truncation changed the node behind it, its copy and the node     *)
(* hold exactly what was written, wherever it was written.                 *)
DescriptorsSeeTheirFile ==
  /\ \A fd \in Fds("file") :
       /\ fds[fd].off = fds[fd].pos
       /\ ~fds[fd].stale /\ fds[fd].node \notin lost => fds[fd].data = ref[fds[fd].node]
  /\ \A n \in DOMAIN nodes : n \notin lost => nodes[n] = ref[n]

(* A listing that the guest reads in pieces, with buffers of any size, has *)
(* every name once and in order, if nothing changes the tree meanwhile.    *)
ListingsAreWhole ==
  \A fd \in DOMAIN walks :
    LET all == wasi_readdir_entries(fds[fd].path)
    IN  /\ IsPrefix(walks[fd].got, all)
        /\ walks[fd].done => walks[fd].got = all

=============================================================================
