-------------------------------- MODULE R2Fs --------------------------------
(***************************************************************************)
(* R2Fs of crates/star9-fs/src/lib.rs: a file system kept in an object     *)
(* store.  Every path is an object; the object of a directory is a listing *)
(* of its entries, changed by compare-and-swap with three attempts.        *)
(*                                                                         *)
(* Several clients work on one store.  A step is one call of the store, so *)
(* the object of a path and the listing that names it are changed apart;   *)
(* the store may fail any call, which ends the operation where it stands.  *)
(* The object store is external: a map with an atomic compare-and-swap, as *)
(* InMemoryObjectStore is one.                                             *)
(***************************************************************************)
EXTENDS FileTree

CONSTANTS
  Clients,       (* R2Fs instances on the same bucket                  *)
  InitStores,    (* the objects there may be at the start               *)
  Operations,    (* the operations clients may perform                 *)
  MaxOps,        (* bound on the number of operations                  *)
  MaxFailures    (* bound on the number of store calls that fail       *)

(* COMPARE_AND_SWAP_RETRIES *)
Retries == 3

VARIABLES
  store,      (* the objects: path to [kind, entries]                        *)
  proc,       (* per client: the operation in progress                       *)
  ops,        (* number of operations begun                                  *)
  failures,   (* number of store calls that failed                           *)
  beaten,     (* history: per client, changes by others to its directory     *)
  spoiled,    (* history: paths whose operations overlapped or broke off     *)
  unlisted    (* history: paths whose creation broke off before the listing  *)

history == <<spoiled, unlisted>>
vars == <<store, proc, ops, failures, beaten, history>>

NoEntries == [n \in {} |-> Dir]
Object(kind) == [kind |-> kind, entries |-> NoEntries]
Missing == Object(Absent)
get(p) == IF p \in DOMAIN store THEN store[p] ELSE Missing

(* pc: the next store call; path, path2, kind: arguments; object: what get returned;   *)
(* snap, todo: what list_prefix returned, and its keys still to move; seen: the       *)
(* listing read; tries: compare-and-swap attempts lost.                               *)
NoOp == [op |-> "none", pc |-> "idle", path |-> <<>>, path2 |-> <<>>, kind |-> Absent,
         object |-> Missing, snap |-> [k \in {} |-> Missing], todo |-> <<>>, seen |-> Missing, tries |-> 0]

Init ==
  /\ store \in InitStores
  /\ proc = [c \in Clients |-> NoOp]
  /\ ops = 0
  /\ failures = 0
  /\ beaten = [c \in Clients |-> 0]
  /\ spoiled = {}
  /\ unlisted = {}

-----------------------------------------------------------------------------
(* Beginning and ending an operation.                                       *)

First(op) ==
  CASE op = "create" -> "put"
    [] op \in {"mkdir", "symlink", "rename"} -> "parent"
    [] op = "remove" -> "get"

PathsOf(p) == {p.path} \cup (IF p.op = "rename" THEN {p.path2} ELSE {})
Overlap(p, q) == \E x \in PathsOf(p), y \in PathsOf(q) : paths_overlap(x, y)

(* create: the file is put, whole, when the R2WriteFile is closed.  History: what      *)
(* operations in progress overlap on is spoiled, and a rename carries it along.        *)
Begin(c, o) ==
  /\ proc[c] = NoOp /\ ops < MaxOps
  /\ LET p == [NoOp EXCEPT !.op = o.op, !.path = o.path, !.path2 = o.path2, !.kind = o.kind, !.pc = First(o.op)]
         marred == o.op = "rename" /\ (paths_overlap(o.path, o.path2)
                                       \/ \E x \in PathsOf(p), s \in spoiled \cup unlisted : paths_overlap(x, s))
         racing == {d \in Clients \ {c} : proc[d] # NoOp /\ Overlap(p, proc[d])}
     IN  /\ proc' = [proc EXCEPT ![c] = p]
         /\ spoiled' = spoiled \cup (IF marred THEN PathsOf(p) ELSE {})
                               \cup (IF racing = {} THEN {} ELSE PathsOf(p) \cup UNION {PathsOf(proc[d]) : d \in racing})
  /\ ops' = ops + 1
  /\ UNCHANGED <<store, failures, unlisted>>

(* The operation returns an error: what it did to the store remains. *)
Broken(c) ==
  /\ proc' = [proc EXCEPT ![c] = NoOp]
  /\ IF proc[c].op \in {"create", "mkdir", "symlink"}
     THEN unlisted' = unlisted \cup {proc[c].path} /\ UNCHANGED spoiled
     ELSE spoiled' = spoiled \cup PathsOf(proc[c]) /\ UNCHANGED unlisted

store_error(c) ==
  /\ proc[c] # NoOp /\ failures < MaxFailures
  /\ failures' = failures + 1
  /\ Broken(c)
  /\ UNCHANGED <<store, ops>>

(* An early return: nothing has been changed yet. *)
Return(c) == proc' = [proc EXCEPT ![c] = NoOp] /\ UNCHANGED <<store, ops, failures, history>>

At(c, pc) == proc[c].pc = pc
Goto(c, pc) == proc' = [proc EXCEPT ![c].pc = pc]

-----------------------------------------------------------------------------
(* The object of the path.                                                  *)

(* mkdir, symlink and rename look for an object of the parent, of any kind. *)
check_parent(c) ==
  /\ At(c, "parent")
  /\ LET p == proc[c]
         parent == parent_path(IF p.op = "rename" THEN p.path2 ELSE p.path)
     IN  IF get(parent) = Missing THEN Return(c)
         ELSE /\ Goto(c, IF p.op = "rename" THEN "get" ELSE "put")
              /\ UNCHANGED <<store, ops, failures, history>>

get_object(c) ==
  /\ At(c, "get")
  /\ LET object == get(proc[c].path)
         full == object.kind = Dir /\ DOMAIN object.entries # {}
     IN  IF object = Missing \/ (proc[c].op = "remove" /\ full) THEN Return(c)
         ELSE /\ proc' = [proc EXCEPT ![c].pc = IF proc[c].op = "remove" THEN "delete" ELSE "put",
                                      ![c].object = object]
              /\ UNCHANGED <<store, ops, failures, history>>

(* What the put replaces: an operation on a directory in use spoils its entries. *)
Children(p) == {q \in DOMAIN store : q # <<>> /\ parent_path(q) = p}

(* Mutant of put_object: an object that has nothing in it is only listed. *)
PutNothing(c) ==
  /\ At(c, "put")
  /\ LET p == proc[c]
         new == IF p.op = "rename" THEN p.path2 ELSE p.path
     IN  /\ store' = IF p.op = "rename" THEN Put(store, new, p.object) ELSE store
         /\ spoiled' = spoiled \cup Children(new)
         /\ Goto(c, IF p.op = "rename" THEN "delete" ELSE "list")
  /\ UNCHANGED <<ops, failures, unlisted>>

put_object(c) ==
  /\ At(c, "put")
  /\ LET p == proc[c]
         new == IF p.op = "rename" THEN p.path2 ELSE p.path
         object == IF p.op = "rename" THEN p.object ELSE Object(p.kind)
     IN  /\ store' = Put(store, new, object)
         /\ spoiled' = spoiled \cup Children(new)
         /\ Goto(c, IF p.op = "rename" THEN "delete" ELSE "list")
  /\ UNCHANGED <<ops, failures, unlisted>>

Erased(p) == [q \in DOMAIN store \ {p} |-> store[q]]

delete_object(c) ==
  /\ At(c, "delete")
  /\ store' = Erased(proc[c].path)
  /\ Goto(c, IF proc[c].op = "rename" /\ proc[c].object.kind = Dir THEN "prefix" ELSE "list")
  /\ UNCHANGED <<ops, failures, history>>

(* The keys below a directory, at any depth. *)
list_prefix(old) == {q \in DOMAIN store : IsStrictPrefix(old, q)}

move_begin(c) ==
  /\ At(c, "prefix")
  /\ LET keys == list_prefix(proc[c].path)
     IN  proc' = [proc EXCEPT ![c].pc = "move", ![c].snap = [k \in keys |-> store[k]],
                              ![c].todo = SetToSortSeq(keys, PathLess)]
  /\ UNCHANGED <<store, ops, failures, history>>

(* The object moved is the one list_prefix returned; it is put, then the old one deleted. *)
move_put(c) ==
  /\ At(c, "move") /\ proc[c].todo # <<>>
  /\ LET key == Head(proc[c].todo)
     IN  /\ store' = Put(store, Rebase(key, proc[c].path, proc[c].path2), proc[c].snap[key])
         /\ Goto(c, "moved")
  /\ UNCHANGED <<ops, failures, history>>

move_delete(c) ==
  /\ At(c, "moved")
  /\ store' = Erased(Head(proc[c].todo))
  /\ proc' = [proc EXCEPT ![c].pc = "move", ![c].todo = Tail(@)]
  /\ UNCHANGED <<ops, failures, history>>

move_end(c) ==
  /\ At(c, "move") /\ proc[c].todo = <<>>
  /\ Goto(c, "list")
  /\ UNCHANGED <<store, ops, failures, history>>

-----------------------------------------------------------------------------
(* update_parent_listing: read the parent's listing, change one entry, swap *)
(* it in if the listing is still the one read.  rename does it twice.       *)

Listing(c) == At(c, "list") \/ At(c, "list_new")
Subject(p) == IF p.pc \in {"list_new", "swap_new"} THEN p.path2 ELSE p.path
Adds(p) == p.op \in {"create", "mkdir", "symlink"} \/ p.pc \in {"list_new", "swap_new"}

(* A file in the parent's place has a body with no listing in it. *)
read_listing(c) ==
  /\ Listing(c)
  /\ LET p == proc[c]
         subject == Subject(p)
         parent == parent_path(subject)
     IN  \/ /\ subject = <<>>
            /\ proc' = [proc EXCEPT ![c] = NoOp]
            /\ UNCHANGED <<store, ops, failures, history>>
         \/ /\ subject # <<>> /\ get(parent) = Missing /\ parent # <<>>
            /\ Broken(c)
            /\ UNCHANGED <<store, ops, failures>>
         \/ /\ subject # <<>> /\ (get(parent) # Missing \/ parent = <<>>)
            /\ proc' = [proc EXCEPT ![c].pc = IF p.pc = "list" THEN "swap" ELSE "swap_new",
                                    ![c].seen = IF get(parent) = Missing THEN Object(Dir) ELSE get(parent)]
            /\ UNCHANGED <<store, ops, failures, history>>

Kind(p) == IF p.op = "rename" THEN p.object.kind ELSE p.kind
Entry(subject) == subject[Len(subject)]

Changed(p, subject) ==
  LET old == p.seen.entries
      names == IF Adds(p) THEN DOMAIN old \cup {Entry(subject)} ELSE DOMAIN old \ {Entry(subject)}
  IN  [kind |-> Dir, entries |-> [n \in names |-> IF n = Entry(subject) THEN Kind(p) ELSE old[n]]]

(* Mutant of Unmoved: the listing is replaced whatever it has become. *)
UnmovedOrNot(p, parent) == p.seen # Missing

(* The comparison of compare_and_swap; a missing object equals no listing. *)
Unmoved(p, parent) == get(parent) = p.seen

(* Mutant of Lost: a lost attempt is counted when it is made and when it is retried. *)
LostTwice(p) == [p EXCEPT !.tries = @ + 2, !.pc = IF p.pc = "swap" THEN "list" ELSE "list_new"]

Lost(p) == [p EXCEPT !.tries = @ + 1, !.pc = IF p.pc = "swap" THEN "list" ELSE "list_new"]

compare_and_swap(c) ==
  /\ At(c, "swap") \/ At(c, "swap_new")
  /\ LET p == proc[c]
         subject == Subject(p)
         parent == parent_path(subject)
         last == p.op # "rename" \/ p.pc = "swap_new"
     IN  \/ /\ Unmoved(p, parent)
            /\ store' = Put(store, parent, Changed(p, subject))
            /\ proc' = [proc EXCEPT ![c] = IF last THEN NoOp ELSE [p EXCEPT !.pc = "list_new", !.tries = 0]]
            /\ spoiled' = IF p.seen.kind = Dir THEN spoiled ELSE spoiled \cup {parent}
            /\ UNCHANGED <<ops, failures, unlisted>>
         \/ /\ ~Unmoved(p, parent) /\ p.tries + 1 < Retries
            /\ proc' = [proc EXCEPT ![c] = Lost(p)]
            /\ UNCHANGED <<store, ops, failures, history>>
         \/ /\ ~Unmoved(p, parent) /\ p.tries + 1 >= Retries
            /\ Broken(c)
            /\ UNCHANGED <<store, ops, failures>>

ClientStep(c) ==
  \/ check_parent(c) \/ get_object(c) \/ put_object(c) \/ delete_object(c)
  \/ move_begin(c) \/ move_put(c) \/ move_delete(c) \/ move_end(c)
  \/ read_listing(c) \/ compare_and_swap(c)

(* History: the object of a directory whose listing client d has to change has changed. *)
CountBeaten(c) ==
  beaten' = [d \in Clients |->
    IF proc'[d] = NoOp THEN 0
    ELSE IF d # c /\ \E p \in PathsOf(proc[d]) \ {<<>>} : get(parent_path(p))' # get(parent_path(p))
         THEN beaten[d] + 1 ELSE beaten[d]]

Finished == ops = MaxOps /\ \A c \in Clients : proc[c] = NoOp

Next ==
  \/ \E c \in Clients :
       /\ (\E o \in Operations : Begin(c, o)) \/ ClientStep(c) \/ store_error(c)
       /\ CountBeaten(c)
  \/ Finished /\ UNCHANGED vars

Spec == Init /\ [][Next]_vars

-----------------------------------------------------------------------------

IsObject(o) ==
  /\ o.kind \in Data \cup {Dir}
  /\ \A n \in DOMAIN o.entries : o.kind = Dir /\ o.entries[n] \in Data \cup {Dir}

TypeOK ==
  /\ DOMAIN store \subseteq Paths \cup {<<>>}
  /\ \A p \in DOMAIN store : IsObject(store[p])
  /\ \A c \in Clients : proc[c].tries \in 0..Retries - 1 /\ proc[c].path \in Paths \cup {<<>>}
  /\ ops \in 0..MaxOps /\ failures \in 0..MaxFailures
  /\ spoiled \subseteq Paths \cup {<<>>} /\ unlisted \subseteq Paths \cup {<<>>}

Spoiled(p) == \E s \in spoiled : path_contains(s, p)
Listed(p) ==
  LET dir == get(parent_path(p))
  IN  dir.kind = Dir /\ Entry(p) \in DOMAIN dir.entries

(* Operations of several clients on different paths, in the same directory or not, lose *)
(* no update of a listing: when none is in progress, every object is listed in its      *)
(* directory with its kind, and every entry has its object.  Excepted are paths whose   *)
(* operations overlapped, broke off, or replaced a directory in use.  At every moment,  *)
(* and when a creation breaks off at any call, an entry of a listing has its object:    *)
(* objects are put before they are listed.  Only a remove or rename of the path, or of  *)
(* a directory above it, is seen half done.                                             *)
ListingsAreExact ==
  /\ (\A c \in Clients : proc[c] = NoOp) =>
       \A p \in Paths : Spoiled(p) \/ (\E u \in unlisted : path_contains(u, p)) \/
         /\ Listed(p) <=> p \in DOMAIN store
         /\ p \in DOMAIN store => get(parent_path(p)).entries[Entry(p)] = store[p].kind
  /\ \A p \in Paths : Listed(p) /\ ~Spoiled(p) =>
       \/ p \in DOMAIN store
       \/ \E c \in Clients :
            proc[c].op \in {"remove", "rename"} /\ \E q \in PathsOf(proc[c]) : path_contains(q, p)

(* compare-and-swap conflicts are contention: an attempt is lost only to another        *)
(* client's change of that directory since the operation began, so an operation is      *)
(* given up for a conflict only after others have made three.  (With the root object    *)
(* removed every attempt fails: the code expects an object that is not there.)          *)
ConflictsAreContention ==
  \A c \in Clients : proc[c].tries <= beaten[c] \/ get(<<>>) = Missing

=============================================================================
