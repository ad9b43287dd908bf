----------------------------- MODULE Namespace ------------------------------
(***************************************************************************)
(* star9_vfs::Namespace (crates/star9-vfs/src/lib.rs): an ordered list of  *)
(* bind targets for every destination path, laid over in-memory file       *)
(* systems.  A target is a path of a file system with the node bind() saw  *)
(* there.  A lookup goes through the layers of the name itself and then    *)
(* through those of every prefix, longest first except that the root, the  *)
(* string ".", comes before a prefix of one character; a change is routed  *)
(* the same way but falls through on other errors.  The code keeps no link *)
(* between the two, so that what a change touches is what a lookup shows   *)
(* is a property of the routing.  A call is one step.                      *)
(***************************************************************************)
EXTENDS MemFs, FiniteSets

CONSTANTS
  Stores,      (* the file systems (FsRef)                         *)
  InitTree,    (* their contents at the start                      *)
  Names,       (* the paths callers use                            *)
  Sources,     (* the paths of a file system that get bound        *)
  Points,      (* the paths they are bound to                      *)
  Hidden,      (* the names that begin with "#"                    *)
  Short,       (* the names of one character                       *)
  Data,        (* the contents of files                            *)
  MaxTargets,  (* bound: how many targets are bound at a time      *)
  MaxCalls     (* bound: how many calls change something           *)

ASSUME TreesAreWhole == \A s \in Stores : NoOrphans(InitTree[s])

VARIABLES
  tree,      (* the nodes of every file system                          *)
  bindings,  (* the targets at every destination, <<>> where none        *)
  last,      (* the latest change that succeeded, and where it was made *)
  calls      (* how many calls changed something                        *)

vars == <<tree, bindings, last, calls>>

Nowhere == [op |-> "none"]
Did(op, name, to, s, path) == [op |-> op, name |-> name, to |-> to, fs |-> s, path |-> path]
Target(s, path) == [fs |-> s, path |-> path, meta |-> stat(tree[s], path)]

Init == tree = InitTree /\ bindings = [d \in Points |-> <<>>] /\ last = Nowhere /\ calls = 0

Counted ==
  /\ calls' = IF tree' = tree /\ bindings' = bindings THEN calls ELSE calls + 1
  /\ calls' <= MaxCalls

-----------------------------------------------------------------------------
(* Where a name is looked for: the targets of its longest bound prefix first. *)
Targets(d) == IF d \in Points THEN bindings[d] ELSE <<>>
Rest(d, name) == SubSeq(name, Len(d) + 1, Len(name))

(* Outside the binding the relative path is ".". *)
target_path(d, path, name) == IF IsPrefix(d, name) THEN path \o Rest(d, name) ELSE path

(* sort_by_key of the lengths of the strings, stable over a BTreeMap that  *)
(* has "." before a letter.                                                *)
PrefixesOf(name) ==
  LET root_ties == name # <<>> /\ Head(name) \in Short
      Depth(n) == IF root_ties /\ n >= Len(name) THEN n - Len(name) ELSE Len(name) + 1 - n
  IN  [n \in 1..Len(name) + 1 |-> SubSeq(name, 1, Depth(n))]
Place(d, target, name) ==
  [fs |-> target.fs, path |-> target_path(d, target.path, name), of |-> target.path,
   meta |-> IF d = name THEN target.meta ELSE Absent]
Layer(d, name) == [n \in DOMAIN Targets(d) |-> Place(d, Targets(d)[n], name)]
matching_targets(name) == FlattenSeq([n \in DOMAIN PrefixesOf(name) |-> Layer(PrefixesOf(name)[n], name)])
direct_targets(name) == Layer(name, name)

(* The order of open and stat: the name's own targets, then the others that match. *)
Layers(name) ==
  LET others == SelectSeq(PrefixesOf(name), LAMBDA d : d # name)
  IN  direct_targets(name) \o FlattenSeq([n \in DOMAIN others |-> Layer(others[n], name)])

NodeAt(place) == stat(tree[place.fs], place.path)
Least(S) == CHOOSE n \in S : \A m \in S : n <= m
Visible(name) == LET places == Layers(name) IN {n \in DOMAIN places : NodeAt(places[n]) # Absent}
Shown(name) == Layers(name)[Least(Visible(name))]

(* A bug to catch: only the bindings right below it. *)
SynthesizeChildren(name) ==
  {Last(d) : d \in {p \in Points : bindings[p] # <<>> /\ IsStrictPrefix(name, p) /\ Len(p) = Len(name) + 1}}

(* The names a listing gains from the bindings below it. *)
synthesize_entries(name) ==
  {d[Len(name) + 1] : d \in {p \in Points : bindings[p] # <<>> /\ IsStrictPrefix(name, p)}}

ns_stat(name) ==
  IF name = <<>> THEN Dir
  ELSE IF Visible(name) # {} THEN NodeAt(Shown(name))
  ELSE IF synthesize_entries(name) # {} THEN Dir ELSE Absent

(* open(): directories are gathered layer by layer until a layer holds a   *)
(* file, or held one when it was bound; a bound directory that is gone     *)
(* fails the call.                                                         *)
Kind(place) == IF NodeAt(place) = Absent THEN place.meta ELSE NodeAt(place)
ListsAt(place) == NodeAt(place) = Dir \/ children_for(tree[place.fs], place.path) # {}
IsListing(name) ==
  /\ \A place \in Range(Layers(name)) : Kind(place) \in {Dir, Absent} /\ (Kind(place) = Dir => ListsAt(place))
  /\ \/ name = <<>> \/ synthesize_entries(name) # {}
     \/ \E place \in Range(Layers(name)) : Kind(place) = Dir
Listing(name) ==
  (synthesize_entries(name) \cup
     UNION {children_for(tree[place.fs], place.path) :
              place \in {q \in Range(Layers(name)) : Kind(q) = Dir}}) \ Hidden

-----------------------------------------------------------------------------
(* The table of bindings.  The operations of the FileSystem trait carry ns_, those of MemFs do not. *)
Bound == Cardinality({dn \in Points \X (1..MaxTargets) : dn[2] \in DOMAIN bindings[dn[1]]})

bind(s, path, d, mode) ==
  /\ exists(tree[s], path)
  /\ Bound < MaxTargets
  /\ bindings' = [bindings EXCEPT ![d] = CASE mode = "after"   -> <<Target(s, path)>> \o @
                                           [] mode = "before"  -> Append(@, Target(s, path))
                                           [] mode = "replace" -> <<Target(s, path)>>]
  /\ last' = Nowhere
  /\ UNCHANGED tree
  /\ Counted

Retain(d, kept) ==
  /\ bindings' = [bindings EXCEPT ![d] = SelectSeq(@, LAMBDA t : t \in kept)]
  /\ last' = Nowhere
  /\ UNCHANGED tree
  /\ Counted

unbind(s, path, d) == Retain(d, {t \in Range(bindings[d]) : ~(t.fs = s /\ t.path = path)})
unbind_path(d) == bindings[d] # <<>> /\ Retain(d, {})
unbind_source_path(path, d) ==
  LET kept == {t \in Range(bindings[d]) : t.path # path}
  IN  kept # Range(bindings[d]) /\ Retain(d, kept)

unbind_all ==
  /\ bindings' = [d \in Points |-> IF d # <<>> /\ Head(d) \in Hidden THEN bindings[d] ELSE <<>>]
  /\ last' = Nowhere
  /\ UNCHANGED tree
  /\ Counted

-----------------------------------------------------------------------------
(* Changes. *)

(* route_write tries the places of a name in turn.  The layers bound at    *)
(* the name itself stop it at every error but "not supported", which no    *)
(* in-memory file system reports; the others pass on what they do not find. *)
PassedOn == {"not_found", "not_supported", "not_dir"}

(* A bug to catch: the layers bound first, the last ones to be looked at, are tried first. *)
TriedBackwards(name) == Reverse(matching_targets(name))

Tried(name) == IF direct_targets(name) # <<>> THEN <<direct_targets(name)[1]>> ELSE matching_targets(name)

(* What the change came to at every place is given as a sequence. *)
route_write(op, name, to, results) ==
  LET taken == {n \in DOMAIN results : results[n].err \notin PassedOn}
      n     == Least(taken)
      place == Tried(name)[n]
  IN  IF taken = {} \/ results[n].err # "none"
      THEN UNCHANGED vars
      ELSE /\ tree' = [tree EXCEPT ![place.fs] = results[n].tree]
           /\ last' = Did(op, name, to, place.fs, place.path)
           /\ UNCHANGED bindings
           /\ Counted

(* create and mkdir first ask the layer for the parent. *)
IfParent(place, change) ==
  IF exists(tree[place.fs], parent_path(place.path)) THEN change ELSE Fail("not_found", tree[place.fs])

Creation(place) == IfParent(place, create(tree[place.fs], place.path))
Mkdir(place) == IfParent(place, mkdir(tree[place.fs], place.path))
ns_create(name) == route_write("create", name, name, [n \in DOMAIN Tried(name) |-> Creation(Tried(name)[n])])
ns_mkdir(name) == route_write("mkdir", name, name, [n \in DOMAIN Tried(name) |-> Mkdir(Tried(name)[n])])

Removal(place) == remove(tree[place.fs], place.path)
ns_remove(name) == route_write("remove", name, name, [n \in DOMAIN Tried(name) |-> Removal(Tried(name)[n])])

(* The new path is taken relative to the first binding of the old name     *)
(* that holds the file system, from the target in hand.                    *)
Holding(name, s) == {n \in DOMAIN PrefixesOf(name) : \E m \in DOMAIN Targets(PrefixesOf(name)[n]) :
                                                     Targets(PrefixesOf(name)[n])[m].fs = s}

(* A bug to catch: relative to the root of the file system. *)
NewPathOfRoot(place, old, new) == target_path(PrefixesOf(old)[Least(Holding(old, place.fs))], <<>>, new)

NewPath(place, old, new) == target_path(PrefixesOf(old)[Least(Holding(old, place.fs))], place.of, new)
Renaming(place, old, new) == rename(tree[place.fs], place.path, NewPath(place, old, new))
ns_rename(old, new) ==
  route_write("rename", old, new, [n \in DOMAIN Tried(old) |-> Renaming(Tried(old)[n], old, new)])

(* link() pairs every place of the new name with those of the old one in   *)
(* the same file system.                                                   *)
ns_link(old, new) ==
  LET olds == matching_targets(old)
      news == matching_targets(new)
      Call(m, n) == link(tree[news[m].fs], olds[n].path, news[m].path)
      Takes(m, n) == olds[n].fs = news[m].fs /\ Call(m, n).err \notin PassedOn
      taken == {m \in DOMAIN news : \E n \in DOMAIN olds : Takes(m, n)}
      to    == Least(taken)
      from  == Least({n \in DOMAIN olds : Takes(to, n)})
  IN  IF taken = {} \/ Call(to, from).err # "none"
      THEN UNCHANGED vars
      ELSE /\ tree' = [tree EXCEPT ![news[to].fs] = Call(to, from).tree]
           /\ last' = Did("link", old, new, news[to].fs, news[to].path)
           /\ UNCHANGED bindings
           /\ Counted

BindStep == \E s \in Stores, path \in Sources, d \in Points, mode \in {"after", "before", "replace"} :
              bind(s, path, d, mode)
UnbindStep ==
  \/ \E s \in Stores, path \in Sources, d \in Points : unbind(s, path, d)
  \/ \E d \in Points : unbind_path(d)
  \/ \E path \in Sources, d \in Points : unbind_source_path(path, d)
  \/ unbind_all
ChangeStep ==
  \/ \E name \in Names : ns_create(name) \/ ns_mkdir(name) \/ ns_remove(name)
  \/ \E old, new \in Names : ns_rename(old, new) \/ ns_link(old, new)

Next == calls < MaxCalls /\ (BindStep \/ UnbindStep \/ ChangeStep)
Spec == Init /\ [][Next]_vars

-----------------------------------------------------------------------------
(* The nodes, the bindings (each to a path that was there when it was      *)
(* bound) and the bounds are what the code can hold.                       *)
TypeOK ==
  /\ \A s \in Stores : \A p \in DOMAIN tree[s] : tree[s][p] \in Data \cup {Dir, Empty}
  /\ \A d \in Points : \A n \in DOMAIN bindings[d] :
       /\ bindings[d][n].fs \in Stores /\ bindings[d][n].path \in Sources
       /\ bindings[d][n].meta \in Data \cup {Dir, Empty}
  /\ Bound <= MaxTargets

(* Nothing bound is damaged: MemFs left no node without its parent (see    *)
(* the module MemFs) and no binding has lost its source.                   *)
Whole ==
  /\ \A s \in Stores : NoOrphans(tree[s])
  /\ \A d \in Points : \A n \in DOMAIN bindings[d] : exists(tree[bindings[d][n].fs], bindings[d][n].path)

(* The listing open() gives of a directory and the answers of stat() for   *)
(* the names in it agree, whatever is bound over, inside or below the      *)
(* directory: a listed name is found and a name that is found is listed    *)
(* unless it is hidden.  The two walk the bindings separately (open and    *)
(* synthesize_entries against stat).                                       *)
ListingsMatchStat ==
  Whole => \A name \in {m \in (Names \cup Points) \ {<<>>} : IsListing(parent_path(m))} :
             (Last(name) \in Listing(parent_path(name))) <=> (ns_stat(name) # Absent /\ Last(name) \notin Hidden)

ShownIs(name, change) == Visible(name) # {} /\ Shown(name).fs = change.fs /\ Shown(name).path = change.path

(* One point serves both names, with layers of different file systems, of  *)
(* which one has the old name and none the new one, and neither name is    *)
(* the point or below the other.                                           *)
Serving(name) == {d \in Points : IsPrefix(d, name) /\ bindings[d] # <<>>}
Plain(old, new) ==
  /\ Serving(old) = Serving(new) /\ Cardinality(Serving(old)) = 1
  /\ \A d \in Serving(old) : \A m, n \in DOMAIN bindings[d] : m # n => bindings[d][m].fs # bindings[d][n].fs
  /\ old \notin Points /\ new \notin Points
  /\ Cardinality(Visible(old)) = 1 /\ Visible(new) = {} /\ ~IsPrefix(old, new)

(* A change that reports success is made where a lookup of the name looks  *)
(* first: a file that was created is the one shown afterwards, whatever    *)
(* the other layers hold, and the file removed is the one shown before.    *)
(* Reads skip the layers that miss a name, route_write those that refuse.  *)
(* Inside one mount, and where no layer shadows another, a rename or link  *)
(* that reports success gives the new name the file the old one showed,    *)
(* and a rename takes the old name away: the new path is computed from a   *)
(* binding found anew and a target found by the routing.                   *)
ChangesAreMadeInView ==
  [][/\ \A name \in Names :
          /\ last'.op \in {"create", "mkdir"} /\ last'.name = name /\ Whole => ShownIs(name, last)'
          /\ last'.op = "remove" /\ last'.name = name /\ Whole =>
               Visible(name) # {} /\ Shown(name).fs = last'.fs /\ Shown(name).path = last'.path
     /\ \A old, new \in Names :
          last'.op \in {"rename", "link"} /\ last'.name = old /\ last'.to = new /\ Whole /\ Plain(old, new) =>
            /\ Visible(new)' # {}
            /\ NodeAt(Shown(new))' = NodeAt(Shown(old))
            /\ last'.op = "rename" => Visible(old)' = {}]_vars

=============================================================================
