---------------------------- MODULE MCNinePAsync ----------------------------
(* A session that has attached fid 0, opened the file 1 as fid 1, and        *)
(* written the ends of a four-byte attribute of it through fid 2: two bytes  *)
(* are missing, and the next one touches what is there.                      *)
EXTENDS NinePAsync, TLC

MCPaths == {<<1>>, <<2>>}
MCTree == <<1>> :> Unset
HalfWritten == write_at(write_at(NewXattrWrite(4), 0, 1, "x"), 3, 1, "x")
MCFids == 0 :> unopened(<<>>) @@ 1 :> [path |-> <<1>>, handle |-> File(FALSE)]
          @@ 2 :> [path |-> <<1>>, handle |-> HalfWritten]
MCRequests ==
  {[type |-> "read", fid |-> 1],
   [type |-> "remove", fid |-> 1],
   [type |-> "write", fid |-> 2, offset |-> 1, n |-> 1, byte |-> "x"],
   [type |-> "clunk", fid |-> 2]}

(* The loop of record_write over its sorted list, one existing range at a time. *)
Scanned(acc, r) ==
  IF r[2] < acc.start THEN [acc EXCEPT !.merged = Append(@, r)]
  ELSE IF acc.end < r[1]
  THEN [acc EXCEPT !.merged = Append(IF acc.inserted THEN @ ELSE Append(@, <<acc.start, acc.end>>), r),
                   !.inserted = TRUE]
  ELSE [acc EXCEPT !.start = Lowest({@, r[1]}), !.end = Highest({@, r[2]})]
Scan(list, start, end) ==
  LET acc == FoldLeft(Scanned, [start |-> start, end |-> end, merged |-> <<>>, inserted |-> FALSE], list)
  IN  IF acc.inserted THEN acc.merged ELSE Append(acc.merged, <<acc.start, acc.end>>)

(* It keeps the list sorted, and its ranges are the runs of bytes written. *)
ScanBound == 6
Runs(B) == {r \in (0..ScanBound) \X (0..ScanBound) :
              r[1] < r[2] /\ r[1]..r[2] - 1 \subseteq B /\ r[2] \notin B /\ r[1] \notin {b + 1 : b \in B}}
Sorted(R) == SetToSortSeq(R, LAMBDA r, s : r[1] < s[1])
ASSUME LoopMerges ==
  \A B \in SUBSET (0..ScanBound - 1), s, e \in 0..ScanBound :
    s < e => Scan(Sorted(Runs(B)), s, e) = Sorted(Runs(B \cup (s..e - 1)))
=============================================================================
