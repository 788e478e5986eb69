----------------------------- MODULE FileStore -----------------------------
(***************************************************************************)
(* What libsqlfs promises the application: a tree of named nodes, each     *)
(* with contents that only a call on that node changes.  Nothing is said   *)
(* of tables, blocks or transactions.  It is what the code promises and    *)
(* not what is written about it, in two places: calls create the missing   *)
(* directories above their paths, even those that fail and even mkdir      *)
(* (WithDirs), against a test; and a refused rename removes its target     *)
(* (DropTarget), against a comment.  Refining it says nothing of these.    *)
(***************************************************************************)
EXTENDS Integers, Sequences

CONSTANTS Path, Above(_), Image(_, _, _), Lengths, Writes, Buffer(_), LinkTarget

VARIABLE files  \* a node for each path, or Absent

Absent == [type |-> "none", data |-> <<>>]
Directory == [type |-> "dir", data |-> <<>>]
Zeros(n) == [i \in 1..n |-> 0]

Missing(p) == {q \in Above(p) : files[q] = Absent}

\* The store with the directories in D.  Mkdir makes those above its path too,
\* which tests/common.c:114-117 ("mkdir does not make nested dirs") denies.
WithDirs(D) == [q \in Path |-> IF q \in D THEN Directory ELSE files[q]]
Below(p) == {q \in Path : p \in Above(q)}

\* The contents when data is written at an offset; a gap reads as zeros.
Splice(old, off, data) ==
  LET end == off + Len(data)
  IN [i \in 1..(IF end > Len(old) THEN end ELSE Len(old)) |->
        IF off < i /\ i <= end THEN data[i - off]
        ELSE IF i <= Len(old) THEN old[i] ELSE 0]

Resize(old, n) == SubSeq(old \o Zeros(n), 1, n)

Init == files = [p \in Path |-> IF Above(p) = {} THEN Directory ELSE Absent]

Create(p, type, data) ==
  /\ files[p] = Absent
  /\ \E D \in SUBSET Missing(p) :
       files' = [WithDirs(D) EXCEPT ![p] = [type |-> type, data |-> data]]

Write(p, off, data) ==
  /\ files[p] # Absent
  /\ files[p].type # "dir"
  /\ files' = [files EXCEPT ![p].data = Splice(@, off, data)]

Truncate(p, n) ==
  /\ files[p] # Absent
  /\ \E D \in SUBSET Missing(p) :
       files' = [WithDirs(D) EXCEPT ![p].data = Resize(@, n)]

Remove(p) ==
  /\ files[p].type = "dir" =>
       \A q \in Below(p) : Above(q) \ Above(p) = {p} => files[q] = Absent
  /\ \E D \in SUBSET Missing(p) : files' = [WithDirs(D) EXCEPT ![p] = Absent]

RemoveTree(p) ==
  /\ files[p] # Absent
  /\ \E D \in SUBSET Missing(p) :
       files' = [q \in Path |-> IF q = p \/ q \in Below(p) THEN Absent ELSE WithDirs(D)[q]]

\* A node, if it is a directory with all that is below it, gets a new name;
\* a file may take the place of another.
Rename(p, new) ==
  LET isDir == files[p].type = "dir"
      moved == {p} \cup (IF isDir THEN {q \in Below(p) : files[q] # Absent} ELSE {})
      images == {Image(q, p, new) : q \in moved}
  IN /\ files[p] # Absent
     /\ files[new] = Absent \/ ~(isDir \/ files[new].type = "dir")
     /\ p # new
     /\ \E D \in SUBSET (Missing(p) \cup Missing(new)) :
          files' = [q \in Path |->
                      IF q \in images THEN files[CHOOSE r \in moved : Image(r, p, new) = q]
                      ELSE IF q \in moved THEN Absent ELSE WithDirs(D)[q]]

\* Where libsqlfs departs from rename(2) and from its own comment
\* (sqlfs.c:2367): a call that is refused because of a directory, or that names
\* one path twice, removes the target.  So a directory cannot be renamed to an
\* empty directory, which the comment allows: the target is lost instead.
DropTarget(p, new) ==
  /\ files[p] # Absent
  /\ files[new] # Absent
  /\ p = new \/ "dir" \in {files[p].type, files[new].type}
  /\ \E D \in SUBSET (Missing(p) \cup Missing(new)) :
       files' = [WithDirs(D) EXCEPT ![new] = Absent]

\* A call that is refused may have made the directories above its paths.
Refused(p, q) == \E D \in SUBSET (Missing(p) \cup Missing(q)) : files' = WithDirs(D)

Next ==
  \/ UNCHANGED files
  \/ \E p \in {q \in Path : Above(q) # {}} :
       \/ \E type \in {"dir", "blob"} : Create(p, type, <<>>)
       \/ Create(p, "link", LinkTarget)
       \/ \E w \in Writes : \/ Create(p, "blob", Splice(<<>>, w[1], Buffer(w[2])))
                            \/ Create(p, "blob", Buffer(w[2]))
                            \/ Write(p, w[1], Buffer(w[2]))
                            \/ Write(p, Len(files[p].data), Buffer(w[2]))
       \/ \E n \in Lengths \cup {0} : Truncate(p, n)
       \/ Remove(p) \/ RemoveTree(p)
       \/ \E new \in {q \in Path \ Below(p) : Above(q) # {}} :
            Rename(p, new) \/ DropTarget(p, new)
  \/ \E p, q \in Path : Refused(p, q)

Spec == Init /\ [][Next]_files
=============================================================================
