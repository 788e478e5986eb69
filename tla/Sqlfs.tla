------------------------------- MODULE Sqlfs -------------------------------
(***************************************************************************)
(* libsqlfs, the file system inside an SQLCipher database that holds the   *)
(* media of conversations (src/Submodules/libsqlfs/sqlfs.c, called from    *)
(* IOCipher.m).  Two tables: meta_data with one row per path, value_data   *)
(* with one row per block of a file.  Every call is one transaction, so it *)
(* is one action here; SqlfsTransactions is about when that is true.  The  *)
(* user is always root in a build without FUSE, so an access check tells   *)
(* only whether the path exists.                                           *)
(***************************************************************************)
EXTENDS Integers, Sequences

CONSTANTS
  Name,       \* what a path component may be
  MaxDepth,   \* bound on the length of paths
  BlockSize,  \* 8192 in the code
  Lengths,    \* lengths a file is truncated to
  Writes,     \* pairs of an offset and a number of bytes
  LinkTarget, \* contents of a symbolic link
  MaxCalls    \* bound on the number of calls

ASSUME BlockSizeType == BlockSize \in Nat \ {0}
ASSUME DepthType == MaxDepth \in Nat
ASSUME CallsType == MaxCalls \in Nat
ASSUME LengthsType == Lengths \subseteq Nat
ASSUME WritesType == Writes \subseteq Nat \X (Nat \ {0})
ASSUME LinkType == LinkTarget \in Seq(Nat) /\ LinkTarget # <<>>

VARIABLES
  meta,  \* table meta_data: type and size of each path
  rows,  \* table value_data: the blocks of each path
  calls, \* calls made, for the bound
  astray \* history: a refused rename removed a directory that was not empty,
         \* or a call went below a regular file

vars == <<meta, rows, calls, astray>>

Path == UNION {[1..n -> Name] : n \in 0..MaxDepth}
Root == <<>>
Above(p) == {SubSeq(p, 1, n) : n \in 0..(Len(p) - 1)}
Below(p) == {q \in Path : p \in Above(q)}
Child(p) == {q \in Below(p) : Len(q) = Len(p) + 1}

Entry(type, size) == [type |-> type, size |-> size]
NoEntry == Entry("none", 0)
NoBlocks == <<>>

Junk == -1  \* a byte that was never written: what the buffer happened to hold
Zeros(n) == [i \in 1..n |-> 0]
Buffer(n) == [i \in 1..n |-> i]  \* the bytes a caller hands over

Larger(a, b) == IF a > b THEN a ELSE b
Smaller(a, b) == IF a < b THEN a ELSE b

-----------------------------------------------------------------------------
(* Blocks of one file: a function from block numbers to bytes.             *)

\* get_value_block: a block without a row reads as nothing.
Block(f, b) == IF b \in DOMAIN f THEN f[b] ELSE <<>>

\* Fault: the position in the data starts anew with each block.
OverlayAnew(old, b, begin, data) ==
  LET start == b * BlockSize
      end == begin + Len(data)
      length == Larger(Smaller(end, start + BlockSize) - start, Len(old))
  IN [i \in 1..length |->
        IF begin < start + i /\ start + i <= end THEN data[Smaller(i, Len(data))]
        ELSE IF i <= Len(old) THEN old[i] ELSE Junk]

\* What set_value stores as block b when data goes to the position begin:
\* the new bytes over the old ones, up to the farther of their ends.
Overlay(old, b, begin, data) ==
  LET start == b * BlockSize
      end == begin + Len(data)
      length == Larger(Smaller(end, start + BlockSize) - start, Len(old))
  IN [i \in 1..length |->
        IF begin < start + i /\ start + i <= end THEN data[start + i - begin]
        ELSE IF i <= Len(old) THEN old[i] ELSE Junk]

SetValue(f, begin, data) ==
  LET touched == (begin \div BlockSize)..((begin + Len(data) - 1) \div BlockSize)
  IN [b \in DOMAIN f \cup touched |->
        IF b \in touched THEN Overlay(Block(f, b), b, begin, data) ELSE f[b]]

\* Fault: the block behind the new end is kept when the end is a block's end.
ShortenKeeping(f, n) ==
  [b \in {b \in DOMAIN f : b <= n \div BlockSize} |->
     IF b = n \div BlockSize THEN SubSeq(f[b], 1, n % BlockSize) ELSE f[b]]

\* key_shorten_value: the block with the new end is cut or deleted, those
\* behind it are deleted.
Shorten(f, n) ==
  LET last == n \div BlockSize
      rest == n % BlockSize
      kept == {b \in DOMAIN f : b < last} \cup (IF rest = 0 THEN {} ELSE {last})
  IN [b \in kept |-> IF b = last
                     THEN [i \in 1..rest |-> IF i <= Len(Block(f, b)) THEN f[b][i] ELSE 0]
                     ELSE f[b]]

\* get_value: bytes from begin up to end.  Its buffer for partial blocks is
\* cleared once, before the first.
GetValue(f, begin, end) ==
  [x \in 1..(end - begin) |->
     LET b == (begin + x - 1) \div BlockSize
         i == ((begin + x - 1) % BlockSize) + 1
     IN IF i <= Len(Block(f, b)) THEN f[b][i]
        ELSE IF b = begin \div BlockSize THEN 0 ELSE Junk]

Contents(p) == GetValue(rows[p], 0, meta[p].size)

-----------------------------------------------------------------------------
(* Helpers of the calls.                                                   *)

Exists(m, p) == m[p] # NoEntry
IsDir(m, p) == m[p].type = "dir"

\* CHECK_PARENT_PATH: every directory above the path is there.
Reachable(m, p) == \A q \in Above(p) : Exists(m, q)

\* CHECK_PARENT_WRITE: makes the missing directories, from the path upwards
\* to the first one that exists.
Missing(m, p) ==
  {q \in Above(p) : \A r \in Above(p) : Len(q) <= Len(r) => ~Exists(m, r)}
WithParents(m, p) ==
  LET missing == Missing(m, p)
  IN IF missing = {} THEN m
     ELSE [q \in Path |-> IF q \in missing THEN Entry("dir", 0) ELSE m[q]]

\* The transaction of a call ends with these tables.
Commit(m, r) ==
  /\ calls < MaxCalls
  /\ calls' = calls + 1
  /\ meta' = m
  /\ rows' = r

\* Fault: the blocks stay.
RemoveEntries(m, S) == Commit([q \in Path |-> IF q \in S THEN NoEntry ELSE m[q]], rows)

\* remove_key for the paths in S.
RemoveKeys(m, S) == Commit([q \in Path |-> IF q \in S THEN NoEntry ELSE m[q]],
                           [q \in Path |-> IF q \in S THEN NoBlocks ELSE rows[q]])

\* set_value for path p, whose size was read in the same transaction.
Put(m, p, begin, data) ==
  Commit([m EXCEPT ![p].size = Larger(begin + Len(data), @)],
         [rows EXCEPT ![p] = SetValue(@, begin, data)])

-----------------------------------------------------------------------------
(* The calls.                                                              *)

Init ==
  /\ meta = [p \in Path |-> IF p = Root THEN Entry("dir", 0) ELSE NoEntry]
  /\ rows = [p \in Path |-> NoBlocks]
  /\ calls = 0
  /\ astray = FALSE

\* A path that exists is left as it is, with an error or, by create, without.
\* The directories above the path are made first, by mkdir too, where
\* tests/common.c:114-117 expects it not to.
MakeNode(p, type) ==
  LET m == WithParents(meta, p)
  IN Commit(IF Exists(m, p) THEN m ELSE [m EXCEPT ![p] = Entry(type, 0)], rows)

Mkdir(p) == MakeNode(p, "dir")
Mknod(p) == MakeNode(p, "blob")
Create(p) == MakeNode(p, "blob")

Symlink(p) ==
  LET m == WithParents(meta, p)
  IN IF Exists(m, p) THEN Commit(m, rows)
     ELSE Put([m EXCEPT ![p] = Entry("link", 0)], p, 0, LinkTarget)

TruncateIn(m, p, n) ==
  LET size == m[p].size
  IN IF ~Reachable(m, p) \/ ~Exists(m, p) \/ size = n THEN Commit(m, rows)
     ELSE IF size > n THEN Commit([m EXCEPT ![p].size = n], [rows EXCEPT ![p] = Shorten(@, n)])
     ELSE Put(m, p, size, Zeros(n - size))

Truncate(p, n) == TruncateIn(meta, p, n)

\* A file opened for writing with O_TRUNC loses its contents, whatever the
\* other tests say; only O_CREAT makes directories and the file.
Open(p, creat, trunc) ==
  LET m == IF creat THEN WithParents(meta, p) ELSE meta
  IN IF Exists(m, p) /\ trunc THEN TruncateIn(m, p, 0)
     ELSE IF ~Exists(m, p) /\ creat THEN Commit([m EXCEPT ![p] = Entry("blob", 0)], rows)
     ELSE Commit(m, rows)

\* Fault: the gap is not filled.
WriteWithGap(p, off, n, append) ==
  LET new == ~Exists(meta, p)
      m == IF new THEN [WithParents(meta, p) EXCEPT ![p] = Entry("blob", 0)] ELSE meta
  IN IF IsDir(meta, p) \/ (~new /\ ~Reachable(meta, p)) THEN Commit(meta, rows)
     ELSE Put(m, p, IF append THEN m[p].size ELSE off, Buffer(n))

\* A write behind the end fills the gap with zeros.  IOCipher.m passes flags
\* it does not initialise, so that any write may append.
Write(p, off, n, append) ==
  LET new == ~Exists(meta, p)
      m == IF new THEN [WithParents(meta, p) EXCEPT ![p] = Entry("blob", 0)] ELSE meta
      size == m[p].size
  IN IF IsDir(meta, p) \/ (~new /\ ~Reachable(meta, p)) THEN Commit(meta, rows)
     ELSE IF append THEN Put(m, p, size, Buffer(n))
     ELSE IF off > size THEN Put(m, p, size, Zeros(off - size) \o Buffer(n))
     ELSE Put(m, p, off, Buffer(n))

Unlink(p) ==
  LET m == WithParents(meta, p)
  IN RemoveKeys(m, IF IsDir(m, p) THEN {} ELSE {p})

\* Fault: the directory need not be empty.
RmdirFull(p) == RemoveKeys(WithParents(meta, p), {p})

Rmdir(p) ==
  LET m == WithParents(meta, p)
      full == IsDir(m, p) /\ \E q \in Child(p) : Exists(m, q)
  IN RemoveKeys(m, IF full THEN {} ELSE {p})

DelTree(p) ==
  LET m == WithParents(meta, p)
  IN RemoveKeys(m, IF Exists(m, p) THEN {p} \cup Below(p) ELSE {})

\* rename_key for from and, if it is a directory, rename_dir_children: each
\* path in moved gets its image, replacing what is there.
Image(q, from, to) == to \o SubSeq(q, Len(from) + 1, Len(q))

Relocate(m, moved, from, to) ==
  LET images == {Image(q, from, to) : q \in moved}
      Source(q) == from \o SubSeq(q, Len(to) + 1, Len(q))
  IN /\ images \subseteq Path
     /\ Commit([q \in Path |-> IF q \in images THEN m[Source(q)]
                               ELSE IF q \in moved THEN NoEntry ELSE m[q]],
               [q \in Path |-> IF q \in images THEN rows[Source(q)]
                               ELSE IF q \in moved THEN NoBlocks ELSE rows[q]])

\* The first conflict test is for a file onto a directory, the second for a
\* directory onto anything, an empty directory included.
Conflict(m, from, to) == Exists(m, to) /\ (IsDir(m, to) \/ IsDir(m, from))

Moved(m, from) ==
  {from} \cup (IF IsDir(m, from) THEN {q \in Below(from) : Exists(m, q)} ELSE {})

\* A target that exists is removed whether the call is refused or not.
RefuseRename(from, to) ==
  LET m == WithParents(WithParents(meta, from), to)
  IN /\ Exists(m, from)
     /\ Conflict(m, from, to) \/ from = to
     /\ RemoveKeys(m, {to})

RenameNothing(from, to) ==
  LET m == WithParents(WithParents(meta, from), to)
  IN /\ ~Exists(m, from) \/ (IsDir(m, from) /\ ~Conflict(m, from, to) /\ ~Reachable(m, from))
     /\ Commit(m, rows)

Rename(from, to) ==
  LET m == WithParents(WithParents(meta, from), to)
  IN /\ Exists(m, from)
     /\ ~Conflict(m, from, to)
     /\ IsDir(m, from) => Reachable(m, from)
     /\ from # to
     /\ Relocate(m, Moved(m, from), from, to)

\* check_parent_write and set_attr do not look at the types above the path.
UnderFile(p) == \E q \in Above(p) : Exists(meta, q) /\ ~IsDir(meta, q)

Call(p) ==
  /\ \/ Mkdir(p) \/ Mknod(p) \/ Create(p) \/ Symlink(p)
     \/ Unlink(p) \/ Rmdir(p) \/ DelTree(p)
     \/ \E n \in Lengths : Truncate(p, n)
     \/ \E creat, trunc \in BOOLEAN : Open(p, creat, trunc)
     \/ \E w \in Writes, append \in BOOLEAN : Write(p, w[1], w[2], append)
  /\ astray' = (astray \/ UnderFile(p))

\* What remove_key does not ask of a target.
Full(p) == \E q \in Child(p) : Exists(meta, q)

RenameCall(p, q) ==
  \/ /\ Rename(p, q) \/ RenameNothing(p, q)
     /\ astray' = (astray \/ UnderFile(p) \/ UnderFile(q))
  \/ /\ RefuseRename(p, q)
     /\ astray' = (astray \/ UnderFile(p) \/ UnderFile(q) \/ Full(q))

Next ==
  \E p \in Path \ {Root} :
    \/ Call(p)
    \/ \E q \in Path \ ({Root} \cup Below(p)) : RenameCall(p, q)

Spec == Init /\ [][Next]_vars

-----------------------------------------------------------------------------
(* Properties.                                                             *)

\* Both tables hold what their columns allow, and a byte that was never
\* written is not among what is stored.
TypeOK ==
  /\ meta \in [Path -> [type : {"none", "dir", "blob", "link"}, size : Nat]]
  /\ \A p \in Path : \A b \in DOMAIN rows[p] : b \in Nat /\ rows[p][b] \in Seq(Nat)
  /\ calls \in 0..MaxCalls

\* A path that has no row in meta_data has none in value_data: remove_key,
\* rename_key and their callers change the tables together.  A block left
\* behind would become the contents of the next file of that name, and make
\* the next rename to it fail (unique(key, block_no)).
NoOrphanBlocks == \A p \in Path : ~Exists(meta, p) => rows[p] = NoBlocks

\* The size in meta_data, which set_value and key_shorten_value compute apart
\* from the blocks, is the length of the blocks: no hole, no block too many,
\* each full but the last.
BlocksMatchSize ==
  \A p \in Path :
    LET size == meta[p].size
        last == (size - 1) \div BlockSize
    IN /\ DOMAIN rows[p] = IF size = 0 THEN {} ELSE 0..last
       /\ \A b \in DOMAIN rows[p] :
            Len(rows[p][b]) = IF b = last THEN size - b * BlockSize ELSE BlockSize

\* No sequence of calls detaches a file from the tree, except through a refused
\* rename whose target is a directory that is not empty (sqlfs.c:2384), or a
\* call that goes below a regular file: above every path are directories.  A
\* refused rename that removes a file or an empty directory detaches nothing.
KeepsTheTree ==
  astray \/ \A p \in Path : Exists(meta, p) => \A q \in Above(p) : IsDir(meta, q)

\* libsqlfs implements the file store: contents change only by calls on their
\* file and as these say, whatever blocks they fall into, and names change
\* only by the calls that are for it.  Not claimed is what the tests and the
\* comments say of mkdir and rename: missing directories are made, and a refused
\* rename removes its target (WithDirs and DropTarget of FileStore).
FS == INSTANCE FileStore WITH
        files <- [p \in Path |-> [type |-> meta[p].type, data |-> Contents(p)]]
ImplementsFileStore == FS!Spec
=============================================================================
