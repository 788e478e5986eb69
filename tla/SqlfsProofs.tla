---------------------------- MODULE SqlfsProofs ----------------------------
(***************************************************************************)
(* Proofs about Sqlfs for any names, depths, block sizes and calls: no     *)
(* call leaves blocks of a path that is gone; none detaches a file from    *)
(* the tree, but a refused rename or a call below a file; the blocks of a  *)
(* file always fit its size; and what the calls do to tables and blocks is *)
(* what FileStore says they do to a tree of files.                         *)
(***************************************************************************)
EXTENDS Sqlfs, SequenceTheorems, TLAPS

-----------------------------------------------------------------------------
(* Paths.                                                                  *)

\* A path is a sequence of names of bounded length.
LEMMA PathIsSeq ==
  ASSUME NEW p
  PROVE  p \in Path <=> p \in Seq(Name) /\ Len(p) <= MaxDepth
<1>1. ASSUME p \in Path PROVE p \in Seq(Name) /\ Len(p) <= MaxDepth
  <2>1. PICK n \in 0..MaxDepth : p \in [1..n -> Name]
    BY <1>1 DEF Path
  <2>2. n \in Nat
    BY DepthType
  <2>3. p \in Seq(Name)
    BY <2>1, <2>2, SeqDef
  <2>4. Len(p) = n
    BY <2>1, <2>2, <2>3, LenProperties
  <2>5. QED
    BY <2>1, <2>3, <2>4, DepthType
<1>2. ASSUME p \in Seq(Name), Len(p) <= MaxDepth PROVE p \in Path
  <2>1. Len(p) \in 0..MaxDepth /\ p \in [1..Len(p) -> Name]
    BY <1>2, LenProperties, DepthType
  <2>2. QED
    BY <2>1 DEF Path
<1>3. QED
  BY <1>1, <1>2

\* The directories above a path are its proper prefixes.
LEMMA AboveIsPrefix ==
  ASSUME NEW p \in Path
  PROVE  /\ Above(p) \subseteq Path
         /\ \A q \in Path : q \in Above(p) <=>
              Len(q) < Len(p) /\ \A i \in 1..Len(q) : q[i] = p[i]
<1>1. p \in Seq(Name) /\ Len(p) <= MaxDepth /\ Len(p) \in Nat
  BY PathIsSeq, LenProperties
<1>2. ASSUME NEW n \in 0..(Len(p) - 1)
      PROVE  /\ SubSeq(p, 1, n) \in Seq(Name)
             /\ Len(SubSeq(p, 1, n)) = n
             /\ \A i \in 1..n : SubSeq(p, 1, n)[i] = p[i]
  BY <1>1, SubSeqProperties
<1>3. Above(p) \subseteq Path
  <2>1. ASSUME NEW n \in 0..(Len(p) - 1) PROVE SubSeq(p, 1, n) \in Path
    <3>1. SubSeq(p, 1, n) \in Seq(Name) /\ Len(SubSeq(p, 1, n)) <= MaxDepth
      BY <1>1, <1>2, DepthType
    <3>2. QED
      BY <3>1, PathIsSeq
  <2>2. QED
    BY <2>1 DEF Above
<1>4. ASSUME NEW q \in Path, q \in Above(p)
      PROVE  Len(q) < Len(p) /\ \A i \in 1..Len(q) : q[i] = p[i]
  <2>1. PICK n \in 0..(Len(p) - 1) : q = SubSeq(p, 1, n)
    BY <1>4 DEF Above
  <2>2. QED
    BY <2>1, <1>1, <1>2
<1>5. ASSUME NEW q \in Path, Len(q) < Len(p), \A i \in 1..Len(q) : q[i] = p[i]
      PROVE  q \in Above(p)
  <2>1. q \in Seq(Name) /\ Len(q) \in Nat
    BY PathIsSeq, LenProperties
  <2>2. Len(q) \in 0..(Len(p) - 1)
    BY <1>1, <1>5, <2>1
  <2>3. q = SubSeq(p, 1, Len(q))
    BY <1>2, <1>5, <2>1, <2>2, SeqEqual
  <2>4. QED
    BY <2>2, <2>3 DEF Above
<1>6. QED
  BY <1>3, <1>4, <1>5

\* What is above a directory above a path is above the path; of two
\* directories above a path, one is above the other.
LEMMA AboveIsChain ==
  ASSUME NEW p \in Path
  PROVE  /\ \A q \in Above(p) : \A r \in Above(q) : r \in Above(p)
         /\ \A q, r \in Above(p) : Len(q) < Len(r) => q \in Above(r)
         /\ \A q, r \in Above(p) : Len(q) = Len(r) => q = r
         /\ p \notin Above(p)
<1>0. \A q \in Path : Len(q) \in Nat /\ q \in Seq(Name)
  BY PathIsSeq, LenProperties
<1>1. \A q \in Above(p) : q \in Path /\ Len(q) < Len(p) /\ \A i \in 1..Len(q) : q[i] = p[i]
  BY AboveIsPrefix
<1>2. ASSUME NEW q \in Above(p), NEW r \in Above(q) PROVE r \in Above(p)
  <2>1. q \in Path
    BY <1>1
  <2>2. r \in Path /\ Len(r) < Len(q) /\ \A i \in 1..Len(r) : r[i] = q[i]
    BY <2>1, AboveIsPrefix
  <2>3. Len(r) < Len(p) /\ \A i \in 1..Len(r) : r[i] = p[i]
    BY <1>0, <1>1, <2>1, <2>2
  <2>4. QED
    BY <2>2, <2>3, AboveIsPrefix
<1>3. ASSUME NEW q \in Above(p), NEW r \in Above(p), Len(q) < Len(r) PROVE q \in Above(r)
  <2>1. \A i \in 1..Len(q) : q[i] = r[i]
    BY <1>0, <1>1, <1>3
  <2>2. QED
    BY <1>1, <1>3, <2>1, AboveIsPrefix
<1>4. ASSUME NEW q \in Above(p), NEW r \in Above(p), Len(q) = Len(r) PROVE q = r
  <2>1. \A i \in 1..Len(q) : q[i] = r[i]
    BY <1>0, <1>1, <1>4
  <2>2. q \in Seq(Name) /\ r \in Seq(Name)
    BY <1>0, <1>1
  <2>3. QED
    BY <1>4, <2>1, <2>2, SeqEqual
<1>5. p \notin Above(p)
  BY <1>0, <1>1
<1>6. QED
  BY <1>2, <1>3, <1>4, <1>5

\* A directory with something below it has a child that is that or above it.
LEMMA ChildOnTheWay ==
  ASSUME NEW p \in Path, NEW x \in Path, p \in Above(x)
  PROVE  \E c \in Child(p) : c = x \/ c \in Above(x)
<1>1. Len(p) \in Nat /\ Len(x) \in Nat /\ Len(x) <= MaxDepth /\ x \in Seq(Name)
  BY PathIsSeq, LenProperties
<1>2. Len(p) < Len(x) /\ \A i \in 1..Len(p) : p[i] = x[i]
  BY AboveIsPrefix
<1>3. CASE Len(x) = Len(p) + 1
  BY <1>3 DEF Child, Below
<1>4. CASE Len(x) # Len(p) + 1
  <2>1. Len(p) + 1 \in 0..(Len(x) - 1)
    BY <1>1, <1>2, <1>4
  <2>2. DEFINE c == SubSeq(x, 1, Len(p) + 1)
  <2>3. c \in Above(x)
    BY <2>1 DEF Above
  <2>4. Len(c) = Len(p) + 1
    BY <1>1, <2>1, SubSeqProperties
  <2>5. c \in Path
    BY <2>3, AboveIsPrefix
  <2>6. p \in Above(c)
    <3>1. Len(p) < Len(c)
      BY <2>4, <1>1
    <3>2. \A q, r \in Above(x) : Len(q) < Len(r) => q \in Above(r)
      BY AboveIsChain
    <3>3. QED
      BY <2>3, <3>1, <3>2
  <2>7. QED
    BY <2>3, <2>4, <2>5, <2>6 DEF Child, Below
<1>5. QED
  BY <1>3, <1>4

\* y is q with from at its beginning replaced by to.
IsImage(y, q, from, to) ==
  /\ y \in Seq(Name) /\ Len(y) = Len(to) + Len(q) - Len(from)
  /\ \A i \in 1..Len(y) : y[i] = IF i <= Len(to) THEN to[i] ELSE q[i - Len(to) + Len(from)]

\* The image of a path under a rename, and that the rename back undoes it.
LEMMA ImageOfPath ==
  ASSUME NEW q \in Path, NEW from \in Path, NEW to \in Path, q = from \/ from \in Above(q)
  PROVE  /\ IsImage(Image(q, from, to), q, from, to)
         /\ Image(Image(q, from, to), to, from) = q
<1> DEFINE y == Image(q, from, to)
           s == SubSeq(q, Len(from) + 1, Len(q))
<1>1. /\ q \in Seq(Name) /\ from \in Seq(Name) /\ to \in Seq(Name)
      /\ Len(q) \in Nat /\ Len(from) \in Nat /\ Len(to) \in Nat
      /\ Len(from) <= Len(q) /\ \A i \in 1..Len(from) : from[i] = q[i]
  BY PathIsSeq, LenProperties, AboveIsPrefix
<1>2. /\ s \in Seq(Name) /\ Len(s) = Len(q) - Len(from)
      /\ \A i \in 1..(Len(q) - Len(from)) : s[i] = q[Len(from) + i]
  BY <1>1
<1>3. y = to \o s
  BY DEF Image
<1>4. /\ y \in Seq(Name)
      /\ Len(y) = Len(to) + Len(q) - Len(from)
      /\ \A i \in 1..Len(y) : y[i] = IF i <= Len(to) THEN to[i] ELSE s[i - Len(to)]
  <2> HIDE DEF s, y
  <2>1. to \o s \in Seq(Name) /\ Len(to \o s) = Len(to) + Len(s)
    BY <1>1, <1>2, ConcatProperties
  <2>2. \A i \in 1..(Len(to) + Len(s)) :
          (to \o s)[i] = IF i <= Len(to) THEN to[i] ELSE s[i - Len(to)]
    BY <1>1, <1>2, ConcatProperties
  <2>3. Len(y) = Len(to) + Len(q) - Len(from)
    BY <1>1, <1>2, <1>3, <2>1
  <2>4. QED
    BY <1>3, <2>1, <2>2, <2>3
<1>5. \A i \in 1..Len(y) : y[i] = IF i <= Len(to) THEN to[i]
                                  ELSE q[i - Len(to) + Len(from)]
  <2> HIDE DEF s, y
  <2> SUFFICES ASSUME NEW i \in 1..Len(y), ~(i <= Len(to))
               PROVE  s[i - Len(to)] = q[i - Len(to) + Len(from)]
    BY <1>4
  <2>1. i - Len(to) \in 1..(Len(q) - Len(from))
    BY <1>1, <1>4
  <2>2. s[i - Len(to)] = q[Len(from) + (i - Len(to))]
    BY <2>1, <1>2
  <2>3. Len(from) + (i - Len(to)) = i - Len(to) + Len(from)
    BY <1>1
  <2>4. QED
    BY <2>2, <2>3
<1>6. Image(y, to, from) = q
  <2> DEFINE t == SubSeq(y, Len(to) + 1, Len(y))
  <2> HIDE DEF y, s
  <2>1. /\ t \in Seq(Name) /\ Len(t) = Len(q) - Len(from)
        /\ \A i \in 1..(Len(q) - Len(from)) : t[i] = y[Len(to) + i]
    <3>1. y \in Seq(Name) /\ Len(y) \in Nat /\ Len(y) = Len(to) + Len(q) - Len(from)
      BY <1>1, <1>4, LenProperties
    <3>2. Len(to) + 1 \in 1..(Len(y) + 1)
      BY <1>1, <3>1
    <3>3. QED
      BY <1>1, <3>1, <3>2, SubSeqProperties
  <2>2. \A i \in 1..(Len(q) - Len(from)) : t[i] = q[Len(from) + i]
    <3> SUFFICES ASSUME NEW i \in 1..(Len(q) - Len(from)) PROVE t[i] = q[Len(from) + i]
      OBVIOUS
    <3>1. Len(to) + i \in 1..Len(y) /\ ~(Len(to) + i <= Len(to))
      BY <1>1, <1>4
    <3>2. y[Len(to) + i] = q[Len(to) + i - Len(to) + Len(from)]
      BY <3>1, <1>5
    <3>3. Len(to) + i - Len(to) + Len(from) = Len(from) + i
      BY <1>1
    <3>4. QED
      BY <2>1, <3>2, <3>3
  <2>3. Image(y, to, from) = from \o t
    BY DEF Image
  <2> HIDE DEF t
  <2>4. /\ from \o t \in Seq(Name) /\ Len(from \o t) = Len(q)
        /\ \A i \in 1..Len(q) : (from \o t)[i] = IF i <= Len(from) THEN from[i]
                                                 ELSE t[i - Len(from)]
    BY <1>1, <2>1, ConcatProperties
  <2>5. \A i \in 1..Len(q) : (from \o t)[i] = q[i]
    BY <1>1, <2>1, <2>2, <2>4
  <2>6. QED
    BY <1>1, <2>3, <2>4, <2>5, SeqEqual
<1>7. IsImage(y, q, from, to)
  <2> HIDE DEF y
  <2>1. QED
    BY ONLY <1>4, <1>5 DEF IsImage
<1>8. QED
  BY ONLY <1>6, <1>7

-----------------------------------------------------------------------------
(* The tables.                                                             *)

Kind == {"none", "dir", "blob", "link"}

\* The tables together: only a path with a row in meta_data has a type, a size
\* or blocks.
Sound(m, r) ==
  /\ m \in [Path -> [type : Kind, size : Nat]]
  /\ \A q \in Path : m[q].type = "none" => m[q].size = 0
  /\ r = [q \in Path |-> r[q]]
  /\ \A q \in Path : m[q].type = "none" => r[q] = NoBlocks

\* The tree: above every path are directories.
Tree(m) == \A q \in Path : m[q].type # "none" => \A r \in Above(q) : m[r].type = "dir"

\* No regular file is above p.
Clear(m, p) == \A q \in Above(p) : m[q].type \in {"none", "dir"}

SameTypes(m, n) == \A q \in Path : n[q].type = m[q].type

\* A row exists exactly when its type is not "none".
LEMMA ExistsIsType ==
  ASSUME NEW m, NEW r, Sound(m, r), NEW q \in Path
  PROVE  Exists(m, q) <=> m[q].type # "none"
<1>1. m[q] \in [type : Kind, size : Nat]
  BY DEF Sound
<1>2. m[q] = [type |-> m[q].type, size |-> m[q].size]
  BY <1>1
<1>3. QED
  BY <1>2 DEF Sound, Exists, NoEntry, Entry

\* A path is clear of files above it unless the history records a call below
\* one.
LEMMA ClearIsNotUnderFile ==
  ASSUME Sound(meta, rows), NEW p \in Path, ~UnderFile(p)
  PROVE  Clear(meta, p)
<1>1. \A q \in Above(p) : q \in Path
  BY AboveIsPrefix
<1>2. QED
  BY <1>1, ExistsIsType DEF UnderFile, Clear, IsDir

\* Whether the tables are a tree depends on the types alone.
LEMMA SameTypesSameTree ==
  ASSUME NEW m, NEW n, Tree(m), SameTypes(m, n)
  PROVE  Tree(n)
<1>1. \A q \in Path : \A r \in Above(q) : r \in Path
  BY AboveIsPrefix
<1>2. QED
  BY <1>1 DEF Tree, SameTypes

\* check_parent_write only adds directories.
LEMMA ParentsAdded ==
  ASSUME NEW m, NEW r, Sound(m, r), NEW p \in Path
  PROVE  /\ Sound(WithParents(m, p), r)
         /\ \A q \in Path : m[q].type # "none" => WithParents(m, p)[q] = m[q]
         /\ \A q \in Path : m[q].type = "none" =>
              WithParents(m, p)[q].type = IF q \in Missing(m, p) THEN "dir" ELSE "none"
         /\ \A q \in Missing(m, p) : q \in Above(p) /\ m[q].type = "none"
<1> DEFINE w == WithParents(m, p)
<1>1. \A q \in Missing(m, p) : q \in Path /\ q \in Above(p) /\ m[q].type = "none"
  <2> SUFFICES ASSUME NEW q \in Missing(m, p)
               PROVE  q \in Path /\ q \in Above(p) /\ m[q].type = "none"
    OBVIOUS
  <2>1. q \in Above(p) /\ q \in Path
    BY AboveIsPrefix DEF Missing
  <2>2. Len(q) <= Len(q)
    BY <2>1, PathIsSeq, LenProperties
  <2>3. ~Exists(m, q)
    BY <2>1, <2>2 DEF Missing
  <2>4. QED
    BY <2>1, <2>3, ExistsIsType
<1>2. CASE Missing(m, p) = {}
  BY <1>1, <1>2 DEF WithParents
<1>3. CASE Missing(m, p) # {}
  <2>1. w = [q \in Path |-> IF q \in Missing(m, p) THEN Entry("dir", 0) ELSE m[q]]
    BY <1>3 DEF WithParents
  <2>2. Entry("dir", 0) \in [type : Kind, size : Nat]
    BY DEF Entry, Kind
  <2>3. m \in [Path -> [type : Kind, size : Nat]]
    BY DEF Sound
  <2>4. w \in [Path -> [type : Kind, size : Nat]]
    BY <2>1, <2>2, <2>3
  <2>5. \A q \in Path : m[q].type # "none" => w[q] = m[q]
    BY <1>1, <2>1
  <2>6. \A q \in Path : m[q].type = "none" =>
          w[q].type = IF q \in Missing(m, p) THEN "dir" ELSE "none"
    BY <2>1 DEF Entry
  <2>7. \A q \in Path : w[q].type = "none" => w[q] = m[q]
    BY <2>1 DEF Entry
  <2>8. Sound(w, r)
    BY <2>4, <2>7 DEF Sound
  <2>9. QED
    BY <1>1, <2>5, <2>6, <2>8
<1>4. QED
  BY <1>2, <1>3

\* Without a file in the way, all that is above the path is then a directory.
LEMMA ParentsKeepTree ==
  ASSUME NEW m, NEW r, Sound(m, r), Tree(m), NEW p \in Path, Clear(m, p)
  PROVE  /\ Tree(WithParents(m, p))
         /\ \A q \in Above(p) : WithParents(m, p)[q].type = "dir"
         /\ \A q \in Path : Clear(m, q) => Clear(WithParents(m, p), q)
<1> DEFINE w == WithParents(m, p)
<1>1. \A q \in Path : Above(q) \subseteq Path
  BY AboveIsPrefix
<1>2. ASSUME NEW q \in Above(p) PROVE w[q].type = "dir"
  <2>1. q \in Path
    BY <1>1
  <2>2. CASE q \in Missing(m, p)
    BY <2>1, <2>2, ParentsAdded
  <2>3. CASE q \notin Missing(m, p)
    <3>1. PICK x \in Above(p) : Len(q) <= Len(x) /\ Exists(m, x)
      BY <2>3 DEF Missing
    <3>2. x \in Path /\ m[x].type = "dir"
      BY <1>1, <3>1, ExistsIsType DEF Clear
    <3>3. q = x \/ q \in Above(x)
      <4>1. Len(q) < Len(x) \/ Len(q) = Len(x)
        BY <2>1, <3>1, <3>2, PathIsSeq, LenProperties
      <4>2. QED
        BY <3>1, <4>1, AboveIsChain
    <3>4. m[q].type = "dir"
      BY <3>2, <3>3 DEF Tree
    <3>5. QED
      BY <2>1, <3>4, ParentsAdded
  <2>4. QED
    BY <2>2, <2>3
<1>3. Tree(w)
  <2> SUFFICES ASSUME NEW q \in Path, w[q].type # "none", NEW x \in Above(q)
               PROVE  w[x].type = "dir"
    BY DEF Tree
  <2>1. CASE m[q].type = "none"
    <3>1. q \in Above(p)
      BY <2>1, ParentsAdded
    <3>2. x \in Above(p)
      BY <3>1, AboveIsChain
    <3>3. QED
      BY <3>2, <1>2
  <2>2. CASE m[q].type # "none"
    <3>1. m[x].type = "dir" /\ x \in Path
      BY <1>1, <2>2 DEF Tree
    <3>2. QED
      BY <3>1, ParentsAdded
  <2>3. QED
    BY <2>1, <2>2
<1>4. ASSUME NEW q \in Path, Clear(m, q) PROVE Clear(w, q)
  <2> SUFFICES ASSUME NEW x \in Above(q) PROVE w[x].type \in {"none", "dir"}
    BY DEF Clear
  <2>1. x \in Path /\ m[x].type \in {"none", "dir"}
    BY <1>1, <1>4 DEF Clear
  <2>2. QED
    BY <2>1, ParentsAdded
<1>5. QED
  BY <1>2, <1>3, <1>4

\* A change of the size and the blocks of a path that exists.
LEMMA ResizeKeeps ==
  ASSUME NEW m, Sound(m, rows), NEW p \in Path, m[p].type # "none", NEW n \in Nat, NEW f,
         meta' = [m EXCEPT ![p].size = n], rows' = [rows EXCEPT ![p] = f]
  PROVE  Sound(meta', rows') /\ SameTypes(m, meta')
<1>1. m \in [Path -> [type : Kind, size : Nat]] /\ rows = [q \in Path |-> rows[q]]
  BY DEF Sound
<1>2. meta' \in [Path -> [type : Kind, size : Nat]]
  BY <1>1
<1>3. SameTypes(m, meta')
  BY <1>1 DEF SameTypes
<1>4. \A q \in Path : q # p => meta'[q] = m[q] /\ rows'[q] = rows[q]
  BY <1>1
<1>5. rows' = [q \in Path |-> rows'[q]]
  BY <1>1
<1>6. meta'[p].type # "none"
  BY <1>3 DEF SameTypes
<1>7. ASSUME NEW q \in Path, meta'[q].type = "none"
      PROVE  meta'[q].size = 0 /\ rows'[q] = NoBlocks
  <2>1. meta'[q] = m[q] /\ rows'[q] = rows[q]
    BY <1>4, <1>6, <1>7
  <2>2. QED
    BY <1>7, <2>1 DEF Sound
<1>8. QED
  BY <1>2, <1>3, <1>5, <1>7 DEF Sound

\* set_value on a path that exists keeps the tables sound and the types.
LEMMA PutKeeps ==
  ASSUME NEW m, Sound(m, rows), NEW p \in Path, m[p].type # "none",
         NEW begin \in Nat, NEW data, Len(data) \in Nat, Put(m, p, begin, data)
  PROVE  Sound(meta', rows') /\ SameTypes(m, meta')
<1>1. meta' = [m EXCEPT ![p].size = Larger(begin + Len(data), m[p].size)]
  BY DEF Put, Commit, Sound
<1>2. rows' = [rows EXCEPT ![p] = SetValue(rows[p], begin, data)]
  BY DEF Put, Commit, Sound
<1>3. m[p].size \in Nat
  BY DEF Sound
<1>4. Larger(begin + Len(data), m[p].size) \in Nat
  BY <1>3 DEF Larger
<1>5. QED
  BY <1>1, <1>2, <1>4, ResizeKeeps

\* remove_key takes a path out of both tables.
LEMMA RemovalKeeps ==
  ASSUME NEW m, Sound(m, rows), NEW D, RemoveKeys(m, D)
  PROVE  /\ Sound(meta', rows')
         /\ \A q \in Path : meta'[q].type = IF q \in D THEN "none" ELSE m[q].type
<1>1. meta' = [q \in Path |-> IF q \in D THEN NoEntry ELSE m[q]]
  BY DEF RemoveKeys, Commit
<1>2. rows' = [q \in Path |-> IF q \in D THEN NoBlocks ELSE rows[q]]
  BY DEF RemoveKeys, Commit
<1>3. NoEntry \in [type : Kind, size : Nat] /\ NoEntry.type = "none" /\ NoEntry.size = 0
  BY DEF NoEntry, Entry, Kind
<1>4. meta' \in [Path -> [type : Kind, size : Nat]]
  BY <1>1, <1>3 DEF Sound
<1>5. \A q \in Path : meta'[q].type = IF q \in D THEN "none" ELSE m[q].type
  BY <1>1, <1>3
<1>6. \A q \in Path : meta'[q].type = "none" => meta'[q].size = 0 /\ rows'[q] = NoBlocks
  BY <1>1, <1>2, <1>3 DEF Sound
<1>7. rows' = [q \in Path |-> rows'[q]]
  BY <1>2
<1>8. QED
  BY <1>4, <1>5, <1>6, <1>7 DEF Sound

\* The paths a rename moves, in terms of the types.
LEMMA MovedPaths ==
  ASSUME NEW m, NEW r, Sound(m, r), NEW from \in Path
  PROVE  Moved(m, from) = {from} \cup
           (IF m[from].type = "dir" THEN {q \in Below(from) : m[q].type # "none"} ELSE {})
<1>1. Below(from) \subseteq Path
  BY DEF Below
<1>2. \A q \in Below(from) : Exists(m, q) <=> m[q].type # "none"
  BY <1>1, ExistsIsType
<1>3. QED
  BY <1>2 DEF Moved, IsDir

\* What Relocate makes of a path: its source's entry and blocks, or nothing, or
\* what it was.
LEMMA Relocated ==
  ASSUME NEW m, Sound(m, rows), NEW from \in Path, NEW to \in Path,
         Relocate(m, Moved(m, from), from, to)
  PROVE  LET moved == Moved(m, from)
             images == {Image(q, from, to) : q \in moved}
         IN /\ moved \subseteq Path /\ images \subseteq Path
            /\ \A q \in moved : /\ q = from \/ from \in Above(q)
                                /\ meta'[Image(q, from, to)] = m[q]
                                /\ rows'[Image(q, from, to)] = rows[q]
            /\ \A q \in Path \ images :
                 /\ meta'[q] = IF q \in moved THEN NoEntry ELSE m[q]
                 /\ rows'[q] = IF q \in moved THEN NoBlocks ELSE rows[q]
            /\ meta' = [q \in Path |-> meta'[q]] /\ rows' = [q \in Path |-> rows'[q]]
<1> DEFINE moved == Moved(m, from)
           images == {Image(q, from, to) : q \in moved}
           Source(q) == from \o SubSeq(q, Len(to) + 1, Len(q))
<1>1. moved \subseteq Path /\ \A q \in moved : q = from \/ from \in Above(q)
  BY MovedPaths DEF Below
<1>2. images \subseteq Path
  BY DEF Relocate
<1>3. meta' = [q \in Path |-> IF q \in images THEN m[Source(q)]
                              ELSE IF q \in moved THEN NoEntry ELSE m[q]]
  BY DEF Relocate, Commit
<1>4. rows' = [q \in Path |-> IF q \in images THEN rows[Source(q)]
                              ELSE IF q \in moved THEN NoBlocks ELSE rows[q]]
  BY DEF Relocate, Commit
<1>5. \A q \in moved : Source(Image(q, from, to)) = q
  <2> SUFFICES ASSUME NEW q \in moved PROVE Source(Image(q, from, to)) = q
    OBVIOUS
  <2>1. Image(Image(q, from, to), to, from) = q
    BY <1>1, ImageOfPath
  <2>2. QED
    BY <2>1 DEF Image
<1> HIDE DEF Source, moved
<1>6. ASSUME NEW q \in moved
      PROVE  meta'[Image(q, from, to)] = m[q] /\ rows'[Image(q, from, to)] = rows[q]
  <2>1. Image(q, from, to) \in images
    OBVIOUS
  <2>2. Image(q, from, to) \in Path
    BY <1>2, <2>1
  <2> HIDE DEF images
  <2>3. QED
    BY <1>3, <1>4, <1>5, <2>1, <2>2
<1> HIDE DEF images
<1>7. \A q \in Path \ images : /\ meta'[q] = IF q \in moved THEN NoEntry ELSE m[q]
                               /\ rows'[q] = IF q \in moved THEN NoBlocks ELSE rows[q]
  BY <1>3, <1>4
<1>8. meta' = [q \in Path |-> meta'[q]] /\ rows' = [q \in Path |-> rows'[q]]
  BY <1>3, <1>4
<1>9. QED
  BY <1>1, <1>2, <1>6, <1>7, <1>8 DEF images, moved

\* Entries and blocks move together.
LEMMA RelocationIsSound ==
  ASSUME NEW m, Sound(m, rows), NEW from \in Path, NEW to \in Path,
         Relocate(m, Moved(m, from), from, to)
  PROVE  Sound(meta', rows')
<1> DEFINE moved == Moved(m, from)
           images == {Image(q, from, to) : q \in moved}
<1>1. ASSUME NEW q \in Path
      PROVE  /\ meta'[q] \in [type : Kind, size : Nat]
             /\ meta'[q].type = "none" => meta'[q].size = 0 /\ rows'[q] = NoBlocks
  <2>1. CASE q \in images
    <3>1. PICK x \in moved : q = Image(x, from, to)
      BY <2>1
    <3>2. x \in Path /\ meta'[q] = m[x] /\ rows'[q] = rows[x]
      BY <3>1, Relocated
    <3>3. QED
      BY <3>2 DEF Sound
  <2>2. CASE q \notin images
    <3>1. /\ meta'[q] = IF q \in moved THEN NoEntry ELSE m[q]
          /\ rows'[q] = IF q \in moved THEN NoBlocks ELSE rows[q]
      BY <2>2, Relocated
    <3>2. NoEntry \in [type : Kind, size : Nat] /\ NoEntry.size = 0
      BY DEF NoEntry, Entry, Kind
    <3>3. QED
      BY <3>1, <3>2 DEF Sound
  <2>3. QED
    BY <2>1, <2>2
<1>2. meta' = [q \in Path |-> meta'[q]] /\ rows' = [q \in Path |-> rows'[q]]
  BY Relocated
<1>3. meta' \in [Path -> [type : Kind, size : Nat]]
  BY <1>1, <1>2
<1>4. QED
  BY <1>1, <1>2, <1>3 DEF Sound

\* An image is the target or below it.
LEMMA ImageIsBelow ==
  ASSUME NEW q \in Path, NEW from \in Path, NEW to \in Path, q = from \/ from \in Above(q),
         Image(q, from, to) \in Path
  PROVE  Image(q, from, to) = to \/ to \in Above(Image(q, from, to))
<1> DEFINE y == Image(q, from, to)
<1>0. IsImage(y, q, from, to)
  BY ImageOfPath
<1>1. /\ y \in Seq(Name) /\ Len(y) = Len(to) + Len(q) - Len(from)
      /\ \A i \in 1..Len(y) : y[i] = IF i <= Len(to) THEN to[i]
                                     ELSE q[i - Len(to) + Len(from)]
  BY ONLY <1>0 DEF IsImage
<1>2. /\ to \in Seq(Name) /\ Len(to) \in Nat /\ Len(q) \in Nat /\ Len(from) \in Nat
      /\ Len(from) <= Len(q)
  BY PathIsSeq, LenProperties, AboveIsPrefix
<1> HIDE DEF y
<1>3. Len(to) <= Len(y) /\ Len(y) \in Nat
  BY <1>1, <1>2
<1>4. \A i \in 1..Len(to) : to[i] = y[i]
  BY <1>1, <1>2, <1>3
<1>5. CASE Len(to) = Len(y)
  BY <1>1, <1>2, <1>4, <1>5, SeqEqual DEF y
<1>6. CASE Len(to) < Len(y)
  BY <1>4, <1>6, AboveIsPrefix DEF y
<1>7. QED
  BY <1>2, <1>3, <1>5, <1>6

\* What is above an image is above the target or the image of what is above.
LEMMA AboveImage ==
  ASSUME NEW q \in Path, NEW from \in Path, NEW to \in Path, q = from \/ from \in Above(q),
         Image(q, from, to) \in Path, NEW x \in Above(Image(q, from, to))
  PROVE  \/ x \in Above(to)
         \/ \E z \in Above(q) : (z = from \/ from \in Above(z)) /\ Image(z, from, to) = x
<1> DEFINE y == Image(q, from, to)
<1>0. IsImage(y, q, from, to)
  BY ImageOfPath
<1>1. /\ y \in Seq(Name) /\ Len(y) = Len(to) + Len(q) - Len(from)
      /\ \A i \in 1..Len(y) : y[i] = IF i <= Len(to) THEN to[i]
                                     ELSE q[i - Len(to) + Len(from)]
  BY ONLY <1>0 DEF IsImage
<1>2. /\ to \in Seq(Name) /\ Len(to) \in Nat /\ Len(q) \in Nat /\ Len(from) \in Nat
      /\ q \in Seq(Name) /\ Len(from) <= Len(q)
  BY PathIsSeq, LenProperties, AboveIsPrefix
<1>3. /\ x \in Path /\ x \in Seq(Name) /\ Len(x) \in Nat /\ Len(x) < Len(y)
      /\ \A i \in 1..Len(x) : x[i] = y[i]
  BY PathIsSeq, LenProperties, AboveIsPrefix
<1> HIDE DEF y
<1>4. Len(y) = Len(to) + Len(q) - Len(from) /\ Len(y) \in Nat
  BY <1>1, LenProperties
<1>5. CASE Len(x) < Len(to)
  <2>1. ASSUME NEW i \in 1..Len(x) PROVE x[i] = to[i]
    <3>1. i \in 1..Len(y) /\ i <= Len(to)
      BY <1>2, <1>3, <1>5, <1>4
    <3>2. QED
      BY <1>1, <1>3, <3>1
  <2>2. QED
    BY <1>3, <1>5, <2>1, AboveIsPrefix
<1>6. CASE Len(to) <= Len(x)
  <2> DEFINE k == Len(x) - Len(to) + Len(from)
             z == SubSeq(q, 1, k)
  <2>1. k \in 0..(Len(q) - 1) /\ Len(from) <= k
    <3>1. Len(x) < Len(to) + Len(q) - Len(from) /\ Len(x) \in Nat
      BY <1>3, <1>4
    <3>2. QED
      BY <1>2, <1>6, <3>1
  <2>2. z \in Above(q) /\ z \in Path
    <3>1. z \in Above(q)
      BY <2>1 DEF Above
    <3>2. QED
      BY <3>1, AboveIsPrefix
  <2>3. Len(z) = k /\ z \in Seq(Name) /\ \A i \in 1..k : z[i] = q[i]
    BY <1>2, <2>1, SubSeqProperties
  <2>4. from \in Above(q)
    <3>1. Len(from) < Len(q)
      BY <1>2, <2>1
    <3>2. QED
      BY <1>2, <3>1
  <2> HIDE DEF z
  <2>5. z = from \/ from \in Above(z)
    <3>1. Len(from) < Len(z) \/ Len(from) = Len(z)
      <4> HIDE DEF k
      <4>1. Len(z) = k
        BY <2>3
      <4>2. k \in Nat /\ Len(from) \in Nat /\ Len(from) <= k
        BY <1>2, <2>1
      <4>3. QED
        BY <4>1, <4>2
    <3>2. QED
      BY <2>2, <2>4, <3>1, AboveIsChain
  <2>6. /\ Image(z, from, to) \in Seq(Name)
        /\ Len(Image(z, from, to)) = Len(to) + Len(z) - Len(from)
        /\ \A i \in 1..Len(Image(z, from, to)) :
             Image(z, from, to)[i] = IF i <= Len(to) THEN to[i]
                                     ELSE z[i - Len(to) + Len(from)]
    <3>1. IsImage(Image(z, from, to), z, from, to)
      BY <2>2, <2>5, ImageOfPath
    <3>2. QED
      BY ONLY <3>1 DEF IsImage
  <2>7. Len(Image(z, from, to)) = Len(x)
    BY <1>2, <1>3, <2>3, <2>6
  <2>8. ASSUME NEW i \in 1..Len(x) PROVE Image(z, from, to)[i] = x[i]
    <3>1. x[i] = y[i] /\ i \in 1..Len(y)
      BY <1>1, <1>2, <1>3
    <3>2. CASE i <= Len(to)
      BY <1>1, <2>6, <2>7, <3>1, <3>2
    <3>3. CASE ~(i <= Len(to))
      <4>1. i - Len(to) + Len(from) \in 1..k
        BY <1>2, <1>3, <3>3
      <4>2. z[i - Len(to) + Len(from)] = q[i - Len(to) + Len(from)]
        BY <2>3, <4>1
      <4>3. QED
        BY <1>1, <2>6, <2>7, <3>1, <3>3, <4>2
    <3>4. QED
      BY <3>2, <3>3
  <2>9. Image(z, from, to) = x
    BY <1>3, <2>6, <2>7, <2>8, SeqEqual
  <2>10. QED
    BY <2>2, <2>5, <2>9
<1>7. QED
  BY <1>2, <1>3, <1>5, <1>6

\* A rename of something with directories above it, to a path with directories
\* above it where nothing is or a file that a file replaces, keeps the tree.
LEMMA RelocationKeepsTree ==
  ASSUME NEW m, Sound(m, rows), Tree(m), NEW from \in Path, NEW to \in Path,
         from # to, from \notin Above(to), m[from].type # "none",
         \A q \in Above(to) : m[q].type = "dir",
         m[to].type = "none" \/ (m[to].type # "dir" /\ m[from].type # "dir"),
         Relocate(m, Moved(m, from), from, to)
  PROVE  Tree(meta')
<1> DEFINE moved == Moved(m, from)
           images == {Image(q, from, to) : q \in moved}
<1>1. /\ moved \subseteq Path /\ images \subseteq Path
      /\ \A q \in moved : (q = from \/ from \in Above(q)) /\ meta'[Image(q, from, to)] = m[q]
      /\ \A q \in Path \ images : meta'[q] = IF q \in moved THEN NoEntry ELSE m[q]
  BY Relocated
<1>2. \A q \in moved : m[q].type # "none" /\ (q # from => m[from].type = "dir")
  BY MovedPaths
<1>3. \A q \in images : q = to \/ to \in Above(q)
  BY <1>1, ImageIsBelow
<1>4. \A q \in Path : m[q].type # "none" => to \notin Above(q)
  BY DEF Tree
<1>5. \A q \in Path : Above(q) \subseteq Path /\ q \notin Above(q)
  BY AboveIsPrefix, AboveIsChain
<1>6. \A q \in Path : \A r \in Above(q) : \A t \in Above(r) : t \in Above(q)
  BY AboveIsChain
<1>7. ASSUME NEW q \in Above(to) PROVE meta'[q].type = "dir"
  <2>1. q \in Path
    BY <1>5
  <2>2. q \notin moved
    BY <1>1, <1>6
  <2>3. q \notin images
    BY <1>3, <1>5, <1>6, <2>1
  <2>4. QED
    BY <1>1, <2>1, <2>2, <2>3
<1>8. ASSUME NEW q \in Path, meta'[q].type # "none", NEW x \in Above(q)
      PROVE  meta'[x].type = "dir"
  <2>1. CASE q \in images
    <3>1. PICK s \in moved : q = Image(s, from, to)
      BY <2>1
    <3>2. s \in Path /\ (s = from \/ from \in Above(s)) /\ m[s].type # "none"
      BY <1>1, <1>2, <3>1
    <3>3. CASE x \in Above(to)
      BY <1>7, <3>3
    <3>4. ASSUME NEW z \in Above(s), z = from \/ from \in Above(z), Image(z, from, to) = x
          PROVE  meta'[x].type = "dir"
      <4>1. m[z].type = "dir" /\ z \in Path
        BY <1>5, <3>2 DEF Tree
      <4>2. m[from].type = "dir"
        <5>1. s # from
          BY <1>5, <1>6, <3>4, <4>1
        <5>2. QED
          BY <1>2, <5>1
      <4>3. z \in moved
        BY <3>4, <4>1, <4>2, MovedPaths DEF Below
      <4>4. QED
        BY <1>1, <3>4, <4>1, <4>3
    <3>5. QED
      BY <3>1, <3>2, <3>3, <3>4, AboveImage
  <2>2. CASE q \notin images
    <3>1. q \notin moved /\ m[q].type # "none"
      <4>1. NoEntry.type = "none"
        BY DEF NoEntry, Entry
      <4>2. QED
        BY <1>1, <1>8, <2>2, <4>1
    <3>2. x \in Path /\ m[x].type = "dir"
      BY <1>5, <3>1 DEF Tree
    <3>3. x \notin moved
      <4>1. SUFFICES ASSUME x \in moved PROVE FALSE
        OBVIOUS
      <4>2. from \in Above(q)
        BY <1>1, <1>6, <4>1
      <4>3. m[from].type = "dir"
        BY <3>1, <4>2 DEF Tree
      <4>4. q \in moved
        BY <3>1, <4>2, <4>3, MovedPaths DEF Below
      <4>5. QED
        BY <3>1, <4>4
    <3>4. x \notin images
      BY <1>3, <1>4, <1>6, <3>1
    <3>5. QED
      BY <1>1, <3>2, <3>3, <3>4
  <2>3. QED
    BY <2>1, <2>2
<1>9. QED
  BY <1>8 DEF Tree

-----------------------------------------------------------------------------
(* The calls.                                                              *)

\* What a call on p does with the tables and the tree.
Keeps(p) == Sound(meta', rows') /\ (Tree(meta) /\ Clear(meta, p) => Tree(meta'))

\* The bytes that calls store are sequences of the lengths they say.
LEMMA LengthsOfData ==
  /\ \A n \in Nat : Zeros(n) \in Seq(Nat) /\ Len(Zeros(n)) = n
  /\ \A n \in Nat : Buffer(n) \in Seq(Nat) /\ Len(Buffer(n)) = n
  /\ \A k, n \in Nat : Len(Zeros(k) \o Buffer(n)) = k + n
  /\ Len(LinkTarget) \in Nat
<1>1. \A n \in Nat : Zeros(n) \in Seq(Nat) /\ Len(Zeros(n)) = n
  BY DEF Zeros
<1>2. \A n \in Nat : Buffer(n) \in Seq(Nat) /\ Len(Buffer(n)) = n
  BY DEF Buffer
<1>3. \A k, n \in Nat : Len(Zeros(k) \o Buffer(n)) = k + n
  BY <1>1, <1>2, ConcatProperties
<1>4. Len(LinkTarget) \in Nat
  BY LinkType, LenProperties
<1>5. QED
  BY <1>1, <1>2, <1>3, <1>4

\* A new row for a path that has none.
LEMMA NodeAdded ==
  ASSUME NEW m, NEW r, Sound(m, r), NEW p \in Path, m[p].type = "none",
         NEW type \in Kind \ {"none"}
  PROVE  LET n == [m EXCEPT ![p] = Entry(type, 0)]
         IN /\ Sound(n, r)
            /\ n[p].type = type
            /\ Tree(m) /\ (\A q \in Above(p) : m[q].type = "dir") => Tree(n)
<1> DEFINE n == [m EXCEPT ![p] = Entry(type, 0)]
<1>1. m \in [Path -> [type : Kind, size : Nat]]
  BY DEF Sound
<1>2. Entry(type, 0) \in [type : Kind, size : Nat] /\ Entry(type, 0).type = type
  BY DEF Entry, Kind
<1>3. n \in [Path -> [type : Kind, size : Nat]] /\ n[p].type = type
  BY <1>1, <1>2
<1>4. \A q \in Path : q # p => n[q] = m[q]
  BY <1>1
<1> HIDE DEF n
<1>5. Sound(n, r)
  BY <1>3, <1>4 DEF Sound
<1>6. ASSUME Tree(m), \A q \in Above(p) : m[q].type = "dir" PROVE Tree(n)
  <2> SUFFICES ASSUME NEW q \in Path, n[q].type # "none", NEW x \in Above(q)
               PROVE  n[x].type = "dir"
    BY DEF Tree
  <2>1. x \in Path
    BY AboveIsPrefix
  <2>2. m[x].type = "dir"
    BY <1>4, <1>6 DEF Tree
  <2>3. x # p
    BY <2>2
  <2>4. QED
    BY <1>4, <2>1, <2>2, <2>3
<1>7. QED
  BY <1>3, <1>5, <1>6 DEF n

\* The tables with the directories above p made, and with p too.
LEMMA ParentsReady ==
  ASSUME Sound(meta, rows), NEW p \in Path
  PROVE  LET w == WithParents(meta, p)
         IN /\ Sound(w, rows)
            /\ Tree(meta) /\ Clear(meta, p) => Tree(w)
            /\ meta[p].type = "none" => w[p].type = "none"
            /\ \A type \in Kind \ {"none"} : w[p].type = "none" =>
                 LET n == [w EXCEPT ![p] = Entry(type, 0)]
                 IN /\ Sound(n, rows)
                    /\ n[p].type = type
                    /\ Tree(meta) /\ Clear(meta, p) => Tree(n)
<1> DEFINE w == WithParents(meta, p)
<1>1. Sound(w, rows)
  BY ParentsAdded
<1>2. ASSUME Tree(meta), Clear(meta, p)
      PROVE  Tree(w) /\ \A q \in Above(p) : w[q].type = "dir"
  BY <1>2, ParentsKeepTree
<1>3. meta[p].type = "none" => w[p].type = "none"
  BY ParentsAdded, AboveIsChain
<1> HIDE DEF w
<1>4. ASSUME NEW type \in Kind \ {"none"}, w[p].type = "none"
      PROVE  LET n == [w EXCEPT ![p] = Entry(type, 0)]
             IN /\ Sound(n, rows)
                /\ n[p].type = type
                /\ Tree(meta) /\ Clear(meta, p) => Tree(n)
  BY <1>1, <1>2, <1>4, NodeAdded
<1>5. QED
  BY <1>1, <1>2, <1>3, <1>4 DEF w

\* mkdir, mknod and create.
LEMMA MakeNodeKeeps ==
  ASSUME Sound(meta, rows), NEW p \in Path, NEW type \in Kind \ {"none"}, MakeNode(p, type)
  PROVE  Keeps(p)
<1> DEFINE w == WithParents(meta, p)
<1>1. rows' = rows
  BY DEF MakeNode, Commit
<1>2. CASE Exists(w, p)
  <2>1. meta' = w
    BY <1>2 DEF MakeNode, Commit
  <2>2. QED
    BY <1>1, <2>1, ParentsReady DEF Keeps
<1>3. CASE ~Exists(w, p)
  <2>1. meta' = [w EXCEPT ![p] = Entry(type, 0)]
    BY <1>3 DEF MakeNode, Commit
  <2>2. w[p].type = "none"
    BY <1>3, ParentsReady, ExistsIsType
  <2>3. QED
    BY <1>1, <2>1, <2>2, ParentsReady DEF Keeps
<1>4. QED
  BY <1>2, <1>3

\* symlink: the new node, then its contents.
LEMMA SymlinkKeeps ==
  ASSUME Sound(meta, rows), NEW p \in Path, Symlink(p)
  PROVE  Keeps(p)
<1> DEFINE w == WithParents(meta, p)
           n == [w EXCEPT ![p] = Entry("link", 0)]
<1>1. CASE Exists(w, p)
  <2>1. meta' = w /\ rows' = rows
    BY <1>1 DEF Symlink, Commit
  <2>2. QED
    BY <2>1, ParentsReady DEF Keeps
<1>2. CASE ~Exists(w, p)
  <2>1. Put(n, p, 0, LinkTarget)
    BY <1>2 DEF Symlink
  <2>2. w[p].type = "none"
    BY <1>2, ParentsReady, ExistsIsType
  <2>3. /\ Sound(n, rows) /\ n[p].type # "none"
        /\ Tree(meta) /\ Clear(meta, p) => Tree(n)
    BY <2>2, ParentsReady DEF Kind
  <2> HIDE DEF n
  <2>4. Sound(meta', rows') /\ SameTypes(n, meta')
    BY <2>1, <2>3, PutKeeps, LengthsOfData
  <2>5. QED
    BY <2>3, <2>4, SameTypesSameTree DEF Keeps
<1>3. QED
  BY <1>1, <1>2

\* truncate changes sizes and blocks together, and no type.
LEMMA TruncateKeeps ==
  ASSUME NEW m, Sound(m, rows), NEW p \in Path, NEW n \in Nat, TruncateIn(m, p, n)
  PROVE  Sound(meta', rows') /\ SameTypes(m, meta')
<1> DEFINE size == m[p].size
<1>1. size \in Nat
  BY DEF Sound
<1>2. CASE ~Reachable(m, p) \/ ~Exists(m, p) \/ size = n
  BY <1>2 DEF TruncateIn, Commit, SameTypes
<1>3. CASE Reachable(m, p) /\ Exists(m, p) /\ size > n
  <2>1. meta' = [m EXCEPT ![p].size = n] /\ rows' = [rows EXCEPT ![p] = Shorten(rows[p], n)]
    BY <1>1, <1>3 DEF TruncateIn, Commit, Sound
  <2>2. QED
    BY <1>3, <2>1, ExistsIsType, ResizeKeeps
<1>4. CASE Reachable(m, p) /\ Exists(m, p) /\ size # n /\ ~(size > n)
  <2>1. Put(m, p, size, Zeros(n - size))
    BY <1>4 DEF TruncateIn
  <2>2. Len(Zeros(n - size)) \in Nat
    BY <1>1, <1>4, LengthsOfData
  <2>3. QED
    BY <1>1, <1>4, <2>1, <2>2, ExistsIsType, PutKeeps
<1>5. QED
  BY <1>2, <1>3, <1>4

\* open, with or without O_CREAT and O_TRUNC.
LEMMA OpenKeeps ==
  ASSUME Sound(meta, rows), NEW p \in Path, NEW creat \in BOOLEAN, NEW trunc \in BOOLEAN,
         Open(p, creat, trunc)
  PROVE  Keeps(p)
<1> DEFINE w == WithParents(meta, p)
           m == IF creat THEN w ELSE meta
<1>1. Sound(m, rows) /\ (Tree(meta) /\ Clear(meta, p) => Tree(m))
  BY ParentsReady
<1>2. CASE Exists(m, p) /\ trunc
  <2>1. TruncateIn(m, p, 0)
    BY <1>2 DEF Open
  <2> HIDE DEF m
  <2>2. QED
    BY <1>1, <2>1, TruncateKeeps, SameTypesSameTree DEF Keeps
<1>3. CASE ~Exists(m, p) /\ creat
  <2>1. meta' = [w EXCEPT ![p] = Entry("blob", 0)] /\ rows' = rows
    BY <1>3 DEF Open, Commit
  <2>2. w[p].type = "none"
    BY <1>3, ParentsReady, ExistsIsType
  <2>3. QED
    BY <2>1, <2>2, ParentsReady DEF Keeps, Kind
<1>4. CASE ~(Exists(m, p) /\ trunc) /\ ~(~Exists(m, p) /\ creat)
  <2>1. meta' = m /\ rows' = rows
    BY <1>4 DEF Open, Commit
  <2>2. QED
    BY <1>1, <2>1 DEF Keeps
<1>5. QED
  BY <1>2, <1>3, <1>4

\* write to a new or an old file, at an offset or at the end.
LEMMA WriteKeeps ==
  ASSUME Sound(meta, rows), NEW p \in Path, NEW off \in Nat, NEW n \in Nat,
         NEW append \in BOOLEAN, Write(p, off, n, append)
  PROVE  Keeps(p)
<1> DEFINE new == ~Exists(meta, p)
           m == IF new THEN [WithParents(meta, p) EXCEPT ![p] = Entry("blob", 0)] ELSE meta
           size == m[p].size
<1>1. CASE IsDir(meta, p) \/ (~new /\ ~Reachable(meta, p))
  <2>1. meta' = meta /\ rows' = rows
    BY <1>1 DEF Write, Commit
  <2>2. QED
    BY <2>1 DEF Keeps
<1>2. CASE ~(IsDir(meta, p) \/ (~new /\ ~Reachable(meta, p)))
  <2>1. /\ Sound(m, rows) /\ m[p].type # "none"
        /\ Tree(meta) /\ Clear(meta, p) => Tree(m)
    <3>1. CASE new
      <4>1. meta[p].type = "none"
        BY <3>1, ExistsIsType
      <4>2. QED
        BY <3>1, <4>1, ParentsReady DEF Kind
    <3>2. CASE ~new
      BY <3>2, ExistsIsType
    <3>3. QED
      BY <3>1, <3>2
  <2>2. size \in Nat
    BY <2>1 DEF Sound
  <2>3. \/ Put(m, p, size, Buffer(n))
        \/ off > size /\ Put(m, p, size, Zeros(off - size) \o Buffer(n))
        \/ Put(m, p, off, Buffer(n))
    BY <1>2 DEF Write
  <2> HIDE DEF m
  <2>4. Sound(meta', rows') /\ SameTypes(m, meta')
    <3>1. CASE Put(m, p, size, Buffer(n))
      <4>1. Len(Buffer(n)) \in Nat
        BY LengthsOfData
      <4>2. QED
        BY <2>1, <2>2, <3>1, <4>1, PutKeeps
    <3>2. CASE off > size /\ Put(m, p, size, Zeros(off - size) \o Buffer(n))
      <4>1. off - size \in Nat
        BY <2>2, <3>2
      <4>2. Len(Zeros(off - size) \o Buffer(n)) \in Nat
        BY <4>1, LengthsOfData
      <4>3. QED
        BY <2>1, <2>2, <3>2, <4>2, PutKeeps
    <3>3. CASE Put(m, p, off, Buffer(n))
      <4>1. Len(Buffer(n)) \in Nat
        BY LengthsOfData
      <4>2. QED
        BY <2>1, <3>3, <4>1, PutKeeps
    <3>4. QED
      BY <2>3, <3>1, <3>2, <3>3
  <2>5. QED
    BY <2>1, <2>4, SameTypesSameTree DEF Keeps
<1>3. QED
  BY <1>1, <1>2

\* Taking out paths keeps the tree if with a path goes what is below it.
LEMMA RemovalKeepsTree ==
  ASSUME NEW m, NEW n, Tree(m), NEW D,
         \A q \in Path : n[q].type = IF q \in D THEN "none" ELSE m[q].type,
         \A q \in Path, x \in D : m[q].type # "none" /\ x \in Above(q) => q \in D
  PROVE  Tree(n)
<1> SUFFICES ASSUME NEW q \in Path, n[q].type # "none", NEW x \in Above(q)
             PROVE  n[x].type = "dir"
  BY DEF Tree
<1>1. x \in Path
  BY AboveIsPrefix
<1>2. q \notin D /\ m[q].type # "none" /\ m[x].type = "dir"
  BY DEF Tree
<1>3. QED
  BY <1>1, <1>2

\* unlink leaves a directory alone and takes a file out of both tables.
LEMMA UnlinkKeeps ==
  ASSUME Sound(meta, rows), NEW p \in Path, Unlink(p)
  PROVE  Keeps(p)
<1> DEFINE w == WithParents(meta, p)
           D == IF IsDir(w, p) THEN {} ELSE {p}
<1>1. RemoveKeys(w, D)
  BY DEF Unlink
<1>2. Sound(w, rows) /\ (Tree(meta) /\ Clear(meta, p) => Tree(w))
  BY ParentsReady
<1>3. ASSUME Tree(w), NEW q \in Path, NEW x \in D, w[q].type # "none", x \in Above(q)
      PROVE  q \in D
  BY <1>3 DEF Tree, IsDir
<1> HIDE DEF w, D
<1>4. /\ Sound(meta', rows')
      /\ \A q \in Path : meta'[q].type = IF q \in D THEN "none" ELSE w[q].type
  BY <1>1, <1>2, RemovalKeeps
<1>5. QED
  BY <1>2, <1>3, <1>4, RemovalKeepsTree DEF Keeps

\* A directory that is removed is empty, because a file below it would be in
\* or below a child.
LEMMA RmdirKeeps ==
  ASSUME Sound(meta, rows), NEW p \in Path, Rmdir(p)
  PROVE  Keeps(p)
<1> DEFINE w == WithParents(meta, p)
           full == IsDir(w, p) /\ \E q \in Child(p) : Exists(w, q)
           D == IF full THEN {} ELSE {p}
<1>1. RemoveKeys(w, D)
  BY DEF Rmdir
<1>2. Sound(w, rows) /\ (Tree(meta) /\ Clear(meta, p) => Tree(w))
  BY ParentsReady
<1> HIDE DEF w
<1>3. ASSUME Tree(w), NEW q \in Path, NEW x \in D, w[q].type # "none", x \in Above(q)
      PROVE  q \in D
  <2>1. x = p /\ ~full
    OBVIOUS
  <2>2. IsDir(w, p)
    BY <1>3, <2>1 DEF Tree, IsDir
  <2>3. PICK c \in Child(p) : c = q \/ c \in Above(q)
    BY <1>3, <2>1, ChildOnTheWay
  <2>4. c \in Path /\ w[c].type # "none"
    BY <1>3, <2>3 DEF Tree, Child, Below
  <2>5. Exists(w, c)
    BY <1>2, <2>4, ExistsIsType
  <2>6. QED
    BY <2>1, <2>2, <2>3, <2>5
<1> HIDE DEF D
<1>4. /\ Sound(meta', rows')
      /\ \A q \in Path : meta'[q].type = IF q \in D THEN "none" ELSE w[q].type
  BY <1>1, <1>2, RemovalKeeps
<1>5. QED
  BY <1>2, <1>3, <1>4, RemovalKeepsTree DEF Keeps

\* del_tree takes out a path with everything below it.
LEMMA DelTreeKeeps ==
  ASSUME Sound(meta, rows), NEW p \in Path, DelTree(p)
  PROVE  Keeps(p)
<1> DEFINE w == WithParents(meta, p)
           D == IF Exists(w, p) THEN {p} \cup Below(p) ELSE {}
<1>1. RemoveKeys(w, D)
  BY DEF DelTree
<1>2. Sound(w, rows) /\ (Tree(meta) /\ Clear(meta, p) => Tree(w))
  BY ParentsReady
<1>3. ASSUME NEW q \in Path, NEW x \in D, x \in Above(q)
      PROVE  q \in D
  <2>1. Exists(w, p) /\ (x = p \/ p \in Above(x))
    BY DEF Below
  <2>2. p \in Above(q)
    BY <1>3, <2>1, AboveIsChain
  <2>3. QED
    BY <2>1, <2>2 DEF Below
<1> HIDE DEF w, D
<1>4. /\ Sound(meta', rows')
      /\ \A q \in Path : meta'[q].type = IF q \in D THEN "none" ELSE w[q].type
  BY <1>1, <1>2, RemovalKeeps
<1>5. QED
  BY <1>2, <1>3, <1>4, RemovalKeepsTree DEF Keeps

\* Both paths of a rename get the directories above them.
LEMMA BothReady ==
  ASSUME Sound(meta, rows), NEW p \in Path, NEW q \in Path
  PROVE  LET m == WithParents(WithParents(meta, p), q)
         IN /\ Sound(m, rows)
            /\ Tree(meta) /\ Clear(meta, p) /\ Clear(meta, q) =>
                 Tree(m) /\ \A x \in Above(q) : m[x].type = "dir"
<1> DEFINE w == WithParents(meta, p)
           m == WithParents(w, q)
<1>1. Sound(w, rows)
  BY ParentsAdded
<1>2. ASSUME Tree(meta), Clear(meta, p), Clear(meta, q)
      PROVE  Tree(w) /\ Clear(w, q)
  BY <1>2, ParentsKeepTree
<1> HIDE DEF w
<1>3. Sound(m, rows)
  BY <1>1, ParentsAdded
<1>4. ASSUME Tree(meta), Clear(meta, p), Clear(meta, q)
      PROVE  Tree(m) /\ \A x \in Above(q) : m[x].type = "dir"
  BY <1>1, <1>2, <1>4, ParentsKeepTree
<1>5. QED
  BY <1>3, <1>4 DEF w

\* A rename that succeeds, or finds nothing to rename.
LEMMA RenameKeeps ==
  ASSUME Sound(meta, rows), NEW p \in Path, NEW q \in Path, q \notin Below(p),
         Rename(p, q) \/ RenameNothing(p, q)
  PROVE  /\ Sound(meta', rows')
         /\ Tree(meta) /\ Clear(meta, p) /\ Clear(meta, q) => Tree(meta')
<1> DEFINE m == WithParents(WithParents(meta, p), q)
<1>1. /\ Sound(m, rows)
      /\ Tree(meta) /\ Clear(meta, p) /\ Clear(meta, q) =>
           Tree(m) /\ \A x \in Above(q) : m[x].type = "dir"
  BY BothReady
<1>2. CASE RenameNothing(p, q)
  <2>1. meta' = m /\ rows' = rows
    BY <1>2 DEF RenameNothing, Commit
  <2>2. QED
    BY <1>1, <2>1
<1>3. CASE Rename(p, q)
  <2>1. /\ Exists(m, p) /\ ~Conflict(m, p, q) /\ p # q
        /\ Relocate(m, Moved(m, p), p, q)
    BY <1>3 DEF Rename
  <2> HIDE DEF m
  <2>2. Sound(meta', rows')
    BY <1>1, <2>1, RelocationIsSound
  <2>3. m[p].type # "none" /\ (m[q].type = "none" \/ (m[q].type # "dir" /\ m[p].type # "dir"))
    BY <1>1, <2>1, ExistsIsType DEF Conflict, IsDir
  <2>4. p \notin Above(q)
    BY DEF Below
  <2>5. ASSUME Tree(m), \A x \in Above(q) : m[x].type = "dir"
        PROVE  Tree(meta')
    BY <1>1, <2>1, <2>3, <2>4, <2>5, RelocationKeepsTree
  <2>6. QED
    BY <1>1, <2>2, <2>5
<1>4. QED
  BY <1>2, <1>3

\* A rename that is refused takes its target out of both tables.
LEMMA RefuseRenameKeeps ==
  ASSUME Sound(meta, rows), NEW p \in Path, NEW q \in Path, RefuseRename(p, q)
  PROVE  Sound(meta', rows')
<1> DEFINE m == WithParents(WithParents(meta, p), q)
<1>1. Sound(m, rows)
  BY BothReady
<1>2. RemoveKeys(m, {q})
  BY DEF RefuseRename
<1> HIDE DEF m
<1>3. QED
  BY <1>1, <1>2, RemovalKeeps

\* A child of the target that the call itself made would be above the source,
\* which is there only if all above it was there before.
LEMMA NoChildIsMade ==
  ASSUME Sound(meta, rows), Tree(meta), NEW p \in Path, NEW q \in Path, q \notin Below(p),
         Exists(WithParents(WithParents(meta, p), q), p), NEW c \in Child(q),
         WithParents(WithParents(meta, p), q)[c].type # "none"
  PROVE  Exists(meta, c)
<1> DEFINE w == WithParents(meta, p)
           m == WithParents(w, q)
<1>1. c \in Path /\ q \in Above(c)
  BY DEF Child, Below
<1>2. Sound(w, rows)
  BY ParentsAdded
<1>3. \A x \in Path : meta[x].type = "none" =>
        w[x].type = IF x \in Missing(meta, p) THEN "dir" ELSE "none"
  BY ParentsAdded
<1>4. \A x \in Missing(meta, p) : x \in Above(p)
  BY ParentsAdded
<1> HIDE DEF w
<1>5. Sound(m, rows) /\ \A x \in Path : w[x].type = "none" =>
        m[x].type = IF x \in Missing(w, q) THEN "dir" ELSE "none"
  BY <1>2, ParentsAdded
<1>6. \A x \in Missing(w, q) : x \in Above(q)
  BY <1>2, ParentsAdded
<1> HIDE DEF m
<1>7. m[p].type # "none" /\ m[c].type # "none"
  BY <1>5, ExistsIsType DEF m, w
<1>8. c \notin Above(q)
  BY <1>1, AboveIsChain
<1>9. w[c].type # "none"
  BY <1>1, <1>5, <1>6, <1>7, <1>8
<1>10. SUFFICES ASSUME meta[c].type = "none" PROVE FALSE
  BY <1>1, ExistsIsType
<1>11. c \in Above(p)
  BY <1>1, <1>3, <1>4, <1>9, <1>10
<1>12. meta[p].type = "none"
  BY <1>10, <1>11 DEF Tree
<1>13. w[p].type = "none"
  BY <1>3, <1>4, <1>12, AboveIsChain
<1>14. p \in Above(q)
  BY <1>5, <1>6, <1>7, <1>13
<1>15. QED
  BY <1>14 DEF Below

\* With nothing below its target, a refused rename keeps the tree.
LEMMA RefuseRenameKeepsTree ==
  ASSUME Sound(meta, rows), Tree(meta), NEW p \in Path, NEW q \in Path, q \notin Below(p),
         Clear(meta, p), Clear(meta, q), ~Full(q), RefuseRename(p, q)
  PROVE  Tree(meta')
<1> DEFINE m == WithParents(WithParents(meta, p), q)
<1>1. Sound(m, rows) /\ Tree(m)
  BY BothReady
<1>2. RemoveKeys(m, {q}) /\ Exists(m, p)
  BY DEF RefuseRename
<1>3. \A c \in Child(q) : m[c].type = "none"
  BY <1>2, NoChildIsMade DEF Full
<1> HIDE DEF m
<1>4. ASSUME NEW x \in Path, NEW y \in {q}, m[x].type # "none", y \in Above(x)
      PROVE  x \in {q}
  <2>1. PICK c \in Child(q) : c = x \/ c \in Above(x)
    BY <1>4, ChildOnTheWay
  <2>2. m[c].type # "none"
    BY <1>1, <1>4, <2>1 DEF Tree
  <2>3. QED
    BY <1>3, <2>1, <2>2
<1> DEFINE D == {q}
<1>5. RemoveKeys(m, D)
  BY <1>2
<1>6. \A x \in Path, y \in D : m[x].type # "none" /\ y \in Above(x) => x \in D
  BY <1>4
<1> HIDE DEF D
<1>7. \A x \in Path : meta'[x].type = IF x \in D THEN "none" ELSE m[x].type
  BY <1>1, <1>5, RemovalKeeps
<1>8. QED
  BY <1>1, <1>6, <1>7, RemovalKeepsTree

-----------------------------------------------------------------------------
(* The theorems.                                                           *)

\* The inductive invariant: sound tables, and the tree unless astray.
IInv == Sound(meta, rows) /\ (astray \/ Tree(meta))

\* An empty database has the root alone.
LEMMA InitIInv == Init => IInv
<1> SUFFICES ASSUME Init PROVE IInv
  OBVIOUS
<1>1. meta = [p \in Path |-> IF p = Root THEN Entry("dir", 0) ELSE NoEntry]
  BY DEF Init
<1>2. rows = [p \in Path |-> NoBlocks]
  BY DEF Init
<1>3. /\ Entry("dir", 0) \in [type : Kind, size : Nat] /\ Entry("dir", 0).type = "dir"
      /\ NoEntry \in [type : Kind, size : Nat] /\ NoEntry.type = "none" /\ NoEntry.size = 0
  BY DEF NoEntry, Entry, Kind
<1>4. Sound(meta, rows)
  <2>1. meta \in [Path -> [type : Kind, size : Nat]]
    BY <1>1, <1>3
  <2>2. \A q \in Path : meta[q].type = "none" => meta[q].size = 0
    BY <1>1, <1>3
  <2>3. rows = [q \in Path |-> rows[q]] /\ \A q \in Path : rows[q] = NoBlocks
    BY <1>2
  <2>4. QED
    BY <2>1, <2>2, <2>3 DEF Sound
<1>5. Tree(meta)
  <2> SUFFICES ASSUME NEW q \in Path, meta[q].type # "none", NEW x \in Above(q) PROVE FALSE
    BY DEF Tree
  <2>1. q = Root
    BY <1>1, <1>3
  <2>2. Above(q) = {}
    BY <2>1 DEF Root, Above
  <2>3. QED
    BY <2>2
<1>6. QED
  BY <1>4, <1>5 DEF IInv

\* Every call on one path keeps the tables sound, and the tree when no file is
\* above the path.
LEMMA CallKeeps ==
  ASSUME Sound(meta, rows), NEW p \in Path, Call(p)
  PROVE  Keeps(p)
<1>1. CASE Mkdir(p)
  BY <1>1, MakeNodeKeeps DEF Mkdir, Kind
<1>2. CASE Mknod(p) \/ Create(p)
  BY <1>2, MakeNodeKeeps DEF Mknod, Create, Kind
<1>3. CASE Symlink(p)
  BY <1>3, SymlinkKeeps
<1>4. CASE Unlink(p)
  BY <1>4, UnlinkKeeps
<1>5. CASE Rmdir(p)
  BY <1>5, RmdirKeeps
<1>6. CASE DelTree(p)
  BY <1>6, DelTreeKeeps
<1>7. ASSUME NEW n \in Lengths, Truncate(p, n) PROVE Keeps(p)
  BY <1>7, LengthsType, TruncateKeeps, SameTypesSameTree DEF Truncate, Keeps
<1>8. ASSUME NEW creat \in BOOLEAN, NEW trunc \in BOOLEAN, Open(p, creat, trunc) PROVE Keeps(p)
  BY <1>8, OpenKeeps
<1>9. ASSUME NEW w \in Writes, NEW append \in BOOLEAN, Write(p, w[1], w[2], append)
      PROVE  Keeps(p)
  <2>1. w[1] \in Nat /\ w[2] \in Nat
    BY WritesType
  <2>2. QED
    BY <1>9, <2>1, WriteKeeps
<1>10. QED
  BY <1>1, <1>2, <1>3, <1>4, <1>5, <1>6, <1>7, <1>8, <1>9 DEF Call

\* The invariant is inductive: every step keeps it.
LEMMA NextIInv == IInv /\ [Next]_vars => IInv'
<1> SUFFICES ASSUME IInv, [Next]_vars PROVE IInv'
  OBVIOUS
<1>1. ASSUME NEW p \in Path \ {Root}, Call(p) PROVE IInv'
  <2>1. Keeps(p)
    BY <1>1, CallKeeps DEF IInv
  <2>2. astray' = (astray \/ UnderFile(p))
    BY <1>1 DEF Call
  <2>3. CASE astray \/ UnderFile(p)
    BY <2>1, <2>2, <2>3 DEF IInv, Keeps
  <2>4. CASE ~astray /\ ~UnderFile(p)
    <3>1. Tree(meta) /\ Clear(meta, p)
      BY <2>4, ClearIsNotUnderFile DEF IInv
    <3>2. QED
      BY <2>1, <3>1 DEF IInv, Keeps
  <2>5. QED
    BY <2>3, <2>4
<1>2. ASSUME NEW p \in Path \ {Root}, NEW q \in Path \ ({Root} \cup Below(p)), RenameCall(p, q)
      PROVE  IInv'
  <2>1. CASE Rename(p, q) \/ RenameNothing(p, q)
    <3>1. /\ Sound(meta', rows')
          /\ Tree(meta) /\ Clear(meta, p) /\ Clear(meta, q) => Tree(meta')
      BY <1>2, <2>1, RenameKeeps DEF IInv
    <3>2. CASE ~astray /\ ~UnderFile(p) /\ ~UnderFile(q)
      <4>1. Tree(meta) /\ Clear(meta, p) /\ Clear(meta, q)
        BY <3>2, ClearIsNotUnderFile DEF IInv
      <4>2. QED
        BY <3>1, <4>1 DEF IInv
    <3>3. CASE astray \/ UnderFile(p) \/ UnderFile(q)
      <4>1. astray'
        BY <1>2, <3>3 DEF RenameCall
      <4>2. QED
        BY <3>1, <4>1 DEF IInv
    <3>4. QED
      BY <3>2, <3>3
  <2>2. CASE /\ RefuseRename(p, q)
             /\ astray' = (astray \/ UnderFile(p) \/ UnderFile(q) \/ Full(q))
    <3>1. Sound(meta', rows')
      BY <2>2, RefuseRenameKeeps DEF IInv
    <3>2. CASE ~astray /\ ~UnderFile(p) /\ ~UnderFile(q) /\ ~Full(q)
      <4>1. Tree(meta) /\ Clear(meta, p) /\ Clear(meta, q)
        BY <3>2, ClearIsNotUnderFile DEF IInv
      <4>2. Tree(meta')
        BY <2>2, <3>2, <4>1, RefuseRenameKeepsTree DEF IInv
      <4>3. QED
        BY <3>1, <4>2 DEF IInv
    <3>3. CASE astray \/ UnderFile(p) \/ UnderFile(q) \/ Full(q)
      BY <2>2, <3>1, <3>3 DEF IInv
    <3>4. QED
      BY <3>2, <3>3
  <2>3. QED
    BY <1>2, <2>1, <2>2 DEF RenameCall
<1>3. CASE UNCHANGED vars
  BY <1>3 DEF vars, IInv
<1>4. QED
  BY <1>1, <1>2, <1>3 DEF Next

\* The invariant holds in every reachable state.
LEMMA Invariance == Spec => []IInv
<1>1. QED
  BY InitIInv, NextIInv, PTL DEF Spec

\* No sequence of calls leaves blocks of a path that meta_data does not have.
THEOREM NothingIsOrphaned == Spec => []NoOrphanBlocks
<1>1. IInv => NoOrphanBlocks
  BY ExistsIsType DEF IInv, NoOrphanBlocks, Sound
<1>2. QED
  BY <1>1, Invariance, PTL

\* No sequence of calls detaches a file from the tree, refused renames of and
\* onto files and empty directories included.  It does not speak of what follows
\* a refused rename whose target is a directory that is not empty, which
\* sqlfs.c:2384 removes without what is below it, or a call below a regular file.
THEOREM TreeIsKept == Spec => []KeepsTheTree
<1>1. IInv => KeepsTheTree
  <2> SUFFICES ASSUME IInv, ~astray, NEW p \in Path, Exists(meta, p), NEW q \in Above(p)
               PROVE  IsDir(meta, q)
    BY DEF KeepsTheTree
  <2>1. meta[p].type # "none"
    BY ExistsIsType DEF IInv
  <2>2. QED
    BY <2>1 DEF IInv, Tree, IsDir
<1>2. QED
  BY <1>1, Invariance, PTL

-----------------------------------------------------------------------------
(* Positions and blocks.                                                   *)

\* A position is that of a block and a place in it.
LEMMA Position ==
  ASSUME NEW a \in Nat
  PROVE  /\ a \div BlockSize \in Nat
         /\ a % BlockSize \in 0..(BlockSize - 1)
         /\ a = (a \div BlockSize) * BlockSize + (a % BlockSize)
BY BlockSizeType

\* Blocks begin as far apart as they are long.
LEMMA BlockOrder ==
  ASSUME NEW b \in Nat, NEW c \in Nat
  PROVE  /\ b < c <=> b * BlockSize + BlockSize <= c * BlockSize
         /\ b * BlockSize \in Nat
BY BlockSizeType

\* A position is behind the start of a block exactly when it is in the block
\* or in a later one.
LEMMA BlockOfPosition ==
  ASSUME NEW a \in Nat, NEW b \in Nat
  PROVE  b <= a \div BlockSize <=> b * BlockSize <= a
<1> DEFINE c == a \div BlockSize
<1>1. c \in Nat /\ a % BlockSize \in 0..(BlockSize - 1) /\ a = c * BlockSize + (a % BlockSize)
  BY Position
<1> HIDE DEF c
<1>2. /\ c < b <=> c * BlockSize + BlockSize <= b * BlockSize
      /\ b < c <=> b * BlockSize + BlockSize <= c * BlockSize
      /\ b * BlockSize \in Nat /\ c * BlockSize \in Nat
  BY <1>1, BlockOrder
<1>3. BlockSize \in Nat \ {0}
  BY BlockSizeType
<1>4. CASE b <= c
  BY <1>1, <1>2, <1>3, <1>4
<1>5. CASE c < b
  BY <1>1, <1>2, <1>3, <1>5
<1>6. QED
  BY <1>1, <1>4, <1>5 DEF c

\* The block and the place of a position are the only ones with that sum.
LEMMA PositionOfPlace ==
  ASSUME NEW b \in Nat, NEW i \in 1..BlockSize
  PROVE  /\ b * BlockSize + i - 1 \in Nat
         /\ (b * BlockSize + i - 1) \div BlockSize = b
         /\ ((b * BlockSize + i - 1) % BlockSize) + 1 = i
<1> DEFINE r == i - 1
<1>1. r \in 0..(BlockSize - 1) /\ b * BlockSize \in Nat
  BY BlockSizeType, BlockOrder
<1>2. b * BlockSize + r \in Nat
  BY <1>1
<1>3. (b * BlockSize + r) \div BlockSize = b /\ (b * BlockSize + r) % BlockSize = r
  <2> HIDE DEF r
  <2>1. QED
    BY <1>1, <1>2, BlockSizeType, Position
<1>4. b * BlockSize + i - 1 = b * BlockSize + r
  BY <1>1
<1>5. QED
  BY <1>2, <1>3, <1>4

-----------------------------------------------------------------------------
(* The blocks of one file.                                                 *)

\* How many bytes block b of a file of size n has.
BlockLength(b, n) ==
  IF b * BlockSize + BlockSize <= n THEN BlockSize ELSE n - b * BlockSize

Blocks(n) == {b \in Nat : b * BlockSize < n}

\* The blocks of a file of size n: no hole, no block too many, each full but
\* the last.
FileOK(f, n) ==
  /\ f = [b \in Blocks(n) |-> f[b]]
  /\ \A b \in Blocks(n) : f[b] \in Seq(Nat) /\ Len(f[b]) = BlockLength(b, n)

\* The contents of such a file.
Bytes(f, n) ==
  [x \in 1..n |-> f[(x - 1) \div BlockSize][((x - 1) % BlockSize) + 1]]

\* Byte x of a file is in the block that its position says.
LEMMA ByteInBlock ==
  ASSUME NEW f, NEW n \in Nat, FileOK(f, n), NEW x \in 1..n
  PROVE  LET b == (x - 1) \div BlockSize
             i == ((x - 1) % BlockSize) + 1
         IN /\ b \in Blocks(n) /\ i \in 1..Len(f[b]) /\ i \in 1..BlockSize
            /\ x = b * BlockSize + i
            /\ f[b][i] \in Nat
<1> DEFINE b == (x - 1) \div BlockSize
           i == ((x - 1) % BlockSize) + 1
<1>1. x - 1 \in Nat /\ BlockSize \in Nat \ {0}
  BY BlockSizeType
<1>2. /\ b \in Nat /\ (x - 1) % BlockSize \in 0..(BlockSize - 1)
      /\ x - 1 = b * BlockSize + ((x - 1) % BlockSize)
  BY <1>1, Position
<1>3. b \in Nat /\ i \in 1..BlockSize /\ x - 1 = b * BlockSize + (i - 1)
  BY <1>1, <1>2
<1> HIDE DEF b, i
<1>4. b * BlockSize \in Nat
  BY <1>2, BlockOrder
<1>5. x = b * BlockSize + i
  BY <1>1, <1>3, <1>4
<1>6. b \in Blocks(n)
  BY <1>2, <1>3, <1>4, <1>5 DEF Blocks
<1>7. f[b] \in Seq(Nat) /\ Len(f[b]) = BlockLength(b, n)
  BY <1>6 DEF FileOK
<1>8. i <= BlockLength(b, n)
  BY <1>1, <1>3, <1>4, <1>5 DEF BlockLength
<1>9. i \in 1..Len(f[b])
  <2>1. Len(f[b]) \in Nat
    BY <1>7, LenProperties
  <2>2. QED
    BY <1>3, <1>7, <1>8, <2>1
<1>10. f[b][i] \in Nat
  BY <1>7, <1>9, ElementOfSeq
<1>11. QED
  BY <1>3, <1>5, <1>6, <1>9, <1>10 DEF b, i

\* The contents are a sequence of the file's size.
LEMMA BytesOfFile ==
  ASSUME NEW f, NEW n \in Nat, FileOK(f, n)
  PROVE  /\ Bytes(f, n) \in Seq(Nat) /\ Len(Bytes(f, n)) = n
         /\ DOMAIN Bytes(f, n) = 1..n
<1>1. Bytes(f, n) \in [1..n -> Nat]
  BY ByteInBlock DEF Bytes
<1>2. QED
  BY <1>1

\* get_value of a whole file reads its blocks and nothing else.
LEMMA ReadWhole ==
  ASSUME NEW f, NEW n \in Nat, FileOK(f, n)
  PROVE  GetValue(f, 0, n) = Bytes(f, n)
<1>1. DOMAIN f = Blocks(n)
  BY DEF FileOK
<1>2. ASSUME NEW x \in 1..n
      PROVE  LET b == (0 + x - 1) \div BlockSize
                 i == ((0 + x - 1) % BlockSize) + 1
             IN (IF i <= Len(Block(f, b)) THEN f[b][i]
                 ELSE IF b = 0 \div BlockSize THEN 0 ELSE Junk) = Bytes(f, n)[x]
  <2> DEFINE b == (x - 1) \div BlockSize
             i == ((x - 1) % BlockSize) + 1
  <2>1. 0 + x - 1 = x - 1
    OBVIOUS
  <2>2. b \in Blocks(n) /\ i \in 1..Len(f[b])
    BY ByteInBlock
  <2>3. Bytes(f, n)[x] = f[b][i]
    BY DEF Bytes
  <2> HIDE DEF b, i
  <2>4. Block(f, b) = f[b] /\ i <= Len(f[b])
    BY <1>1, <2>2 DEF Block
  <2>5. QED
    BY <2>1, <2>3, <2>4 DEF b, i
<1>3. 1..(n - 0) = 1..n
  OBVIOUS
<1>4. Bytes(f, n) = [x \in 1..n |-> Bytes(f, n)[x]]
  BY DEF Bytes
<1>5. QED
  BY <1>2, <1>3, <1>4 DEF GetValue

\* Two files of equal size with equal bytes have equal contents, in the form in
\* which FileStore computes them.
LEMMA SpliceIsSeq ==
  ASSUME NEW old \in Seq(Nat), NEW off \in Nat, NEW data \in Seq(Nat)
  PROVE  LET s == FS!Splice(old, off, data)
             end == off + Len(data)
         IN /\ s \in Seq(Nat) /\ Len(s) = Larger(end, Len(old))
            /\ DOMAIN s = 1..Larger(end, Len(old))
            /\ \A x \in 1..Larger(end, Len(old)) :
                 s[x] = IF off < x /\ x <= end THEN data[x - off]
                        ELSE IF x <= Len(old) THEN old[x] ELSE 0
<1> DEFINE s == FS!Splice(old, off, data)
           end == off + Len(data)
<1>1. end \in Nat /\ Len(old) \in Nat /\ Len(data) \in Nat /\ Larger(end, Len(old)) \in Nat
  BY LenProperties DEF Larger
<1>2. s = [x \in 1..Larger(end, Len(old)) |->
             IF off < x /\ x <= end THEN data[x - off]
             ELSE IF x <= Len(old) THEN old[x] ELSE 0]
  BY DEF FS!Splice, Larger
<1>3. ASSUME NEW x \in 1..Larger(end, Len(old)) PROVE s[x] \in Nat
  <2>1. s[x] = IF off < x /\ x <= end THEN data[x - off]
               ELSE IF x <= Len(old) THEN old[x] ELSE 0
    BY <1>2
  <2>2. CASE off < x /\ x <= end
    <3>1. x - off \in 1..Len(data)
      BY <1>1, <2>2
    <3>2. QED
      BY <2>1, <2>2, <3>1, ElementOfSeq
  <2>3. CASE ~(off < x /\ x <= end) /\ x <= Len(old)
    <3>1. x \in 1..Len(old)
      BY <1>1, <2>3
    <3>2. QED
      BY <2>1, <2>3, <3>1, ElementOfSeq
  <2>4. QED
    BY <2>1, <2>2, <2>3
<1> HIDE DEF s, end
<1>4. s \in [1..Larger(end, Len(old)) -> Nat]
  BY <1>2, <1>3
<1>5. /\ s \in Seq(Nat) /\ Len(s) = Larger(end, Len(old))
      /\ DOMAIN s = 1..Larger(end, Len(old))
  <2> DEFINE length == Larger(end, Len(old))
  <2>1. length \in Nat /\ s \in [1..length -> Nat]
    BY <1>1, <1>4
  <2> HIDE DEF length
  <2>2. s \in Seq(Nat) /\ Len(s) = length /\ DOMAIN s = 1..length
    BY <2>1
  <2>3. QED
    BY <2>2 DEF length
<1>6. \A x \in 1..Larger(end, Len(old)) :
        s[x] = IF off < x /\ x <= end THEN data[x - off]
               ELSE IF x <= Len(old) THEN old[x] ELSE 0
  BY <1>2
<1>7. QED
  BY <1>5, <1>6 DEF s, end

\* The blocks that set_value touches, together with those the file has, are the
\* blocks of the new size.
LEMMA TouchedBlocks ==
  ASSUME NEW n \in Nat, NEW begin \in 0..n, NEW end \in Nat, begin < end
  PROVE  LET touched == (begin \div BlockSize)..((end - 1) \div BlockSize)
         IN /\ touched \subseteq Nat
            /\ \A b \in Nat : b \in touched <=>
                 begin < b * BlockSize + BlockSize /\ b * BlockSize < end
            /\ Blocks(n) \cup touched = Blocks(Larger(end, n))
<1> DEFINE touched == (begin \div BlockSize)..((end - 1) \div BlockSize)
<1>1. begin \in Nat /\ end - 1 \in Nat
  OBVIOUS
<1>2. begin \div BlockSize \in Nat /\ (end - 1) \div BlockSize \in Nat
  BY <1>1, Position
<1>3. ASSUME NEW b \in Nat
      PROVE  b \in touched <=> begin < b * BlockSize + BlockSize /\ b * BlockSize < end
  <2>1. b <= (end - 1) \div BlockSize <=> b * BlockSize <= end - 1
    BY <1>1, BlockOfPosition
  <2>2. b + 1 <= begin \div BlockSize <=> (b + 1) * BlockSize <= begin
    BY <1>1, BlockOfPosition
  <2>3. (b + 1) * BlockSize = b * BlockSize + BlockSize /\ b * BlockSize \in Nat
        /\ BlockSize \in Nat
    BY BlockSizeType, BlockOrder
  <2>4. b \in touched <=> ~(b + 1 <= begin \div BlockSize) /\ b <= (end - 1) \div BlockSize
    BY <1>2
  <2>5. b * BlockSize <= end - 1 <=> b * BlockSize < end
    BY <2>3
  <2>6. ~(b * BlockSize + BlockSize <= begin) <=> begin < b * BlockSize + BlockSize
    BY <2>3
  <2>7. QED
    BY <2>1, <2>2, <2>3, <2>4, <2>5, <2>6
<1>4. touched \subseteq Nat
  BY <1>2
<1> HIDE DEF touched
<1>5. ASSUME NEW b \in Nat
      PROVE  b \in Blocks(n) \cup touched <=> b \in Blocks(Larger(end, n))
  <2>1. b * BlockSize \in Nat /\ BlockSize \in Nat \ {0}
    BY BlockSizeType, BlockOrder
  <2>2. b \in Blocks(n) <=> b * BlockSize < n
    BY DEF Blocks
  <2>3. b \in Blocks(Larger(end, n)) <=> b * BlockSize < end \/ b * BlockSize < n
    BY <2>1 DEF Blocks, Larger
  <2>4. ~(b * BlockSize < n) => begin < b * BlockSize + BlockSize
    BY <2>1
  <2>5. QED
    BY <1>3, <2>2, <2>3, <2>4
<1>6. Blocks(n) \cup touched = Blocks(Larger(end, n))
  BY <1>4, <1>5 DEF Blocks
<1>7. QED
  BY <1>3, <1>4, <1>6 DEF touched

\* One block after set_value: as long as it must be, with the new bytes where
\* data goes and the old ones elsewhere, and nothing that was never written.
LEMMA BlockWritten ==
  ASSUME NEW f, NEW n \in Nat, FileOK(f, n), NEW begin \in 0..n,
         NEW data \in Seq(Nat), NEW end \in Nat, end = begin + Len(data),
         NEW b \in Nat, begin < b * BlockSize + BlockSize, b * BlockSize < end
  PROVE  LET new == Overlay(Block(f, b), b, begin, data)
         IN /\ new \in Seq(Nat) /\ Len(new) = BlockLength(b, Larger(end, n))
            /\ \A i \in 1..Len(new) :
                 new[i] = IF begin < b * BlockSize + i /\ b * BlockSize + i <= end
                          THEN data[b * BlockSize + i - begin] ELSE f[b][i]
<1> DEFINE s == b * BlockSize
           old == Block(f, b)
           length == Larger(Smaller(end, s + BlockSize) - s, Len(old))
           new == Overlay(old, b, begin, data)
<1>1. s \in Nat /\ BlockSize \in Nat \ {0} /\ begin \in Nat /\ begin <= n
  BY BlockSizeType, BlockOrder
<1>2. new = [i \in 1..length |->
               IF begin < s + i /\ s + i <= end THEN data[s + i - begin]
               ELSE IF i <= Len(old) THEN old[i] ELSE Junk]
  BY DEF Overlay
<1>3. /\ Len(old) = IF s < n THEN (IF s + BlockSize <= n THEN BlockSize ELSE n - s) ELSE 0
      /\ old \in Seq(Nat)
      /\ s < n => old = f[b]
  <2>1. CASE s < n
    <3>1. b \in Blocks(n)
      BY <2>1 DEF Blocks
    <3>2. b \in DOMAIN f /\ f[b] \in Seq(Nat) /\ Len(f[b]) = BlockLength(b, n)
      BY <3>1 DEF FileOK
    <3>3. QED
      BY <2>1, <3>2 DEF BlockLength, Block
  <2>2. CASE ~(s < n)
    <3>1. b \notin Blocks(n)
      BY <2>2 DEF Blocks
    <3>2. b \notin DOMAIN f
      BY <3>1 DEF FileOK
    <3>3. old = <<>>
      BY <3>2 DEF Block
    <3>4. QED
      BY <2>2, <3>3
  <2>3. QED
    BY <2>1, <2>2
<1>4. begin < s + BlockSize /\ s < end
  OBVIOUS
<1>5. BlockLength(b, Larger(end, n)) = IF s + BlockSize <= Larger(end, n) THEN BlockSize
                                       ELSE Larger(end, n) - s
  BY DEF BlockLength
<1>6. Len(data) \in Nat
  BY LenProperties
<1> HIDE DEF s, old, new
<1>7. length = BlockLength(b, Larger(end, n)) /\ length \in Nat
  <2>1. CASE s < n
    <3>1. CASE s + BlockSize <= Larger(end, n)
      <4>1. CASE s + BlockSize <= n
        <5>1. Len(old) = BlockSize
          BY <1>1, <1>3, <2>1, <4>1
        <5>2. Smaller(end, s + BlockSize) - s \in Int /\ Smaller(end, s + BlockSize) - s <= BlockSize
          BY <1>1 DEF Smaller
        <5>3. length = BlockSize
          BY <1>1, <5>1, <5>2 DEF Larger
        <5>4. QED
          BY <1>1, <1>5, <3>1, <5>3
      <4>2. CASE ~(s + BlockSize <= n)
        <5>1. s + BlockSize <= end /\ Len(old) = n - s
          BY <1>1, <1>3, <2>1, <3>1, <4>2 DEF Larger
        <5>2. Smaller(end, s + BlockSize) - s = BlockSize
          BY <1>1, <5>1 DEF Smaller
        <5>3. QED
          BY <1>1, <1>5, <2>1, <3>1, <4>2, <5>1, <5>2 DEF Larger
      <4>3. QED
        BY <4>1, <4>2
    <3>2. CASE ~(s + BlockSize <= Larger(end, n))
      <4>1. end < s + BlockSize /\ n < s + BlockSize
        BY <1>1, <3>2 DEF Larger
      <4>2. Len(old) = n - s /\ Smaller(end, s + BlockSize) - s = end - s
        BY <1>1, <1>3, <2>1, <4>1 DEF Smaller
      <4>3. QED
        BY <1>1, <1>4, <1>5, <2>1, <3>2, <4>2 DEF Larger
    <3>3. QED
      BY <3>1, <3>2
  <2>2. CASE ~(s < n)
    <3>1. Len(old) = 0 /\ n <= s /\ n < end
      BY <1>1, <1>3, <1>4, <2>2
    <3>2. Larger(end, n) = end /\ length = Smaller(end, s + BlockSize) - s
      BY <1>1, <1>4, <3>1 DEF Larger, Smaller
    <3>3. QED
      BY <1>1, <1>4, <1>5, <3>2 DEF Smaller
  <2>3. QED
    BY <2>1, <2>2
<1>8. ASSUME NEW i \in 1..length
      PROVE  /\ begin < s + i /\ s + i <= end => s + i - begin \in 1..Len(data)
             /\ ~(begin < s + i /\ s + i <= end) => i \in 1..Len(old) /\ s < n
  <2>1. i \in Nat /\ 1 <= i /\ i <= length /\ Len(old) \in Nat
    BY <1>3, <1>7, LenProperties
  <2>2. begin < s + i /\ s + i <= end => s + i - begin \in 1..Len(data)
    BY <1>1, <1>6, <2>1
  <2>3. CASE ~(begin < s + i)
    <3>1. s + i <= n /\ i <= BlockSize
      BY <1>1, <1>4, <2>1, <2>3
    <3>2. QED
      BY <1>1, <1>3, <2>1, <2>3, <3>1
  <2>4. CASE ~(s + i <= end)
    <3>1. Smaller(end, s + BlockSize) - s < i
      BY <1>1, <2>1, <2>4 DEF Smaller
    <3>2. i <= Len(old)
      BY <1>1, <2>1, <3>1 DEF Larger, Smaller
    <3>3. s < n
      BY <1>1, <1>3, <2>1, <3>2
    <3>4. QED
      BY <2>1, <2>4, <3>2, <3>3
  <2>5. QED
    BY <2>2, <2>3, <2>4
<1> HIDE DEF length
<1>9. ASSUME NEW i \in 1..length
      PROVE  /\ new[i] = IF begin < s + i /\ s + i <= end THEN data[s + i - begin] ELSE f[b][i]
             /\ new[i] \in Nat
  <2>1. new[i] = IF begin < s + i /\ s + i <= end THEN data[s + i - begin]
                 ELSE IF i <= Len(old) THEN old[i] ELSE Junk
    BY <1>2
  <2>2. CASE begin < s + i /\ s + i <= end
    BY <1>8, <2>1, <2>2, ElementOfSeq
  <2>3. CASE ~(begin < s + i /\ s + i <= end)
    <3>1. i \in 1..Len(old) /\ old = f[b]
      BY <1>3, <1>8, <2>3
    <3>2. i <= Len(old)
      BY <3>1
    <3>3. old[i] \in Nat
      BY <1>3, <3>1, ElementOfSeq
    <3>4. QED
      BY <2>1, <2>3, <3>1, <3>2, <3>3
  <2>4. QED
    BY <2>2, <2>3
<1>10. new \in [1..length -> Nat]
  BY <1>2, <1>9
<1>11. new \in Seq(Nat) /\ Len(new) = length
  BY <1>7, <1>10
<1>12. new \in Seq(Nat) /\ Len(new) = BlockLength(b, Larger(end, n))
  BY <1>7, <1>11
<1>13. \A i \in 1..Len(new) :
         new[i] = IF begin < s + i /\ s + i <= end THEN data[s + i - begin] ELSE f[b][i]
  BY <1>9, <1>11
<1>14. QED
  BY <1>12, <1>13 DEF s, old, new

\* set_value keeps the blocks in order, and the contents change as FileStore
\* says: data from begin, the rest as it was.
LEMMA SetValueSplices ==
  ASSUME NEW f, NEW n \in Nat, FileOK(f, n), NEW begin \in 0..n,
         NEW data \in Seq(Nat), data # <<>>
  PROVE  LET size == Larger(begin + Len(data), n)
             g == SetValue(f, begin, data)
         IN /\ size \in Nat
            /\ FileOK(g, size)
            /\ Bytes(g, size) = FS!Splice(Bytes(f, n), begin, data)
<1> DEFINE end == begin + Len(data)
           size == Larger(end, n)
           g == SetValue(f, begin, data)
           touched == (begin \div BlockSize)..((end - 1) \div BlockSize)
<1>1. Len(data) \in Nat \ {0} /\ begin \in Nat
  BY LenProperties, EmptySeq
<1>2. end \in Nat /\ begin < end /\ size \in Nat
  BY <1>1 DEF Larger
<1>3. begin + Len(data) - 1 = end - 1
  OBVIOUS
<1> HIDE DEF end
<1>4. /\ touched \subseteq Nat
      /\ \A b \in Nat : b \in touched <=>
           begin < b * BlockSize + BlockSize /\ b * BlockSize < end
      /\ Blocks(n) \cup touched = Blocks(size)
  BY <1>2, TouchedBlocks
<1>5. DOMAIN f = Blocks(n)
  BY DEF FileOK
<1>6. g = [b \in Blocks(size) |->
             IF b \in touched THEN Overlay(Block(f, b), b, begin, data) ELSE f[b]]
  BY <1>3, <1>4, <1>5 DEF SetValue
<1> HIDE DEF touched, g
<1>7. ASSUME NEW b \in touched
      PROVE  /\ g[b] \in Seq(Nat) /\ Len(g[b]) = BlockLength(b, size)
             /\ \A i \in 1..Len(g[b]) :
                  g[b][i] = IF begin < b * BlockSize + i /\ b * BlockSize + i <= end
                            THEN data[b * BlockSize + i - begin] ELSE f[b][i]
  <2>1. b \in Nat /\ b \in Blocks(size)
    BY <1>4
  <2>2. begin < b * BlockSize + BlockSize /\ b * BlockSize < end
    BY <1>4, <2>1
  <2>3. g[b] = Overlay(Block(f, b), b, begin, data)
    BY <1>6, <2>1
  <2>4. end = begin + Len(data) /\ end \in Nat
    BY <1>2 DEF end
  <2> DEFINE new == Overlay(Block(f, b), b, begin, data)
  <2>5. /\ new \in Seq(Nat) /\ Len(new) = BlockLength(b, Larger(end, n))
        /\ \A i \in 1..Len(new) :
             new[i] = IF begin < b * BlockSize + i /\ b * BlockSize + i <= end
                      THEN data[b * BlockSize + i - begin] ELSE f[b][i]
    BY <2>1, <2>2, <2>4, BlockWritten
  <2> HIDE DEF new
  <2>6. g[b] = new /\ size = Larger(end, n)
    BY <2>3 DEF new
  <2> HIDE DEF size
  <2>7. QED
    BY <2>5, <2>6
<1>8. ASSUME NEW b \in Blocks(size), b \notin touched
      PROVE  /\ b \in Blocks(n) /\ g[b] = f[b]
             /\ BlockLength(b, size) = BlockLength(b, n)
             /\ b * BlockSize + BlockSize <= begin \/ end <= b * BlockSize
  <2>1. b \in Blocks(n) /\ g[b] = f[b] /\ b \in Nat
    BY <1>4, <1>6, <1>8 DEF Blocks
  <2>2. b * BlockSize \in Nat /\ BlockSize \in Nat \ {0} /\ b * BlockSize < n
    BY <2>1, BlockSizeType, BlockOrder DEF Blocks
  <2>3. b * BlockSize + BlockSize <= begin \/ end <= b * BlockSize
    BY <1>1, <1>2, <1>4, <1>8, <2>1, <2>2
  <2>4. BlockLength(b, size) = BlockLength(b, n)
    BY <1>1, <1>2, <2>2, <2>3 DEF BlockLength, Larger
  <2>5. QED
    BY <2>1, <2>3, <2>4
<1> HIDE DEF size
<1>9. FileOK(g, size)
  <2>1. ASSUME NEW b \in Blocks(size)
        PROVE  g[b] \in Seq(Nat) /\ Len(g[b]) = BlockLength(b, size)
    <3>1. CASE b \in touched
      BY <1>7, <3>1
    <3>2. CASE b \notin touched
      BY <1>8, <3>2 DEF FileOK
    <3>3. QED
      BY <3>1, <3>2
  <2>2. g = [b \in Blocks(size) |-> g[b]]
    BY <1>6
  <2>3. QED
    BY <2>1, <2>2 DEF FileOK
<1> DEFINE old == Bytes(f, n)
           s == FS!Splice(old, begin, data)
<1>10. old \in Seq(Nat) /\ Len(old) = n /\ \A x \in 1..n :
         old[x] = f[(x - 1) \div BlockSize][((x - 1) % BlockSize) + 1]
  <2>1. \A x \in 1..n : old[x] = f[(x - 1) \div BlockSize][((x - 1) % BlockSize) + 1]
    BY DEF Bytes
  <2>2. QED
    BY <2>1, BytesOfFile
<1>11. /\ s \in Seq(Nat) /\ Len(s) = size
       /\ DOMAIN s = 1..size
       /\ \A x \in 1..size :
            s[x] = IF begin < x /\ x <= end THEN data[x - begin]
                   ELSE IF x <= n THEN old[x] ELSE 0
  <2> HIDE DEF old, s
  <2>1. /\ s \in Seq(Nat) /\ Len(s) = Larger(begin + Len(data), Len(old))
        /\ DOMAIN s = 1..Larger(begin + Len(data), Len(old))
        /\ \A x \in 1..Larger(begin + Len(data), Len(old)) :
             s[x] = IF begin < x /\ x <= begin + Len(data) THEN data[x - begin]
                    ELSE IF x <= Len(old) THEN old[x] ELSE 0
    <3>1. begin \in Nat /\ old \in Seq(Nat)
      BY <1>1, <1>10
    <3>2. QED
      BY ONLY <3>1, data \in Seq(Nat), SpliceIsSeq DEF s
  <2>2. Larger(begin + Len(data), Len(old)) = size /\ begin + Len(data) = end
    BY <1>10 DEF size, end
  <2>3. QED
    BY <1>10, <2>1, <2>2
<1> HIDE DEF old, s
<1>12. ASSUME NEW x \in 1..size PROVE Bytes(g, size)[x] = s[x]
  <2> DEFINE b == (x - 1) \div BlockSize
             i == ((x - 1) % BlockSize) + 1
  <2>1. /\ b \in Blocks(size) /\ i \in 1..Len(g[b]) /\ i \in 1..BlockSize
        /\ x = b * BlockSize + i
    BY <1>2, <1>9, ByteInBlock
  <2>2. Bytes(g, size)[x] = g[b][i]
    BY DEF Bytes
  <2>3. x <= n => old[x] = f[b][i]
    BY <1>10
  <2> HIDE DEF b, i
  <2>4. b * BlockSize \in Nat /\ BlockSize \in Nat \ {0} /\ b \in Nat
    BY <2>1, BlockSizeType, BlockOrder DEF Blocks
  <2>5. b * BlockSize + i - begin = x - begin
    BY <2>1, <2>4
  <2>6. ~(begin < x /\ x <= end) => x <= n
    BY <1>1, <1>2 DEF size, Larger
  <2>7. CASE b \in touched
    <3>1. g[b][i] = IF begin < x /\ x <= end THEN data[x - begin] ELSE f[b][i]
      BY <1>7, <2>1, <2>5, <2>7
    <3>2. QED
      BY <1>11, <2>2, <2>3, <2>6, <3>1
  <2>8. CASE b \notin touched
    <3>1. g[b] = f[b] /\ (b * BlockSize + BlockSize <= begin \/ end <= b * BlockSize)
      BY <1>8, <2>1, <2>8
    <3>2. ~(begin < x /\ x <= end)
      BY <1>1, <1>2, <2>1, <2>4, <3>1
    <3>3. QED
      BY <1>11, <2>2, <2>3, <2>6, <3>1, <3>2
  <2>9. QED
    BY <2>7, <2>8
<1>13. Bytes(g, size) = s
  <2>1. Bytes(g, size) = [x \in 1..size |-> Bytes(g, size)[x]]
    BY DEF Bytes
  <2>2. s = [x \in 1..size |-> s[x]]
    BY <1>2, <1>11
  <2>3. QED
    BY <1>12, <2>1, <2>2
<1>14. QED
  BY <1>2, <1>9, <1>13 DEF size, g, s, old, end

\* key_shorten_value leaves the blocks of the new size, with the contents up to
\* there.
LEMMA ShortenCuts ==
  ASSUME NEW f, NEW size \in Nat, FileOK(f, size), NEW n \in Nat, n < size
  PROVE  /\ FileOK(Shorten(f, n), n)
         /\ Bytes(Shorten(f, n), n) = FS!Resize(Bytes(f, size), n)
<1> DEFINE last == n \div BlockSize
           rest == n % BlockSize
           kept == {b \in DOMAIN f : b < last} \cup (IF rest = 0 THEN {} ELSE {last})
           g == Shorten(f, n)
<1>1. /\ last \in Nat /\ rest \in 0..(BlockSize - 1)
      /\ n = last * BlockSize + rest
  BY Position
<1>2. g = [b \in kept |-> IF b = last
                          THEN [i \in 1..rest |-> IF i <= Len(Block(f, b)) THEN f[b][i] ELSE 0]
                          ELSE f[b]]
  BY DEF Shorten
<1>3. DOMAIN f = Blocks(size) /\ last * BlockSize \in Nat /\ BlockSize \in Nat \ {0}
  BY <1>1, BlockSizeType, BlockOrder DEF FileOK
<1> HIDE DEF last, rest, g
<1>4. ASSUME NEW b \in Nat
      PROVE  /\ b \in Blocks(n) <=> b \in kept
             /\ b \in Blocks(n) => b \in Blocks(size)
  <2>1. /\ b < last <=> b * BlockSize + BlockSize <= last * BlockSize
        /\ last < b <=> last * BlockSize + BlockSize <= b * BlockSize
        /\ b * BlockSize \in Nat
    BY <1>1, BlockOrder
  <2>2. b \in Blocks(n) <=> b * BlockSize < n
    BY DEF Blocks
  <2>3. b \in Blocks(size) <=> b * BlockSize < size
    BY DEF Blocks
  <2>4. CASE b < last
    <3>1. b * BlockSize < n
      BY <1>1, <1>3, <2>1, <2>4
    <3>2. QED
      BY <1>3, <2>1, <2>2, <2>3, <2>4, <3>1
  <2>5. CASE last < b
    <3>1. ~(b * BlockSize < n)
      BY <1>1, <1>3, <2>1, <2>5
    <3>2. b \notin kept
      BY <1>1, <2>5
    <3>3. QED
      BY <2>2, <3>1, <3>2
  <2>6. CASE b = last
    <3>1. b * BlockSize < n <=> rest # 0
      BY <1>1, <1>3, <2>6
    <3>2. b \in kept <=> rest # 0
      BY <1>1, <2>6
    <3>3. QED
      BY <2>1, <2>2, <2>3, <3>1, <3>2
  <2>7. QED
    BY <1>1, <2>4, <2>5, <2>6
<1>5. kept = Blocks(n)
  <2>1. kept \subseteq Nat /\ Blocks(n) \subseteq Nat
    BY <1>1, <1>3 DEF Blocks
  <2>2. QED
    BY <1>4, <2>1
<1> HIDE DEF kept
<1>6. ASSUME NEW b \in Blocks(n)
      PROVE  /\ g[b] \in Seq(Nat) /\ Len(g[b]) = BlockLength(b, n)
             /\ \A i \in 1..Len(g[b]) : g[b][i] = f[b][i]
  <2>1. b \in Nat /\ b * BlockSize < n /\ b * BlockSize \in Nat
    BY BlockOrder DEF Blocks
  <2>2. f[b] \in Seq(Nat) /\ Len(f[b]) = BlockLength(b, size) /\ b \in DOMAIN f
    BY <1>3, <1>4, <2>1 DEF FileOK
  <2>3. /\ b < last <=> b * BlockSize + BlockSize <= last * BlockSize
        /\ last < b <=> last * BlockSize + BlockSize <= b * BlockSize
    BY <1>1, <2>1, BlockOrder
  <2>4. CASE b = last
    <3>1. g[b] = [i \in 1..rest |-> IF i <= Len(Block(f, b)) THEN f[b][i] ELSE 0]
      BY <1>2, <1>5, <2>4
    <3>2. Block(f, b) = f[b]
      BY <2>2 DEF Block
    <3>3. rest <= Len(f[b]) /\ rest \in Nat
      BY <1>1, <1>3, <2>1, <2>2, <2>4 DEF BlockLength
    <3>4. BlockLength(b, n) = rest
      BY <1>1, <1>3, <2>1, <2>4 DEF BlockLength
    <3>5. Len(f[b]) \in Nat
      BY <2>2, LenProperties
    <3>6. \A i \in 1..rest : i <= Len(f[b]) /\ f[b][i] \in Nat
      BY <2>2, <3>3, <3>5, ElementOfSeq
    <3>7. g[b] \in [1..rest -> Nat] /\ \A i \in 1..rest : g[b][i] = f[b][i]
      BY <3>1, <3>2, <3>6
    <3>8. g[b] \in Seq(Nat) /\ Len(g[b]) = rest
      BY <3>3, <3>7
    <3>9. QED
      BY <3>4, <3>7, <3>8
  <2>5. CASE b # last
    <3>1. g[b] = f[b]
      BY <1>2, <1>5, <2>5
    <3>2. b < last
      BY <1>1, <1>3, <2>1, <2>3, <2>5
    <3>3. b * BlockSize + BlockSize <= n
      BY <1>1, <1>3, <2>1, <2>3, <3>2
    <3>4. BlockLength(b, size) = BlockLength(b, n)
      BY <1>3, <2>1, <3>3 DEF BlockLength
    <3>5. QED
      BY <2>2, <3>1, <3>4
  <2>6. QED
    BY <2>4, <2>5
<1>7. FileOK(g, n)
  <2>1. g = [b \in Blocks(n) |-> g[b]]
    BY <1>2, <1>5
  <2>2. QED
    BY <1>6, <2>1 DEF FileOK
<1> DEFINE old == Bytes(f, size)
<1>8. old \in Seq(Nat) /\ Len(old) = size
  BY BytesOfFile
<1>9. ASSUME NEW x \in 1..n PROVE Bytes(g, n)[x] = old[x]
  <2> DEFINE b == (x - 1) \div BlockSize
             i == ((x - 1) % BlockSize) + 1
  <2>1. b \in Blocks(n) /\ i \in 1..Len(g[b])
    BY <1>7, ByteInBlock
  <2>2. x \in 1..size
    OBVIOUS
  <2>3. Bytes(g, n)[x] = g[b][i] /\ old[x] = f[b][i]
    BY <2>2 DEF Bytes
  <2> HIDE DEF b, i, old
  <2>4. QED
    BY <1>6, <2>1, <2>3
<1>10. FS!Resize(old, n) = [x \in 1..n |-> old[x]]
  <2> HIDE DEF old
  <2> DEFINE z == FS!Zeros(n)
  <2>1. z \in Seq(Nat) /\ Len(z) = n
    BY DEF FS!Zeros
  <2>2. FS!Resize(old, n) = SubSeq(old \o z, 1, n)
    BY DEF FS!Resize
  <2> HIDE DEF z
  <2>3. /\ old \o z \in Seq(Nat) /\ Len(old \o z) = size + n
        /\ \A x \in 1..(size + n) : (old \o z)[x] = IF x <= size THEN old[x] ELSE z[x - size]
    BY <1>8, <2>1, ConcatProperties
  <2>4. \A x \in 1..n : (old \o z)[x] = old[x]
    BY <2>3
  <2>5. SubSeq(old \o z, 1, n) = [x \in 1..n |-> (old \o z)[x]]
    BY <2>3
  <2>6. QED
    BY <2>2, <2>4, <2>5
<1>11. Bytes(g, n) = [x \in 1..n |-> Bytes(g, n)[x]]
  BY DEF Bytes
<1>12. QED
  BY <1>7, <1>9, <1>10, <1>11 DEF g

-----------------------------------------------------------------------------
(* Contents as sequences.                                                  *)

\* Data written into an empty file is its contents.
LEMMA SpliceIntoEmpty ==
  ASSUME NEW data \in Seq(Nat)
  PROVE  FS!Splice(<<>>, 0, data) = data
<1> DEFINE old == <<>>
           off == 0
           s == FS!Splice(old, off, data)
<1>1. old \in Seq(Nat) /\ Len(old) = 0 /\ off \in Nat /\ off = 0 /\ Len(data) \in Nat
  BY LenProperties
<1> HIDE DEF old, off
<1>2. /\ s \in Seq(Nat) /\ Len(s) = Larger(off + Len(data), Len(old))
      /\ \A x \in 1..Larger(off + Len(data), Len(old)) :
           s[x] = IF off < x /\ x <= off + Len(data) THEN data[x - off]
                  ELSE IF x <= Len(old) THEN old[x] ELSE 0
  BY <1>1, SpliceIsSeq
<1> HIDE DEF s
<1>3. Larger(off + Len(data), Len(old)) = Len(data)
  BY <1>1 DEF Larger
<1>4. ASSUME NEW x \in 1..Len(data) PROVE s[x] = data[x]
  <2>1. off < x /\ x <= off + Len(data) /\ x - off = x
    BY <1>1
  <2>2. s[x] = data[x - off]
    BY <1>2, <1>3, <2>1
  <2>3. QED
    BY <2>1, <2>2
<1>5. s = data
  BY <1>2, <1>3, <1>4, SeqEqual
<1>6. QED
  BY <1>5 DEF s, old, off

\* Zeros up to the offset and then the data, written at the end, are a write at
\* the offset.
LEMMA SpliceOverGap ==
  ASSUME NEW old \in Seq(Nat), NEW off \in Nat, Len(old) < off, NEW data \in Seq(Nat)
  PROVE  FS!Splice(old, Len(old), Zeros(off - Len(old)) \o data) = FS!Splice(old, off, data)
<1> DEFINE n == Len(old)
           z == Zeros(off - n)
           zd == z \o data
           s == FS!Splice(old, n, zd)
           t == FS!Splice(old, off, data)
<1>1. n \in Nat /\ Len(data) \in Nat /\ off - n \in Nat
  BY LenProperties
<1>2. z \in Seq(Nat) /\ Len(z) = off - n /\ \A x \in 1..(off - n) : z[x] = 0
  BY <1>1, LengthsOfData DEF Zeros
<1> HIDE DEF n, z
<1>3. /\ zd \in Seq(Nat) /\ Len(zd) = off - n + Len(data)
      /\ \A x \in 1..(off - n + Len(data)) :
           zd[x] = IF x <= off - n THEN z[x] ELSE data[x - (off - n)]
  <2>1. /\ zd \in Seq(Nat) /\ Len(zd) = Len(z) + Len(data)
        /\ \A x \in 1..(Len(z) + Len(data)) :
             zd[x] = IF x <= Len(z) THEN z[x] ELSE data[x - Len(z)]
    BY <1>2, ConcatProperties
  <2> HIDE DEF zd
  <2>2. QED
    BY <1>2, <2>1
<1> HIDE DEF zd
<1>4. /\ s \in Seq(Nat) /\ Len(s) = Larger(n + Len(zd), n)
      /\ \A x \in 1..Larger(n + Len(zd), n) :
           s[x] = IF n < x /\ x <= n + Len(zd) THEN zd[x - n]
                  ELSE IF x <= n THEN old[x] ELSE 0
  BY <1>1, <1>3, SpliceIsSeq DEF n
<1>5. /\ t \in Seq(Nat) /\ Len(t) = Larger(off + Len(data), n)
      /\ \A x \in 1..Larger(off + Len(data), n) :
           t[x] = IF off < x /\ x <= off + Len(data) THEN data[x - off]
                  ELSE IF x <= n THEN old[x] ELSE 0
  BY <1>1, SpliceIsSeq DEF n
<1> HIDE DEF s, t
<1>6. n < off
  BY DEF n
<1>7. Larger(n + Len(zd), n) = off + Len(data) /\ Larger(off + Len(data), n) = off + Len(data)
  BY <1>1, <1>3, <1>6 DEF Larger
<1>8. ASSUME NEW x \in 1..(off + Len(data)) PROVE s[x] = t[x]
  <2>1. n + Len(zd) = off + Len(data) /\ x <= off + Len(data)
    BY <1>1, <1>3
  <2>0. /\ s[x] = IF n < x /\ x <= n + Len(zd) THEN zd[x - n]
                   ELSE IF x <= n THEN old[x] ELSE 0
        /\ t[x] = IF off < x /\ x <= off + Len(data) THEN data[x - off]
                   ELSE IF x <= n THEN old[x] ELSE 0
    BY <1>4, <1>5, <1>7
  <2>2. CASE x <= n
    BY <1>1, <1>6, <2>0, <2>2
  <2>3. CASE n < x /\ x <= off
    <3>1. x - n \in 1..(off - n) /\ x - n \in 1..(off - n + Len(data))
      BY <1>1, <1>6, <2>3
    <3>2. zd[x - n] = 0
      BY <1>2, <1>3, <3>1
    <3>3. QED
      BY <1>1, <1>6, <2>0, <2>1, <2>3, <3>2
  <2>4. CASE off < x
    <3>1. x - n \in 1..(off - n + Len(data)) /\ ~(x - n <= off - n)
      BY <1>1, <1>6, <2>1, <2>4
    <3>2. x - n - (off - n) = x - off
      BY <1>1
    <3>3. zd[x - n] = data[x - off]
      BY <1>3, <3>1, <3>2
    <3>4. n < x
      BY <1>1, <1>6, <2>4
    <3>5. QED
      BY <2>0, <2>1, <2>4, <3>3, <3>4
  <2>5. QED
    BY <1>1, <2>2, <2>3, <2>4
<1>9. s = t
  BY <1>4, <1>5, <1>7, <1>8, SeqEqual
<1>10. QED
  BY <1>9 DEF s, t, zd, z, n

\* A file that grows gets zeros behind its end.
LEMMA SpliceToGrow ==
  ASSUME NEW old \in Seq(Nat), NEW n \in Nat, Len(old) <= n
  PROVE  FS!Splice(old, Len(old), Zeros(n - Len(old))) = FS!Resize(old, n)
<1> DEFINE k == Len(old)
           z == Zeros(n - k)
           s == FS!Splice(old, k, z)
           y == FS!Zeros(n)
           t == SubSeq(old \o y, 1, n)
<1>1. k \in Nat /\ n - k \in Nat
  BY LenProperties
<1>2. z \in Seq(Nat) /\ Len(z) = n - k /\ \A x \in 1..(n - k) : z[x] = 0
  BY <1>1, LengthsOfData DEF Zeros
<1>3. y \in Seq(Nat) /\ Len(y) = n /\ \A x \in 1..n : y[x] = 0
  BY DEF FS!Zeros
<1> HIDE DEF z, y, k
<1>4. /\ old \o y \in Seq(Nat) /\ Len(old \o y) = k + n
      /\ \A x \in 1..(k + n) : (old \o y)[x] = IF x <= k THEN old[x] ELSE y[x - k]
  BY <1>3, ConcatProperties DEF k
<1>5. t \in Seq(Nat) /\ Len(t) = n /\ \A x \in 1..n : t[x] = (old \o y)[x]
  <2> DEFINE oy == old \o y
  <2>1. oy \in Seq(Nat) /\ Len(oy) = k + n
    BY <1>4
  <2> HIDE DEF oy
  <2>2. SubSeq(oy, 1, n) = [x \in 1..n |-> oy[x]]
    BY <1>1, <2>1
  <2>3. \A x \in 1..n : oy[x] \in Nat
    BY <1>1, <2>1, ElementOfSeq
  <2> DEFINE u == SubSeq(oy, 1, n)
  <2>4. u \in [1..n -> Nat] /\ \A x \in 1..n : u[x] = oy[x]
    BY <2>2, <2>3
  <2> HIDE DEF u
  <2>5. u \in Seq(Nat) /\ Len(u) = n
    BY <2>4
  <2>6. QED
    BY <2>4, <2>5 DEF oy, u
<1>6. k <= n /\ k + (n - k) = n /\ Larger(n, k) = n
  BY <1>1 DEF k, Larger
<1>7. /\ s \in Seq(Nat) /\ Len(s) = Larger(k + Len(z), k)
      /\ \A x \in 1..Larger(k + Len(z), k) :
           s[x] = IF k < x /\ x <= k + Len(z) THEN z[x - k]
                  ELSE IF x <= k THEN old[x] ELSE 0
  BY <1>1, <1>2, SpliceIsSeq DEF k
<1> HIDE DEF s, t
<1>8. ASSUME NEW x \in 1..n PROVE s[x] = t[x]
  <2>1. x \in 1..(k + n)
    BY <1>1
  <2>2. t[x] = IF x <= k THEN old[x] ELSE y[x - k]
    BY <1>4, <1>5, <2>1
  <2>3. s[x] = IF k < x /\ x <= n THEN z[x - k] ELSE IF x <= k THEN old[x] ELSE 0
    BY <1>2, <1>6, <1>7
  <2>4. CASE x <= k
    BY <1>1, <2>2, <2>3, <2>4
  <2>5. CASE k < x
    <3>1. x - k \in 1..(n - k) /\ x - k \in 1..n
      BY <1>1, <2>5
    <3>2. QED
      BY <1>1, <1>2, <1>3, <2>2, <2>3, <2>5, <3>1
  <2>6. QED
    BY <1>1, <2>4, <2>5
<1>9. s = t
  <2>1. Len(s) = n
    BY <1>2, <1>6, <1>7
  <2>2. QED
    BY <1>5, <1>7, <1>8, <2>1, SeqEqual
<1>10. QED
  BY <1>9 DEF s, t, z, k, y, FS!Resize

-----------------------------------------------------------------------------
(* The tables as a tree of files.                                          *)

\* The blocks of every path fit its size.
Filled(m, r) == \A q \in Path : FileOK(r[q], m[q].size)

\* The files that the tables stand for.
Nodes(m, r) == [q \in Path |-> [type |-> m[q].type, data |-> GetValue(r[q], 0, m[q].size)]]

\* The contents of a path are its blocks.
LEMMA NodeOfPath ==
  ASSUME NEW m, NEW r, Sound(m, r), Filled(m, r), NEW q \in Path
  PROVE  /\ Nodes(m, r)[q] = [type |-> m[q].type, data |-> Bytes(r[q], m[q].size)]
         /\ Nodes(m, r)[q].type = m[q].type
         /\ Nodes(m, r)[q].data \in Seq(Nat) /\ Len(Nodes(m, r)[q].data) = m[q].size
<1>1. m[q].size \in Nat /\ FileOK(r[q], m[q].size)
  BY DEF Sound, Filled
<1>2. GetValue(r[q], 0, m[q].size) = Bytes(r[q], m[q].size)
  BY <1>1, ReadWhole
<1>3. Nodes(m, r)[q] = [type |-> m[q].type, data |-> Bytes(r[q], m[q].size)]
  BY <1>2 DEF Nodes
<1>4. Bytes(r[q], m[q].size) \in Seq(Nat) /\ Len(Bytes(r[q], m[q].size)) = m[q].size
  BY <1>1, BytesOfFile
<1>5. QED
  BY <1>3, <1>4

\* A file of size zero has no blocks.
LEMMA EmptyFile == FileOK(NoBlocks, 0) /\ Bytes(NoBlocks, 0) = <<>>
<1>1. Blocks(0) = {}
  BY BlockOrder DEF Blocks
<1>2. NoBlocks = [b \in {} |-> NoBlocks[b]]
  BY DEF NoBlocks
<1>3. FileOK(NoBlocks, 0)
  BY <1>1, <1>2 DEF FileOK
<1>4. Bytes(NoBlocks, 0) \in Seq(Nat) /\ Len(Bytes(NoBlocks, 0)) = 0
  BY <1>3, BytesOfFile
<1>5. QED
  BY <1>3, <1>4, EmptySeq

\* A node whose entry and blocks are of size zero has no contents.
LEMMA EmptyNode ==
  ASSUME NEW m, NEW r, NEW q \in Path, m[q].size = 0, r[q] = NoBlocks
  PROVE  /\ FileOK(r[q], m[q].size)
         /\ Nodes(m, r)[q] = [type |-> m[q].type, data |-> <<>>]
BY EmptyFile, ReadWhole DEF Nodes

\* A path without a row is an absent file.
LEMMA AbsentNode ==
  ASSUME NEW m, NEW r, Sound(m, r), NEW q \in Path, m[q].type = "none"
  PROVE  Nodes(m, r)[q] = FS!Absent
<1>1. m[q].size = 0 /\ r[q] = NoBlocks
  BY DEF Sound
<1>2. QED
  BY <1>1, EmptyNode DEF FS!Absent

\* A path with a row is a file that is there.
LEMMA PresentNode ==
  ASSUME NEW m, NEW r, NEW q \in Path, m[q].type # "none"
  PROVE  Nodes(m, r)[q] # FS!Absent
<1>1. Nodes(m, r)[q].type = m[q].type /\ FS!Absent.type = "none"
  BY DEF Nodes, FS!Absent
<1>2. QED
  BY <1>1

\* The rows that check_parent_write leaves.
LEMMA ParentEntries ==
  ASSUME NEW m, NEW p \in Path
  PROVE  /\ \A q \in Missing(m, p) : WithParents(m, p)[q] = Entry("dir", 0)
         /\ \A q \in Path \ Missing(m, p) : WithParents(m, p)[q] = m[q]
<1>1. CASE Missing(m, p) = {}
  BY <1>1 DEF WithParents
<1>2. CASE Missing(m, p) # {}
  <2>1. WithParents(m, p) = [q \in Path |-> IF q \in Missing(m, p) THEN Entry("dir", 0) ELSE m[q]]
    BY <1>2 DEF WithParents
  <2>2. \A q \in Missing(m, p) : q \in Path
    BY AboveIsPrefix DEF Missing
  <2>3. QED
    BY <2>1, <2>2
<1>3. QED
  BY <1>1, <1>2

\* check_parent_write adds empty directories where FileStore has nothing.
LEMMA ParentsInFiles ==
  ASSUME NEW m, NEW r, Sound(m, r), Filled(m, r), NEW p \in Path
  PROVE  LET w == WithParents(m, p)
         IN /\ Filled(w, r)
            /\ Nodes(w, r) = [q \in Path |-> IF q \in Missing(m, p) THEN FS!Directory
                                             ELSE Nodes(m, r)[q]]
            /\ \A q \in Missing(m, p) : q \in Above(p) /\ Nodes(m, r)[q] = FS!Absent
<1> DEFINE w == WithParents(m, p)
<1>1. \A q \in Missing(m, p) : q \in Above(p) /\ q \in Path /\ m[q].type = "none"
  BY ParentsAdded, AboveIsPrefix
<1>2. \A q \in Missing(m, p) : Nodes(m, r)[q] = FS!Absent
  <2> SUFFICES ASSUME NEW q \in Missing(m, p) PROVE Nodes(m, r)[q] = FS!Absent
    OBVIOUS
  <2>1. q \in Path /\ m[q].type = "none"
    BY <1>1
  <2>2. QED
    BY <2>1, AbsentNode
<1>3. \A q \in Missing(m, p) : w[q] = Entry("dir", 0)
  BY ParentEntries
<1>4. \A q \in Path \ Missing(m, p) : w[q] = m[q]
  BY ParentEntries
<1> HIDE DEF w
<1>5. ASSUME NEW q \in Path
      PROVE  /\ FileOK(r[q], w[q].size)
             /\ Nodes(w, r)[q] = IF q \in Missing(m, p) THEN FS!Directory ELSE Nodes(m, r)[q]
  <2>1. CASE q \in Missing(m, p)
    <3>1. w[q].size = 0 /\ w[q].type = "dir"
      BY <1>3, <2>1 DEF Entry
    <3>2. r[q] = NoBlocks
      BY <1>1, <2>1 DEF Sound
    <3>3. QED
      BY <2>1, <3>1, <3>2, EmptyNode DEF FS!Directory
  <2>2. CASE q \notin Missing(m, p)
    <3>1. w[q] = m[q]
      BY <1>4, <2>2
    <3>2. QED
      BY <2>2, <3>1 DEF Nodes, Filled
  <2>3. QED
    BY <2>1, <2>2
<1>6. Nodes(w, r) = [q \in Path |-> Nodes(w, r)[q]]
  BY DEF Nodes
<1>7. Filled(w, r)
  BY <1>5 DEF Filled
<1>8. QED
  BY <1>1, <1>2, <1>5, <1>6, <1>7 DEF w

\* A new row is a new, empty node.
LEMMA NodeInFiles ==
  ASSUME NEW m, NEW r, Sound(m, r), Filled(m, r), NEW p \in Path, m[p].type = "none",
         NEW type \in Kind \ {"none"}
  PROVE  LET n == [m EXCEPT ![p] = Entry(type, 0)]
         IN /\ Filled(n, r)
            /\ Nodes(n, r) = [Nodes(m, r) EXCEPT ![p] = [type |-> type, data |-> <<>>]]
<1> DEFINE n == [m EXCEPT ![p] = Entry(type, 0)]
<1>1. m \in [Path -> [type : Kind, size : Nat]] /\ r[p] = NoBlocks
  BY DEF Sound
<1>2. n[p] = Entry(type, 0) /\ \A q \in Path : q # p => n[q] = m[q]
  BY <1>1
<1>3. n[p].type = type /\ n[p].size = 0
  BY <1>2 DEF Entry
<1> HIDE DEF n
<1>4. FileOK(r[p], n[p].size) /\ Nodes(n, r)[p] = [type |-> type, data |-> <<>>]
  BY <1>1, <1>3, EmptyNode
<1>5. \A q \in Path : q # p => Nodes(n, r)[q] = Nodes(m, r)[q]
  BY <1>2 DEF Nodes
<1>6. Filled(n, r)
  BY <1>2, <1>4 DEF Filled
<1>7. /\ Nodes(n, r) = [q \in Path |-> Nodes(n, r)[q]]
      /\ Nodes(m, r) = [q \in Path |-> Nodes(m, r)[q]]
  BY DEF Nodes
<1>8. Nodes(n, r) = [Nodes(m, r) EXCEPT ![p] = [type |-> type, data |-> <<>>]]
  BY <1>4, <1>5, <1>7
<1>9. QED
  BY <1>6, <1>8 DEF n

\* A change of the size and the blocks of a path is one of its contents.
LEMMA ContentsChange ==
  ASSUME NEW m, Sound(m, rows), Filled(m, rows), NEW p \in Path, NEW n \in Nat, NEW f,
         FileOK(f, n),
         meta' = [m EXCEPT ![p].size = n], rows' = [rows EXCEPT ![p] = f]
  PROVE  /\ Filled(meta', rows')
         /\ Nodes(meta', rows') = [Nodes(m, rows) EXCEPT ![p].data = Bytes(f, n)]
<1>1. m \in [Path -> [type : Kind, size : Nat]] /\ rows = [q \in Path |-> rows[q]]
  BY DEF Sound
<1>2. /\ meta'[p].type = m[p].type /\ meta'[p].size = n /\ rows'[p] = f
      /\ \A q \in Path : q # p => meta'[q] = m[q] /\ rows'[q] = rows[q]
  BY <1>1
<1>3. Filled(meta', rows')
  BY <1>2 DEF Filled
<1>4. GetValue(f, 0, n) = Bytes(f, n)
  BY ReadWhole
<1>5. Nodes(meta', rows')[p] = [type |-> m[p].type, data |-> Bytes(f, n)]
  BY <1>2, <1>4 DEF Nodes
<1>6. \A q \in Path : q # p => Nodes(meta', rows')[q] = Nodes(m, rows)[q]
  BY <1>2 DEF Nodes
<1>7. /\ Nodes(meta', rows') = [q \in Path |-> Nodes(meta', rows')[q]]
      /\ Nodes(m, rows) = [q \in Path |-> Nodes(m, rows)[q]]
      /\ Nodes(m, rows)[p] = [type |-> m[p].type, data |-> Nodes(m, rows)[p].data]
  BY DEF Nodes
<1>8. [Nodes(m, rows)[p] EXCEPT !.data = Bytes(f, n)]
      = [type |-> m[p].type, data |-> Bytes(f, n)]
  BY <1>7
<1>9. QED
  BY <1>3, <1>5, <1>6, <1>7, <1>8

\* set_value writes into the contents.
LEMMA PutInFiles ==
  ASSUME NEW m, Sound(m, rows), Filled(m, rows), NEW p \in Path,
         NEW begin \in Nat, begin <= m[p].size, NEW data \in Seq(Nat), data # <<>>,
         Put(m, p, begin, data)
  PROVE  /\ Filled(meta', rows')
         /\ Nodes(meta', rows') =
              [Nodes(m, rows) EXCEPT ![p].data = FS!Splice(Nodes(m, rows)[p].data, begin, data)]
<1> DEFINE n == m[p].size
           size == Larger(begin + Len(data), n)
           g == SetValue(rows[p], begin, data)
<1>1. /\ meta' = [m EXCEPT ![p].size = size]
      /\ rows' = [rows EXCEPT ![p] = g]
  BY DEF Put, Commit, Sound
<1>2. n \in Nat /\ FileOK(rows[p], n)
  BY DEF Sound, Filled
<1>3. begin \in 0..n
  BY <1>2
<1>4. size \in Nat /\ FileOK(g, size) /\ Bytes(g, size) = FS!Splice(Bytes(rows[p], n), begin, data)
  BY <1>2, <1>3, SetValueSplices
<1>5. Nodes(m, rows)[p] = [type |-> m[p].type, data |-> Bytes(rows[p], n)]
  BY NodeOfPath
<1>6. Nodes(m, rows)[p].data = Bytes(rows[p], n)
  BY <1>5
<1> HIDE DEF n, size, g
<1>7. /\ Filled(meta', rows')
      /\ Nodes(meta', rows') = [Nodes(m, rows) EXCEPT ![p].data = Bytes(g, size)]
  BY <1>1, <1>4, ContentsChange
<1>8. QED
  BY <1>4, <1>6, <1>7

\* remove_key makes the paths absent.
LEMMA RemovalInFiles ==
  ASSUME NEW m, Sound(m, rows), Filled(m, rows), NEW D, RemoveKeys(m, D)
  PROVE  /\ Filled(meta', rows')
         /\ Nodes(meta', rows') = [q \in Path |-> IF q \in D THEN FS!Absent
                                                  ELSE Nodes(m, rows)[q]]
<1>1. meta' = [q \in Path |-> IF q \in D THEN NoEntry ELSE m[q]]
  BY DEF RemoveKeys, Commit
<1>2. rows' = [q \in Path |-> IF q \in D THEN NoBlocks ELSE rows[q]]
  BY DEF RemoveKeys, Commit
<1>3. NoEntry.type = "none" /\ NoEntry.size = 0
  BY DEF NoEntry, Entry
<1>4. ASSUME NEW q \in Path
      PROVE  /\ FileOK(rows'[q], meta'[q].size)
             /\ Nodes(meta', rows')[q] = IF q \in D THEN FS!Absent ELSE Nodes(m, rows)[q]
  <2>1. CASE q \in D
    <3>1. meta'[q].type = "none" /\ meta'[q].size = 0 /\ rows'[q] = NoBlocks
      BY <1>1, <1>2, <1>3, <2>1
    <3>2. QED
      BY <2>1, <3>1, EmptyNode DEF FS!Absent
  <2>2. CASE q \notin D
    <3>1. meta'[q] = m[q] /\ rows'[q] = rows[q]
      BY <1>1, <1>2, <2>2
    <3>2. QED
      BY <2>2, <3>1 DEF Nodes, Filled
  <2>3. QED
    BY <2>1, <2>2
<1>5. Nodes(meta', rows') = [q \in Path |-> Nodes(meta', rows')[q]]
  BY DEF Nodes
<1>6. QED
  BY <1>4, <1>5 DEF Filled

-----------------------------------------------------------------------------
(* Steps of the file store.                                                *)

\* Something is above every path but the root.
LEMMA RootIsTop ==
  /\ Root \in Path /\ Above(Root) = {}
  /\ \A p \in Path \ {Root} : Above(p) # {}
<1>1. Root \in Path
  <2>1. Root \in Seq(Name) /\ Len(Root) <= MaxDepth
    BY DepthType DEF Root
  <2>2. QED
    BY <2>1, PathIsSeq
<1>2. Above(Root) = {}
  BY DEF Above, Root
<1>3. ASSUME NEW p \in Path \ {Root} PROVE Above(p) # {}
  <2>1. p \in Seq(Name) /\ p # <<>> /\ Len(p) \in Nat
    BY PathIsSeq, LenProperties DEF Root
  <2>2. Len(p) # 0
    BY <2>1, EmptySeq
  <2>3. 0 \in 0..(Len(p) - 1)
    BY <2>1, <2>2
  <2>4. QED
    BY <2>3 DEF Above
<1>4. QED
  BY <1>1, <1>2, <1>3

\* A change of the tables that changes the files as Create says.
LEMMA CreateStep ==
  ASSUME NEW p \in Path \ {Root}, NEW type, NEW data, Nodes(meta, rows)[p] = FS!Absent,
         NEW D \in SUBSET FS!Missing(p),
         Nodes(meta', rows') = [FS!WithDirs(D) EXCEPT ![p] = [type |-> type, data |-> data]],
         \/ type \in {"dir", "blob"} /\ data = <<>>
         \/ type = "link" /\ data = LinkTarget
         \/ type = "blob" /\ \E w \in Writes : data = FS!Splice(<<>>, w[1], Buffer(w[2]))
         \/ type = "blob" /\ \E w \in Writes : data = Buffer(w[2])
  PROVE  FS!Next
<1>1. FS!Create(p, type, data)
  BY DEF FS!Create, Nodes, Contents
<1>2. QED
  BY <1>1, RootIsTop DEF FS!Next

\* The same for a write.
LEMMA WriteStep ==
  ASSUME NEW p \in Path \ {Root}, NEW off, NEW w \in Writes,
         off = w[1] \/ off = Len(Nodes(meta, rows)[p].data),
         Nodes(meta, rows)[p] # FS!Absent, Nodes(meta, rows)[p].type # "dir",
         Nodes(meta', rows') = [Nodes(meta, rows) EXCEPT
                                  ![p].data = FS!Splice(@, off, Buffer(w[2]))]
  PROVE  FS!Next
<1>1. FS!Write(p, off, Buffer(w[2]))
  BY DEF FS!Write, Nodes, Contents
<1>2. CASE off = w[1]
  BY <1>1, <1>2, RootIsTop DEF FS!Next
<1>3. CASE off = Len(Nodes(meta, rows)[p].data)
  <2>1. FS!Write(p, Len(Nodes(meta, rows)[p].data), Buffer(w[2]))
    BY <1>1, <1>3
  <2>2. QED
    BY <2>1, RootIsTop DEF FS!Next, Nodes, Contents
<1>4. QED
  BY <1>2, <1>3

\* The same for a truncation.
LEMMA TruncateStep ==
  ASSUME NEW p \in Path \ {Root}, NEW n \in Lengths \cup {0},
         Nodes(meta, rows)[p] # FS!Absent, NEW D \in SUBSET FS!Missing(p),
         Nodes(meta', rows') = [FS!WithDirs(D) EXCEPT ![p].data = FS!Resize(@, n)]
  PROVE  FS!Next
<1>1. FS!Truncate(p, n)
  BY DEF FS!Truncate, Nodes, Contents
<1>2. QED
  BY <1>1, RootIsTop DEF FS!Next

\* The same for a removal.
LEMMA RemoveStep ==
  ASSUME NEW p \in Path \ {Root}, NEW D \in SUBSET FS!Missing(p),
         Nodes(meta, rows)[p].type = "dir" =>
           \A q \in Below(p) : Above(q) \ Above(p) = {p} => Nodes(meta, rows)[q] = FS!Absent,
         Nodes(meta', rows') = [FS!WithDirs(D) EXCEPT ![p] = FS!Absent]
  PROVE  FS!Next
<1>1. FS!Remove(p)
  BY DEF FS!Remove, FS!Below, Below, Nodes, Contents
<1>2. QED
  BY <1>1, RootIsTop DEF FS!Next

\* The same for the removal of a tree.
LEMMA RemoveTreeStep ==
  ASSUME NEW p \in Path \ {Root}, NEW D \in SUBSET FS!Missing(p),
         Nodes(meta, rows)[p] # FS!Absent,
         Nodes(meta', rows') = [q \in Path |-> IF q = p \/ q \in Below(p) THEN FS!Absent
                                               ELSE FS!WithDirs(D)[q]]
  PROVE  FS!Next
<1>1. FS!RemoveTree(p)
  BY DEF FS!RemoveTree, FS!Below, Below, Nodes, Contents
<1>2. QED
  BY <1>1, RootIsTop DEF FS!Next

\* The same for a call that is refused, or that changes nothing.
LEMMA RefusedStep ==
  ASSUME NEW p \in Path, NEW q \in Path,
         NEW D \in SUBSET (FS!Missing(p) \cup FS!Missing(q)),
         Nodes(meta', rows') = FS!WithDirs(D)
  PROVE  FS!Next
<1>1. FS!Refused(p, q)
  BY DEF FS!Refused, Nodes, Contents
<1>2. QED
  BY <1>1 DEF FS!Next

\* A call that leaves every node as it is changes nothing in the file store.
LEMMA StutterStep ==
  ASSUME Nodes(meta', rows') = Nodes(meta, rows)
  PROVE  FS!Next
BY DEF FS!Next, Nodes, Contents

\* The same for a rename.
Renames(p, new) ==
  LET files == Nodes(meta, rows)
      isDir == files[p].type = "dir"
      moved == {p} \cup (IF isDir THEN {q \in Below(p) : files[q] # FS!Absent} ELSE {})
      images == {Image(q, p, new) : q \in moved}
  IN /\ files[p] # FS!Absent
     /\ files[new] = FS!Absent \/ ~(isDir \/ files[new].type = "dir")
     /\ p # new
     /\ \E D \in SUBSET (FS!Missing(p) \cup FS!Missing(new)) :
          Nodes(meta', rows') =
            [q \in Path |->
               IF q \in images THEN files[CHOOSE r \in moved : Image(r, p, new) = q]
               ELSE IF q \in moved THEN FS!Absent ELSE FS!WithDirs(D)[q]]

\* A rename is the rename of the file store.
LEMMA RenameStep ==
  ASSUME NEW p \in Path \ {Root}, NEW new \in Path \ ({Root} \cup Below(p)), Renames(p, new)
  PROVE  FS!Next
<1>1. FS!Rename(p, new)
  BY DEF Renames, FS!Rename, FS!Below, Below, Nodes, Contents
<1>2. QED
  BY <1>1, RootIsTop DEF FS!Next, FS!Below, Below

\* The same for a rename that is refused and removes its target.
LEMMA DropTargetStep ==
  ASSUME NEW p \in Path \ {Root}, NEW new \in Path \ ({Root} \cup Below(p)),
         Nodes(meta, rows)[p] # FS!Absent, Nodes(meta, rows)[new] # FS!Absent,
         p = new \/ "dir" \in {Nodes(meta, rows)[p].type, Nodes(meta, rows)[new].type},
         NEW D \in SUBSET (FS!Missing(p) \cup FS!Missing(new)),
         Nodes(meta', rows') = [FS!WithDirs(D) EXCEPT ![new] = FS!Absent]
  PROVE  FS!Next
<1>1. FS!DropTarget(p, new)
  BY DEF FS!DropTarget, Nodes, Contents
<1>2. QED
  BY <1>1, RootIsTop DEF FS!Next, FS!Below, Below

-----------------------------------------------------------------------------
(* The calls.                                                              *)

\* What check_parent_write does to the files: it makes directories that were
\* missing, none of them the path itself.
LEMMA ParentsAreDirs ==
  ASSUME Sound(meta, rows), Filled(meta, rows), NEW p \in Path
  PROVE  LET w == WithParents(meta, p)
             D == Missing(meta, p)
         IN /\ Sound(w, rows) /\ Filled(w, rows)
            /\ D \in SUBSET FS!Missing(p)
            /\ Nodes(w, rows) = FS!WithDirs(D)
            /\ p \notin D /\ w[p] = meta[p] /\ Nodes(w, rows)[p] = Nodes(meta, rows)[p]
<1> DEFINE w == WithParents(meta, p)
           D == Missing(meta, p)
<1>1. Sound(w, rows)
  BY ParentsAdded
<1>2. /\ Filled(w, rows)
      /\ Nodes(w, rows) = [q \in Path |-> IF q \in D THEN FS!Directory ELSE Nodes(meta, rows)[q]]
      /\ \A q \in D : q \in Above(p) /\ Nodes(meta, rows)[q] = FS!Absent
  BY ParentsInFiles
<1>3. p \notin D
  BY <1>2, AboveIsChain
<1>4. w[p] = meta[p]
  <2>1. CASE D = {}
    BY <2>1 DEF WithParents
  <2>2. CASE D # {}
    BY <1>3, <2>2 DEF WithParents
  <2>3. QED
    BY <2>1, <2>2
<1> HIDE DEF w, D
<1>5. \A q \in D : q \in Path
  BY <1>2, AboveIsPrefix
<1>6. D \in SUBSET FS!Missing(p)
  BY <1>2, <1>5 DEF FS!Missing, Nodes, Contents
<1>7. Nodes(w, rows) = FS!WithDirs(D)
  <2>1. FS!WithDirs(D) = [q \in Path |-> IF q \in D THEN FS!Directory ELSE Nodes(meta, rows)[q]]
    BY DEF FS!WithDirs, Nodes, Contents
  <2>2. QED
    BY <1>2, <2>1
<1>8. Nodes(w, rows)[p] = Nodes(meta, rows)[p]
  BY <1>2, <1>3
<1>9. QED
  BY <1>1, <1>2, <1>3, <1>4, <1>6, <1>7, <1>8 DEF w, D

\* A call that ends after check_parent_write.
LEMMA OnlyParents ==
  ASSUME Sound(meta, rows), Filled(meta, rows), NEW p \in Path,
         meta' = WithParents(meta, p), rows' = rows
  PROVE  Filled(meta', rows') /\ FS!Next
<1>1. /\ Filled(meta', rows') /\ Missing(meta, p) \in SUBSET FS!Missing(p)
      /\ Nodes(meta', rows') = FS!WithDirs(Missing(meta, p))
  BY ParentsAreDirs
<1>2. Missing(meta, p) \in SUBSET (FS!Missing(p) \cup FS!Missing(p))
  BY <1>1
<1>3. QED
  BY <1>1, <1>2, RefusedStep

\* A call that ends with the tables as they were.
LEMMA NothingChanged ==
  ASSUME Filled(meta, rows), meta' = meta, rows' = rows
  PROVE  Filled(meta', rows') /\ FS!Next
BY StutterStep

\* A new row, under the directories above it.
LEMMA FreshNode ==
  ASSUME Sound(meta, rows), Filled(meta, rows), NEW p \in Path, ~Exists(meta, p),
         NEW type \in Kind \ {"none"}
  PROVE  LET n == [WithParents(meta, p) EXCEPT ![p] = Entry(type, 0)]
         IN /\ Sound(n, rows) /\ Filled(n, rows)
            /\ n[p].type = type /\ n[p].size = 0
            /\ Nodes(meta, rows)[p] = FS!Absent
            /\ Nodes(n, rows) = [FS!WithDirs(Missing(meta, p)) EXCEPT
                                   ![p] = [type |-> type, data |-> <<>>]]
            /\ Nodes(n, rows)[p] = [type |-> type, data |-> <<>>]
<1> DEFINE w == WithParents(meta, p)
           n == [w EXCEPT ![p] = Entry(type, 0)]
           D == Missing(meta, p)
<1>1. /\ Sound(w, rows) /\ Filled(w, rows) /\ w[p] = meta[p]
      /\ Nodes(w, rows) = FS!WithDirs(D)
  BY ParentsAreDirs
<1> HIDE DEF w, D
<1>2. meta[p].type = "none"
  BY ExistsIsType
<1>3. Nodes(meta, rows)[p] = FS!Absent
  BY <1>2, AbsentNode
<1>4. /\ Sound(n, rows) /\ n[p].type = type
  BY <1>1, <1>2, NodeAdded
<1>5. /\ Filled(n, rows)
      /\ Nodes(n, rows) = [Nodes(w, rows) EXCEPT ![p] = [type |-> type, data |-> <<>>]]
  BY <1>1, <1>2, NodeInFiles
<1>6. w \in [Path -> [type : Kind, size : Nat]]
  BY <1>1 DEF Sound
<1>7. n[p].size = 0
  BY <1>6 DEF Entry
<1>8. Nodes(n, rows)[p] = [type |-> type, data |-> <<>>]
  <2>1. p \in DOMAIN Nodes(w, rows)
    BY DEF Nodes
  <2>2. QED
    BY <1>5, <2>1
<1>9. QED
  BY <1>1, <1>3, <1>4, <1>5, <1>7, <1>8 DEF w, D

\* mkdir, mknod and create make a node, or find one.
LEMMA MakeNodeImplements ==
  ASSUME Sound(meta, rows), Filled(meta, rows), NEW p \in Path \ {Root},
         NEW type \in {"dir", "blob"}, MakeNode(p, type)
  PROVE  Filled(meta', rows') /\ FS!Next
<1> DEFINE w == WithParents(meta, p)
           D == Missing(meta, p)
<1>1. w[p] = meta[p] /\ D \in SUBSET FS!Missing(p)
  BY ParentsAreDirs
<1>2. CASE Exists(w, p)
  <2>1. meta' = w /\ rows' = rows
    BY <1>2 DEF MakeNode, Commit
  <2>2. QED
    BY <2>1, OnlyParents
<1>3. CASE ~Exists(w, p)
  <2>1. meta' = [w EXCEPT ![p] = Entry(type, 0)] /\ rows' = rows
    BY <1>3 DEF MakeNode, Commit
  <2>2. ~Exists(meta, p)
    BY <1>1, <1>3 DEF Exists
  <2>3. /\ Filled(meta', rows') /\ Nodes(meta, rows)[p] = FS!Absent
        /\ Nodes(meta', rows') = [FS!WithDirs(D) EXCEPT ![p] = [type |-> type, data |-> <<>>]]
    BY <2>1, <2>2, FreshNode DEF Kind
  <2> HIDE DEF D
  <2>4. FS!Next
    BY <1>1, <2>3, CreateStep
  <2>5. QED
    BY <2>3, <2>4
<1>4. QED
  BY <1>2, <1>3

\* set_value into a new node makes a file with those contents.
LEMMA FreshContents ==
  ASSUME Sound(meta, rows), Filled(meta, rows), NEW p \in Path, ~Exists(meta, p),
         NEW type \in Kind \ {"none"}, NEW data \in Seq(Nat), data # <<>>,
         Put([WithParents(meta, p) EXCEPT ![p] = Entry(type, 0)], p, 0, data)
  PROVE  /\ Filled(meta', rows')
         /\ Nodes(meta', rows') = [FS!WithDirs(Missing(meta, p)) EXCEPT
                                     ![p] = [type |-> type, data |-> data]]
<1> DEFINE n == [WithParents(meta, p) EXCEPT ![p] = Entry(type, 0)]
           W == FS!WithDirs(Missing(meta, p))
           empty == [type |-> type, data |-> <<>>]
<1>1. /\ Sound(n, rows) /\ Filled(n, rows) /\ n[p].size = 0
      /\ Nodes(n, rows) = [W EXCEPT ![p] = empty]
      /\ Nodes(n, rows)[p] = empty
  BY FreshNode
<1> HIDE DEF n, W
<1>2. 0 \in Nat /\ 0 <= n[p].size /\ Put(n, p, 0, data)
  BY <1>1 DEF n
<1>3. /\ Filled(meta', rows')
      /\ Nodes(meta', rows') =
           [Nodes(n, rows) EXCEPT ![p].data = FS!Splice(Nodes(n, rows)[p].data, 0, data)]
  BY <1>1, <1>2, PutInFiles
<1>4. FS!Splice(Nodes(n, rows)[p].data, 0, data) = data
  <2>1. Nodes(n, rows)[p].data = <<>>
    BY <1>1
  <2>2. QED
    BY <2>1, SpliceIntoEmpty
<1>5. Nodes(meta', rows') = [[W EXCEPT ![p] = empty] EXCEPT ![p].data = data]
  BY <1>1, <1>3, <1>4
<1>6. [[W EXCEPT ![p] = empty] EXCEPT ![p].data = data]
      = [W EXCEPT ![p] = [type |-> type, data |-> data]]
  <2>1. p \in DOMAIN W
    BY DEF W, FS!WithDirs
  <2>2. QED
    BY <2>1
<1>7. QED
  BY <1>3, <1>5, <1>6 DEF W

\* symlink makes a node with the target as its contents.
LEMMA SymlinkImplements ==
  ASSUME Sound(meta, rows), Filled(meta, rows), NEW p \in Path \ {Root}, Symlink(p)
  PROVE  Filled(meta', rows') /\ FS!Next
<1> DEFINE w == WithParents(meta, p)
           D == Missing(meta, p)
<1>1. w[p] = meta[p] /\ D \in SUBSET FS!Missing(p)
  BY ParentsAreDirs
<1>2. CASE Exists(w, p)
  <2>1. meta' = w /\ rows' = rows
    BY <1>2 DEF Symlink, Commit
  <2>2. QED
    BY <2>1, OnlyParents
<1>3. CASE ~Exists(w, p)
  <2>1. Put([w EXCEPT ![p] = Entry("link", 0)], p, 0, LinkTarget)
    BY <1>3 DEF Symlink
  <2>2. ~Exists(meta, p)
    BY <1>1, <1>3 DEF Exists
  <2>3. LinkTarget \in Seq(Nat) /\ LinkTarget # <<>>
    BY LinkType
  <2>4. /\ Filled(meta', rows')
        /\ Nodes(meta', rows') = [FS!WithDirs(D) EXCEPT
                                    ![p] = [type |-> "link", data |-> LinkTarget]]
    BY <2>1, <2>2, <2>3, FreshContents DEF Kind
  <2>5. Nodes(meta, rows)[p] = FS!Absent
    BY <2>2, ExistsIsType, AbsentNode
  <2> HIDE DEF D
  <2>6. FS!Next
    BY <1>1, <2>4, <2>5, CreateStep
  <2>7. QED
    BY <2>4, <2>6
<1>4. QED
  BY <1>2, <1>3

\* truncate on tables with the directories D made: shorter, longer, or refused.
LEMMA TruncateInImplements ==
  ASSUME NEW m, Sound(m, rows), Filled(m, rows), NEW p \in Path \ {Root},
         NEW D \in SUBSET FS!Missing(p), Nodes(m, rows) = FS!WithDirs(D),
         Nodes(m, rows)[p] = Nodes(meta, rows)[p],
         NEW n \in Nat, n \in Lengths \cup {0}, TruncateIn(m, p, n)
  PROVE  Filled(meta', rows') /\ FS!Next
<1> DEFINE size == m[p].size
           old == Nodes(m, rows)[p].data
<1>1. size \in Nat /\ FileOK(rows[p], size) /\ p \in Path
  BY DEF Sound, Filled
<1>2. old = Bytes(rows[p], size) /\ old \in Seq(Nat) /\ Len(old) = size
  <2>1. Nodes(m, rows)[p] = [type |-> m[p].type, data |-> Bytes(rows[p], size)]
    BY <1>1, NodeOfPath
  <2>2. old = Bytes(rows[p], size)
    BY <2>1
  <2>3. QED
    BY <1>1, <2>2, BytesOfFile
<1>3. CASE ~Reachable(m, p) \/ ~Exists(m, p) \/ size = n
  <2>1. meta' = m /\ rows' = rows
    BY <1>3 DEF TruncateIn, Commit
  <2>2. FS!Next
    BY <2>1, RefusedStep
  <2>3. QED
    BY <2>1, <2>2
<1>4. ASSUME Exists(m, p) PROVE Nodes(meta, rows)[p] # FS!Absent
  BY <1>4, ExistsIsType, PresentNode
<1>5. CASE Reachable(m, p) /\ Exists(m, p) /\ size > n
  <2> DEFINE g == Shorten(rows[p], n)
  <2>1. meta' = [m EXCEPT ![p].size = n] /\ rows' = [rows EXCEPT ![p] = g]
    BY <1>1, <1>5 DEF TruncateIn, Commit, Sound
  <2>2. FileOK(g, n) /\ Bytes(g, n) = FS!Resize(old, n)
    BY <1>1, <1>2, <1>5, ShortenCuts
  <2> HIDE DEF g, old
  <2>3. /\ Filled(meta', rows')
        /\ Nodes(meta', rows') = [Nodes(m, rows) EXCEPT ![p].data = Bytes(g, n)]
    BY <2>1, <2>2, ContentsChange
  <2>4. Nodes(meta', rows') = [FS!WithDirs(D) EXCEPT ![p].data = FS!Resize(@, n)]
    BY <2>2, <2>3 DEF old
  <2>5. FS!Next
    BY <1>4, <1>5, <2>4, TruncateStep
  <2>6. QED
    BY <2>3, <2>5
<1>6. CASE Reachable(m, p) /\ Exists(m, p) /\ size < n
  <2> DEFINE z == Zeros(n - size)
  <2>1. Put(m, p, size, z)
    BY <1>1, <1>6 DEF TruncateIn
  <2>2. z \in Seq(Nat) /\ z # <<>>
    <3>1. n - size \in Nat /\ n - size # 0
      BY <1>1, <1>6
    <3>2. z \in Seq(Nat) /\ Len(z) = n - size
      BY <3>1, LengthsOfData
    <3>3. QED
      BY <3>1, <3>2, EmptySeq
  <2>3. FS!Splice(old, size, z) = FS!Resize(old, n)
    <3> HIDE DEF old, size
    <3>1. old \in Seq(Nat) /\ Len(old) <= n
      BY <1>1, <1>2, <1>6
    <3>2. FS!Splice(old, Len(old), Zeros(n - Len(old))) = FS!Resize(old, n)
      BY ONLY <3>1, n \in Nat, SpliceToGrow
    <3>3. QED
      BY <1>2, <3>2
  <2> HIDE DEF z, old
  <2>4. /\ Filled(meta', rows')
        /\ Nodes(meta', rows') =
             [Nodes(m, rows) EXCEPT ![p].data = FS!Splice(Nodes(m, rows)[p].data, size, z)]
    BY <1>1, <2>1, <2>2, PutInFiles
  <2>5. Nodes(meta', rows') = [FS!WithDirs(D) EXCEPT ![p].data = FS!Resize(@, n)]
    BY <2>3, <2>4 DEF old
  <2>6. FS!Next
    BY <1>4, <1>6, <2>5, TruncateStep
  <2>7. QED
    BY <2>4, <2>6
<1>7. QED
  BY <1>1, <1>3, <1>5, <1>6

\* truncate makes no directories.
LEMMA TruncateImplements ==
  ASSUME Sound(meta, rows), Filled(meta, rows), NEW p \in Path \ {Root},
         NEW n \in Lengths, Truncate(p, n)
  PROVE  Filled(meta', rows') /\ FS!Next
<1>1. {} \in SUBSET FS!Missing(p) /\ n \in Nat /\ n \in Lengths \cup {0}
  BY LengthsType
<1>2. Nodes(meta, rows) = FS!WithDirs({})
  BY DEF FS!WithDirs, Nodes, Contents
<1>3. TruncateIn(meta, p, n)
  BY DEF Truncate
<1>4. QED
  BY <1>1, <1>2, <1>3, TruncateInImplements

\* open makes a file, empties it, or only finds it.
LEMMA OpenImplements ==
  ASSUME Sound(meta, rows), Filled(meta, rows), NEW p \in Path \ {Root},
         NEW creat \in BOOLEAN, NEW trunc \in BOOLEAN, Open(p, creat, trunc)
  PROVE  Filled(meta', rows') /\ FS!Next
<1> DEFINE w == WithParents(meta, p)
           m == IF creat THEN w ELSE meta
           D == IF creat THEN Missing(meta, p) ELSE {}
<1>1. /\ Sound(w, rows) /\ Filled(w, rows) /\ Missing(meta, p) \in SUBSET FS!Missing(p)
      /\ Nodes(w, rows) = FS!WithDirs(Missing(meta, p))
      /\ w[p] = meta[p] /\ Nodes(w, rows)[p] = Nodes(meta, rows)[p]
  BY ParentsAreDirs
<1>2. Nodes(meta, rows) = FS!WithDirs({})
  BY DEF FS!WithDirs, Nodes, Contents
<1>3. /\ Sound(m, rows) /\ Filled(m, rows) /\ D \in SUBSET FS!Missing(p)
      /\ Nodes(m, rows) = FS!WithDirs(D)
      /\ m[p] = meta[p] /\ Nodes(m, rows)[p] = Nodes(meta, rows)[p]
  BY <1>1, <1>2
<1>4. CASE Exists(m, p) /\ trunc
  <2>1. TruncateIn(m, p, 0) /\ 0 \in Nat /\ 0 \in Lengths \cup {0}
    BY <1>4 DEF Open
  <2> HIDE DEF m, D
  <2>2. QED
    BY <1>3, <2>1, TruncateInImplements
<1>5. CASE ~Exists(m, p) /\ creat
  <2>1. meta' = [w EXCEPT ![p] = Entry("blob", 0)] /\ rows' = rows
    BY <1>5 DEF Open, Commit
  <2>2. ~Exists(meta, p)
    BY <1>3, <1>5 DEF Exists
  <2>3. /\ Filled(meta', rows') /\ Nodes(meta, rows)[p] = FS!Absent
        /\ Nodes(meta', rows') = [FS!WithDirs(Missing(meta, p)) EXCEPT
                                    ![p] = [type |-> "blob", data |-> <<>>]]
    <3>1. "blob" \in Kind \ {"none"} /\ p \in Path
      BY DEF Kind
    <3> HIDE DEF w, m, D
    <3>2. QED
      BY <2>1, <2>2, <3>1, FreshNode DEF w
  <2>4. FS!Next
    BY <1>1, <2>3, CreateStep
  <2>5. QED
    BY <2>3, <2>4
<1>6. CASE ~(Exists(m, p) /\ trunc) /\ ~(~Exists(m, p) /\ creat)
  <2>1. meta' = m /\ rows' = rows
    BY <1>6 DEF Open, Commit
  <2>2. CASE creat
    BY <2>1, <2>2, OnlyParents
  <2>3. CASE ~creat
    BY <2>1, <2>3, NothingChanged
  <2>4. QED
    BY <2>2, <2>3
<1>7. QED
  BY <1>4, <1>5, <1>6

\* write into a file that is there: at its end, at the offset, or behind a gap
\* that it fills.
LEMMA WriteOldImplements ==
  ASSUME Sound(meta, rows), Filled(meta, rows), NEW p \in Path \ {Root},
         NEW w \in Writes, NEW append \in BOOLEAN, Write(p, w[1], w[2], append),
         Exists(meta, p), Reachable(meta, p), ~IsDir(meta, p)
  PROVE  Filled(meta', rows') /\ FS!Next
<1> DEFINE size == meta[p].size
           old == Nodes(meta, rows)[p].data
           off == w[1]
           data == Buffer(w[2])
           gap == Zeros(off - size)
<1>1. off \in Nat /\ w[2] \in Nat /\ w[2] # 0
  BY WritesType
<1>2. data \in Seq(Nat) /\ Len(data) = w[2] /\ data # <<>>
  <2>1. data \in Seq(Nat) /\ Len(data) = w[2]
    BY <1>1, LengthsOfData
  <2>2. QED
    BY <1>1, <2>1, EmptySeq
<1>3. size \in Nat /\ p \in Path
  BY DEF Sound
<1>4. old \in Seq(Nat) /\ Len(old) = size
  BY NodeOfPath
<1>5. Nodes(meta, rows)[p] # FS!Absent /\ Nodes(meta, rows)[p].type # "dir"
  <2>1. meta[p].type # "none" /\ meta[p].type # "dir"
    BY ExistsIsType DEF IsDir
  <2>2. Nodes(meta, rows)[p].type = meta[p].type
    BY DEF Nodes
  <2>3. QED
    BY <2>1, <2>2, PresentNode
<1>6. \/ Put(meta, p, size, data)
      \/ off > size /\ Put(meta, p, size, gap \o data)
      \/ off <= size /\ Put(meta, p, off, data)
  BY <1>1, <1>3 DEF Write
<1> HIDE DEF size, data
<1>7. CASE Put(meta, p, size, data)
  <2>1. size <= meta[p].size
    BY <1>3 DEF size
  <2>2. /\ Filled(meta', rows')
        /\ Nodes(meta', rows') = [Nodes(meta, rows) EXCEPT ![p].data = FS!Splice(old, size, data)]
    BY <1>2, <1>3, <1>7, <2>1, PutInFiles
  <2>3. Nodes(meta', rows') = [Nodes(meta, rows) EXCEPT ![p].data = FS!Splice(@, size, Buffer(w[2]))]
    BY <2>2 DEF data
  <2>4. size = Len(Nodes(meta, rows)[p].data)
    BY <1>4
  <2>5. FS!Next
    BY <1>5, <2>3, <2>4, WriteStep
  <2>6. QED
    BY <2>2, <2>5
<1>8. CASE off <= size /\ Put(meta, p, off, data)
  <2>1. off <= meta[p].size
    BY <1>8 DEF size
  <2>2. /\ Filled(meta', rows')
        /\ Nodes(meta', rows') = [Nodes(meta, rows) EXCEPT ![p].data = FS!Splice(old, off, data)]
    BY <1>1, <1>2, <1>8, <2>1, PutInFiles
  <2>3. Nodes(meta', rows') = [Nodes(meta, rows) EXCEPT ![p].data = FS!Splice(@, off, Buffer(w[2]))]
    BY <2>2 DEF data
  <2>4. FS!Next
    BY <1>5, <2>3, WriteStep
  <2>5. QED
    BY <2>2, <2>4
<1>9. CASE off > size /\ Put(meta, p, size, gap \o data)
  <2>1. size <= meta[p].size
    BY <1>3 DEF size
  <2>2. gap \in Seq(Nat) /\ Len(gap) = off - size
    <3>1. off - size \in Nat
      BY <1>1, <1>3, <1>9
    <3>2. QED
      BY <3>1, LengthsOfData
  <2>3. gap \o data \in Seq(Nat) /\ gap \o data # <<>>
    <3>1. gap \o data \in Seq(Nat) /\ Len(gap \o data) = off - size + w[2]
      <4> HIDE DEF gap
      <4>1. gap \o data \in Seq(Nat) /\ Len(gap \o data) = Len(gap) + Len(data)
        BY <1>2, <2>2, ConcatProperties
      <4>2. QED
        BY <1>2, <2>2, <4>1
    <3>2. off - size + w[2] # 0
      BY <1>1, <1>3, <1>9
    <3>3. QED
      BY <3>1, <3>2, EmptySeq
  <2>4. FS!Splice(old, size, gap \o data) = FS!Splice(old, off, data)
    BY <1>1, <1>2, <1>4, <1>9, SpliceOverGap
  <2> DEFINE gd == gap \o data
  <2> HIDE DEF gd
  <2>5. gd \in Seq(Nat) /\ gd # <<>> /\ Put(meta, p, size, gd)
    BY <1>9, <2>3 DEF gd
  <2>6. /\ Filled(meta', rows')
        /\ Nodes(meta', rows') = [Nodes(meta, rows) EXCEPT ![p].data = FS!Splice(old, size, gd)]
    BY <1>3, <2>1, <2>5, PutInFiles
  <2>7. FS!Splice(old, size, gd) = FS!Splice(old, off, data)
    BY <2>4 DEF gd
  <2>8. Nodes(meta', rows') = [Nodes(meta, rows) EXCEPT ![p].data = FS!Splice(@, off, Buffer(w[2]))]
    BY <2>6, <2>7 DEF data
  <2>9. FS!Next
    BY <1>5, <2>8, WriteStep
  <2>10. QED
    BY <2>6, <2>9
<1>10. QED
  BY <1>6, <1>7, <1>8, <1>9

\* write to a path that is not there makes the file with its contents.
LEMMA WriteNewImplements ==
  ASSUME Sound(meta, rows), Filled(meta, rows), NEW p \in Path \ {Root},
         NEW w \in Writes, NEW append \in BOOLEAN, Write(p, w[1], w[2], append),
         ~Exists(meta, p)
  PROVE  Filled(meta', rows') /\ FS!Next
<1> DEFINE n == [WithParents(meta, p) EXCEPT ![p] = Entry("blob", 0)]
           D == Missing(meta, p)
           off == w[1]
           data == Buffer(w[2])
           gap == Zeros(off)
<1>1. off \in Nat /\ w[2] \in Nat /\ w[2] # 0 /\ p \in Path
  BY WritesType
<1>2. data \in Seq(Nat) /\ Len(data) = w[2] /\ data # <<>>
  <2>1. data \in Seq(Nat) /\ Len(data) = w[2]
    BY <1>1, LengthsOfData
  <2>2. QED
    BY <1>1, <2>1, EmptySeq
<1>3. n[p].size = 0 /\ Nodes(meta, rows)[p] = FS!Absent
  <2>1. "blob" \in Kind \ {"none"}
    BY DEF Kind
  <2>2. QED
    BY <1>1, <2>1, FreshNode
<1>4. D \in SUBSET FS!Missing(p)
  BY ParentsAreDirs
<1>5. ~IsDir(meta, p)
  BY ExistsIsType DEF IsDir
<1>6. \/ Put(n, p, 0, data)
      \/ off > 0 /\ Put(n, p, 0, gap \o data)
  <2>1. \/ append /\ Put(n, p, n[p].size, data)
        \/ off > n[p].size /\ Put(n, p, n[p].size, Zeros(off - n[p].size) \o data)
        \/ ~(off > n[p].size) /\ Put(n, p, off, data)
    BY <1>5 DEF Write
  <2>2. off - 0 = off /\ (~(off > 0) => off = 0)
    BY <1>1
  <2> HIDE DEF n, data
  <2>3. QED
    BY <1>3, <2>1, <2>2
<1>7. ASSUME NEW c \in Seq(Nat), c # <<>>, Put(n, p, 0, c),
             \/ c = FS!Splice(<<>>, w[1], Buffer(w[2]))
             \/ c = Buffer(w[2])
      PROVE  Filled(meta', rows') /\ FS!Next
  <2>1. /\ Filled(meta', rows')
        /\ Nodes(meta', rows') = [FS!WithDirs(D) EXCEPT ![p] = [type |-> "blob", data |-> c]]
    BY <1>7, FreshContents DEF Kind
  <2> HIDE DEF D
  <2>2. FS!Next
    BY <1>3, <1>4, <1>7, <2>1, CreateStep
  <2>3. QED
    BY <2>1, <2>2
<1>8. CASE Put(n, p, 0, data)
  BY <1>2, <1>7, <1>8
<1>9. CASE off > 0 /\ Put(n, p, 0, gap \o data)
  <2> DEFINE none == <<>>
  <2>1. none \in Seq(Nat) /\ Len(none) = 0
    OBVIOUS
  <2> HIDE DEF none, data
  <2>2. FS!Splice(none, Len(none), Zeros(off - Len(none)) \o data) = FS!Splice(none, off, data)
    BY <1>1, <1>2, <1>9, <2>1, SpliceOverGap
  <2>3. off - Len(none) = off
    BY <1>1, <2>1
  <2>4. FS!Splice(none, 0, gap \o data) = FS!Splice(none, off, data)
    BY <2>1, <2>2, <2>3
  <2>5. gap \o data \in Seq(Nat) /\ gap \o data # <<>>
    <3>1. gap \in Seq(Nat) /\ Len(gap) = off
      BY <1>1, LengthsOfData
    <3>2. gap \o data \in Seq(Nat) /\ Len(gap \o data) = off + w[2]
      <4> HIDE DEF gap
      <4>1. QED
        BY <1>2, <3>1, ConcatProperties DEF data
    <3>3. off + w[2] # 0
      BY <1>1
    <3>4. QED
      BY <3>2, <3>3, EmptySeq
  <2>6. FS!Splice(<<>>, 0, gap \o data) = gap \o data
    BY <2>5, SpliceIntoEmpty
  <2>7. gap \o data = FS!Splice(<<>>, w[1], Buffer(w[2]))
    BY <2>4, <2>6 DEF none, data
  <2>8. QED
    BY <1>7, <1>9, <2>5, <2>7
<1>10. QED
  BY <1>6, <1>8, <1>9

\* A write keeps the blocks of its file filled and is the write of the file store.
LEMMA WriteImplements ==
  ASSUME Sound(meta, rows), Filled(meta, rows), NEW p \in Path \ {Root},
         NEW w \in Writes, NEW append \in BOOLEAN, Write(p, w[1], w[2], append)
  PROVE  Filled(meta', rows') /\ FS!Next
<1>1. CASE IsDir(meta, p) \/ (Exists(meta, p) /\ ~Reachable(meta, p))
  <2>1. meta' = meta /\ rows' = rows
    BY <1>1 DEF Write, Commit
  <2>2. QED
    BY <2>1, NothingChanged
<1>2. CASE ~IsDir(meta, p) /\ Exists(meta, p) /\ Reachable(meta, p)
  BY <1>2, WriteOldImplements
<1>3. CASE ~Exists(meta, p)
  BY <1>3, WriteNewImplements
<1>4. QED
  BY <1>1, <1>2, <1>3

\* A call that removes nothing, after check_parent_write.
LEMMA NothingRemoved ==
  ASSUME Sound(meta, rows), Filled(meta, rows), NEW p \in Path,
         RemoveKeys(WithParents(meta, p), {})
  PROVE  Filled(meta', rows') /\ FS!Next
<1> DEFINE w == WithParents(meta, p)
           D == Missing(meta, p)
<1>1. /\ Sound(w, rows) /\ Filled(w, rows)
      /\ D \in SUBSET FS!Missing(p) /\ Nodes(w, rows) = FS!WithDirs(D)
  BY ParentsAreDirs
<1> HIDE DEF w, D
<1>2. RemoveKeys(w, {})
  BY DEF w
<1>3. /\ Filled(meta', rows')
      /\ Nodes(meta', rows') = [q \in Path |-> IF q \in {} THEN FS!Absent ELSE Nodes(w, rows)[q]]
  BY <1>1, <1>2, RemovalInFiles
<1>4. Nodes(meta', rows') = Nodes(w, rows)
  <2>1. Nodes(w, rows) = [q \in Path |-> Nodes(w, rows)[q]]
    BY DEF Nodes
  <2>2. QED
    BY <1>3, <2>1
<1>5. D \in SUBSET (FS!Missing(p) \cup FS!Missing(p))
  BY <1>1
<1>6. FS!Next
  BY <1>1, <1>4, <1>5, RefusedStep
<1>7. QED
  BY <1>3, <1>6

\* A call that removes a path that is no directory, or one without children.
LEMMA OneRemoved ==
  ASSUME Sound(meta, rows), Filled(meta, rows), NEW p \in Path \ {Root},
         RemoveKeys(WithParents(meta, p), {p}),
         IsDir(meta, p) => \A q \in Child(p) : ~Exists(WithParents(meta, p), q)
  PROVE  Filled(meta', rows') /\ FS!Next
<1> DEFINE w == WithParents(meta, p)
           D == Missing(meta, p)
<1>1. /\ Sound(w, rows) /\ Filled(w, rows)
      /\ D \in SUBSET FS!Missing(p) /\ Nodes(w, rows) = FS!WithDirs(D)
  BY ParentsAreDirs
<1>2. \A q \in Path : meta[q].type # "none" => w[q] = meta[q]
  BY ParentsAdded
<1>3. p \in Path /\ RemoveKeys(w, {p})
  OBVIOUS
<1>4. IsDir(meta, p) => \A q \in Child(p) : ~Exists(w, q)
  OBVIOUS
<1> HIDE DEF w, D
<1>5. /\ Filled(meta', rows')
      /\ Nodes(meta', rows') = [q \in Path |-> IF q \in {p} THEN FS!Absent
                                               ELSE Nodes(w, rows)[q]]
  BY <1>1, <1>3, RemovalInFiles
<1>6. Nodes(meta', rows') = [FS!WithDirs(D) EXCEPT ![p] = FS!Absent]
  <2>1. Nodes(w, rows) = [q \in Path |-> Nodes(w, rows)[q]]
    BY DEF Nodes
  <2>2. Nodes(meta', rows') = [Nodes(w, rows) EXCEPT ![p] = FS!Absent]
    BY <1>3, <1>5, <2>1
  <2>3. QED
    BY <1>1, <2>2
<1>7. ASSUME Nodes(meta, rows)[p].type = "dir", NEW q \in Below(p), Above(q) \ Above(p) = {p}
      PROVE  Nodes(meta, rows)[q] = FS!Absent
  <2>1. q \in Path /\ p \in Above(q)
    BY DEF Below
  <2>2. q \in Child(p)
    <3>1. PICK c \in Child(p) : c = q \/ c \in Above(q)
      BY <1>3, <2>1, ChildOnTheWay
    <3>2. c \in Path /\ Len(c) = Len(p) + 1 /\ Len(p) \in Nat
      BY <1>3, PathIsSeq, LenProperties DEF Child, Below
    <3>3. c # p
      BY <3>2
    <3>4. c \notin Above(p)
      <4>1. c \in Above(p) => Len(c) < Len(p)
        BY <1>3, <3>2, AboveIsPrefix
      <4>2. QED
        BY <3>2, <4>1
    <3>5. QED
      BY <1>7, <3>1, <3>3, <3>4
  <2>3. meta[p].type = "dir"
    BY <1>3, <1>7 DEF Nodes
  <2>4. ~Exists(w, q)
    BY <1>4, <2>2, <2>3 DEF IsDir
  <2>5. w[q].type = "none"
    BY <1>1, <2>1, <2>4, ExistsIsType
  <2>6. meta[q].type = "none"
    BY <1>2, <2>1, <2>5
  <2>7. QED
    BY <2>1, <2>6, AbsentNode
<1>8. FS!Next
  BY <1>1, <1>6, <1>7, RemoveStep
<1>9. QED
  BY <1>5, <1>8

\* unlink.
LEMMA UnlinkImplements ==
  ASSUME Sound(meta, rows), Filled(meta, rows), NEW p \in Path \ {Root}, Unlink(p)
  PROVE  Filled(meta', rows') /\ FS!Next
<1> DEFINE w == WithParents(meta, p)
<1>1. w[p] = meta[p]
  BY ParentsAreDirs
<1>2. RemoveKeys(w, IF IsDir(w, p) THEN {} ELSE {p})
  BY DEF Unlink
<1>3. CASE IsDir(w, p)
  <2>1. RemoveKeys(w, {})
    BY <1>2, <1>3
  <2>2. QED
    BY <2>1, NothingRemoved
<1>4. CASE ~IsDir(w, p)
  <2>1. RemoveKeys(w, {p}) /\ ~IsDir(meta, p)
    BY <1>1, <1>2, <1>4 DEF IsDir
  <2>2. QED
    BY <2>1, OneRemoved
<1>5. QED
  BY <1>3, <1>4

\* rmdir: a directory with a child stays.
LEMMA RmdirImplements ==
  ASSUME Sound(meta, rows), Filled(meta, rows), NEW p \in Path \ {Root}, Rmdir(p)
  PROVE  Filled(meta', rows') /\ FS!Next
<1> DEFINE w == WithParents(meta, p)
           full == IsDir(w, p) /\ \E q \in Child(p) : Exists(w, q)
<1>1. w[p] = meta[p]
  BY ParentsAreDirs
<1>2. RemoveKeys(w, IF full THEN {} ELSE {p})
  BY DEF Rmdir
<1>3. CASE full
  <2>1. RemoveKeys(w, {})
    BY <1>2, <1>3
  <2>2. QED
    BY <2>1, NothingRemoved
<1>4. CASE ~full
  <2>1. RemoveKeys(w, {p})
    BY <1>2, <1>4
  <2>2. IsDir(meta, p) => \A q \in Child(p) : ~Exists(w, q)
    BY <1>1, <1>4 DEF IsDir
  <2>3. QED
    BY <2>1, <2>2, OneRemoved
<1>5. QED
  BY <1>3, <1>4

\* del_tree takes everything below the path with it.
LEMMA DelTreeImplements ==
  ASSUME Sound(meta, rows), Filled(meta, rows), NEW p \in Path \ {Root}, DelTree(p)
  PROVE  Filled(meta', rows') /\ FS!Next
<1> DEFINE w == WithParents(meta, p)
           D == Missing(meta, p)
           gone == {p} \cup Below(p)
<1>1. /\ Sound(w, rows) /\ Filled(w, rows) /\ w[p] = meta[p]
      /\ D \in SUBSET FS!Missing(p) /\ Nodes(w, rows) = FS!WithDirs(D)
  BY ParentsAreDirs
<1>2. RemoveKeys(w, IF Exists(w, p) THEN gone ELSE {})
  BY DEF DelTree
<1>3. CASE ~Exists(w, p)
  <2>1. RemoveKeys(w, {})
    BY <1>2, <1>3
  <2>2. QED
    BY <2>1, NothingRemoved
<1>4. CASE Exists(w, p)
  <2>1. RemoveKeys(w, gone)
    BY <1>2, <1>4
  <2>2. Exists(meta, p)
    BY <1>1, <1>4 DEF Exists
  <2>3. Nodes(meta, rows)[p] # FS!Absent
    BY <2>2, ExistsIsType, PresentNode
  <2> HIDE DEF w, D, gone
  <2>4. /\ Filled(meta', rows')
        /\ Nodes(meta', rows') = [q \in Path |-> IF q \in gone THEN FS!Absent
                                                 ELSE Nodes(w, rows)[q]]
    BY <1>1, <2>1, RemovalInFiles
  <2>5. Nodes(meta', rows') = [q \in Path |-> IF q = p \/ q \in Below(p) THEN FS!Absent
                                              ELSE FS!WithDirs(D)[q]]
    BY <1>1, <2>4 DEF gone
  <2>6. FS!Next
    BY <1>1, <2>3, <2>5, RemoveTreeStep
  <2>7. QED
    BY <2>4, <2>6
<1>5. QED
  BY <1>3, <1>4

\* The same for a rename, which makes the directories above both paths.
LEMMA BothAreDirs ==
  ASSUME Sound(meta, rows), Filled(meta, rows), NEW p \in Path, NEW new \in Path
  PROVE  LET w == WithParents(meta, p)
             m == WithParents(w, new)
             D == Missing(meta, p) \cup Missing(w, new)
         IN /\ Sound(m, rows) /\ Filled(m, rows)
            /\ D \in SUBSET (FS!Missing(p) \cup FS!Missing(new))
            /\ Nodes(m, rows) = FS!WithDirs(D)
            /\ \A x \in Path \ D : m[x] = meta[x]
            /\ \A x \in D : /\ x \in Path /\ (x \in Above(p) \/ x \in Above(new))
                            /\ meta[x].type = "none" /\ m[x].type = "dir"
<1> DEFINE w == WithParents(meta, p)
           m == WithParents(w, new)
           A == Missing(meta, p)
           B == Missing(w, new)
           D == A \cup B
<1>1. /\ Sound(w, rows) /\ Filled(w, rows) /\ A \in SUBSET FS!Missing(p)
      /\ Nodes(w, rows) = FS!WithDirs(A)
  BY ParentsAreDirs
<1>2. /\ \A x \in A : w[x] = Entry("dir", 0)
      /\ \A x \in Path \ A : w[x] = meta[x]
  BY ParentEntries
<1>3. /\ \A x \in B : m[x] = Entry("dir", 0)
      /\ \A x \in Path \ B : m[x] = w[x]
  BY ParentEntries
<1>4. \A x \in A : x \in Above(p) /\ x \in Path /\ meta[x].type = "none"
  BY ParentsAdded, AboveIsPrefix
<1> HIDE DEF w
<1>5. \A x \in B : x \in Above(new) /\ x \in Path /\ w[x].type = "none"
  BY <1>1, ParentsAdded, AboveIsPrefix
<1>6. /\ Sound(m, rows) /\ Filled(m, rows)
      /\ Nodes(m, rows) = [x \in Path |-> IF x \in B THEN FS!Directory ELSE Nodes(w, rows)[x]]
  BY <1>1, ParentsInFiles, ParentsAdded
<1> HIDE DEF m, A, B
<1>7. Entry("dir", 0).type = "dir"
  BY DEF Entry
<1>8. \A x \in B : meta[x].type = "none"
  BY <1>2, <1>5, <1>7
<1>9. D \in SUBSET (FS!Missing(p) \cup FS!Missing(new))
  <2>1. ASSUME NEW x \in B PROVE x \in FS!Missing(new)
    <3>1. Nodes(meta, rows)[x] = FS!Absent
      BY <1>5, <1>8, AbsentNode
    <3>2. QED
      BY <1>5, <3>1 DEF FS!Missing, Nodes, Contents
  <2>2. QED
    BY <1>1, <2>1
<1>10. Nodes(m, rows) = FS!WithDirs(D)
  <2>1. FS!WithDirs(D) = [x \in Path |-> IF x \in D THEN FS!Directory ELSE Nodes(meta, rows)[x]]
    BY DEF FS!WithDirs, Nodes, Contents
  <2>2. FS!WithDirs(A) = [x \in Path |-> IF x \in A THEN FS!Directory ELSE Nodes(meta, rows)[x]]
    BY DEF FS!WithDirs, Nodes, Contents
  <2>3. QED
    BY <1>1, <1>6, <2>1, <2>2
<1>11. \A x \in Path \ D : m[x] = meta[x]
  BY <1>2, <1>3
<1>12. \A x \in D : m[x].type = "dir"
  BY <1>2, <1>3, <1>4, <1>7
<1>13. \A x \in D : /\ x \in Path /\ (x \in Above(p) \/ x \in Above(new))
                    /\ meta[x].type = "none" /\ m[x].type = "dir"
  BY <1>4, <1>5, <1>8, <1>12
<1>14. QED
  BY <1>6, <1>9, <1>10, <1>11, <1>13 DEF w, m, A, B

\* rename of what is not there, or of a directory that is detached.
LEMMA RenameNothingImplements ==
  ASSUME Sound(meta, rows), Filled(meta, rows), NEW p \in Path, NEW new \in Path,
         RenameNothing(p, new)
  PROVE  Filled(meta', rows') /\ FS!Next
<1> DEFINE w == WithParents(meta, p)
           m == WithParents(w, new)
           D == Missing(meta, p) \cup Missing(w, new)
<1>1. meta' = m /\ rows' = rows
  BY DEF RenameNothing, Commit
<1>2. /\ Filled(m, rows) /\ D \in SUBSET (FS!Missing(p) \cup FS!Missing(new))
      /\ Nodes(m, rows) = FS!WithDirs(D)
  BY BothAreDirs
<1> HIDE DEF m, D
<1>3. FS!Next
  BY <1>1, <1>2, RefusedStep
<1>4. QED
  BY <1>1, <1>2, <1>3

\* A rename that is refused: the target goes, if it was there before the call
\* made the directories above the source.
LEMMA RefuseRenameImplements ==
  ASSUME Sound(meta, rows), Filled(meta, rows), NEW p \in Path \ {Root},
         NEW new \in Path \ ({Root} \cup Below(p)), RefuseRename(p, new)
  PROVE  Filled(meta', rows') /\ FS!Next
<1> DEFINE w == WithParents(meta, p)
           m == WithParents(w, new)
           D == Missing(meta, p) \cup Missing(w, new)
<1>1. /\ Sound(m, rows) /\ Filled(m, rows)
      /\ D \in SUBSET (FS!Missing(p) \cup FS!Missing(new))
      /\ Nodes(m, rows) = FS!WithDirs(D)
      /\ \A x \in Path \ D : m[x] = meta[x]
      /\ \A x \in D : /\ x \in Path /\ (x \in Above(p) \/ x \in Above(new))
                      /\ meta[x].type = "none" /\ m[x].type = "dir"
  <2>1. p \in Path /\ new \in Path
    OBVIOUS
  <2>2. QED
    BY <2>1, BothAreDirs
<1>2. Exists(m, p) /\ (Conflict(m, p, new) \/ p = new) /\ RemoveKeys(m, {new})
  BY DEF RefuseRename
<1> HIDE DEF m, D
<1>3. /\ Filled(meta', rows')
      /\ Nodes(meta', rows') = [x \in Path |-> IF x \in {new} THEN FS!Absent
                                               ELSE Nodes(m, rows)[x]]
  BY <1>1, <1>2, RemovalInFiles
<1>4. p \in Path /\ new \in Path /\ p \notin Above(new) /\ p \notin Above(p)
  BY AboveIsChain DEF Below
<1>5. p \notin D /\ meta[p].type # "none" /\ m[p] = meta[p]
  BY <1>1, <1>2, <1>4, ExistsIsType
<1>6. Nodes(meta, rows)[p] # FS!Absent /\ Nodes(meta, rows)[p].type = meta[p].type
  BY <1>5, PresentNode DEF Nodes
<1>7. CASE new \in D
  <2> DEFINE E == D \ {new}
  <2>1. E \in SUBSET (FS!Missing(p) \cup FS!Missing(new))
    BY <1>1
  <2>2. Nodes(meta, rows)[new] = FS!Absent
    BY <1>1, <1>4, <1>7, AbsentNode
  <2>3. FS!WithDirs(E) = [x \in Path |-> IF x \in E THEN FS!Directory ELSE Nodes(meta, rows)[x]]
    BY DEF FS!WithDirs, Nodes, Contents
  <2>4. FS!WithDirs(D) = [x \in Path |-> IF x \in D THEN FS!Directory ELSE Nodes(meta, rows)[x]]
    BY DEF FS!WithDirs, Nodes, Contents
  <2>5. Nodes(meta', rows') = FS!WithDirs(E)
    BY <1>1, <1>3, <2>2, <2>3, <2>4
  <2> HIDE DEF E
  <2>6. FS!Next
    BY <1>4, <2>1, <2>5, RefusedStep
  <2>7. QED
    BY <1>3, <2>6
<1>8. CASE new \notin D
  <2>1. m[new] = meta[new]
    BY <1>1, <1>4, <1>8
  <2>2. p = new \/ meta[new].type = "dir" \/ meta[p].type = "dir"
    BY <1>2, <1>5, <2>1 DEF Conflict, IsDir
  <2>3. meta[new].type # "none"
    <3>1. CASE p = new
      BY <1>5, <3>1
    <3>2. CASE Conflict(m, p, new)
      <4>1. Exists(m, new)
        BY <3>2 DEF Conflict
      <4>2. QED
        BY <1>1, <1>4, <2>1, <4>1, ExistsIsType
    <3>3. QED
      BY <1>2, <3>1, <3>2
  <2>4. Nodes(meta, rows)[new] # FS!Absent /\ Nodes(meta, rows)[new].type = meta[new].type
    BY <1>4, <2>3, PresentNode DEF Nodes
  <2>5. p = new \/ "dir" \in {Nodes(meta, rows)[p].type, Nodes(meta, rows)[new].type}
    BY <1>6, <2>2, <2>4
  <2>6. Nodes(meta', rows') = [FS!WithDirs(D) EXCEPT ![new] = FS!Absent]
    <3>1. Nodes(m, rows) = [x \in Path |-> Nodes(m, rows)[x]]
      BY DEF Nodes
    <3>2. QED
      BY <1>1, <1>3, <3>1
  <2>7. FS!Next
    BY <1>1, <1>6, <2>4, <2>5, <2>6, DropTargetStep
  <2>8. QED
    BY <1>3, <2>7
<1>9. QED
  BY <1>7, <1>8

\* Entries and blocks that move together are files that move with their
\* contents.
LEMMA RelocationInFiles ==
  ASSUME NEW m, Sound(m, rows), Filled(m, rows), NEW from \in Path, NEW to \in Path,
         Relocate(m, Moved(m, from), from, to)
  PROVE  LET moved == Moved(m, from)
             images == {Image(q, from, to) : q \in moved}
         IN /\ Filled(meta', rows')
            /\ Nodes(meta', rows') =
                 [q \in Path |->
                    IF q \in images THEN Nodes(m, rows)[CHOOSE r \in moved : Image(r, from, to) = q]
                    ELSE IF q \in moved THEN FS!Absent ELSE Nodes(m, rows)[q]]
<1> DEFINE moved == Moved(m, from)
           images == {Image(q, from, to) : q \in moved}
           source(q) == CHOOSE r \in moved : Image(r, from, to) = q
<1>1. /\ moved \subseteq Path
      /\ \A q \in moved : /\ meta'[Image(q, from, to)] = m[q]
                          /\ rows'[Image(q, from, to)] = rows[q]
      /\ \A q \in Path \ images : /\ meta'[q] = IF q \in moved THEN NoEntry ELSE m[q]
                                  /\ rows'[q] = IF q \in moved THEN NoBlocks ELSE rows[q]
  BY Relocated
<1>2. ASSUME NEW q \in images
      PROVE  source(q) \in moved /\ Image(source(q), from, to) = q
  <2>1. \E r \in moved : Image(r, from, to) = q
    BY <1>2
  <2>2. QED
    BY <2>1
<1>3. \A q \in images : source(q) \in moved /\ meta'[q] = m[source(q)] /\ rows'[q] = rows[source(q)]
  <2> SUFFICES ASSUME NEW q \in images
               PROVE  /\ source(q) \in moved
                      /\ meta'[q] = m[source(q)] /\ rows'[q] = rows[source(q)]
    OBVIOUS
  <2>1. source(q) \in moved /\ Image(source(q), from, to) = q
    BY <1>2
  <2> HIDE DEF source, moved, images
  <2>2. meta'[Image(source(q), from, to)] = m[source(q)] /\ rows'[Image(source(q), from, to)] = rows[source(q)]
    BY <1>1, <2>1
  <2>3. QED
    BY <2>1, <2>2
<1> HIDE DEF moved, images, source
<1>4. ASSUME NEW q \in Path
      PROVE  /\ FileOK(rows'[q], meta'[q].size)
             /\ Nodes(meta', rows')[q] = IF q \in images THEN Nodes(m, rows)[source(q)]
                                         ELSE IF q \in moved THEN FS!Absent ELSE Nodes(m, rows)[q]
  <2>1. CASE q \in images
    <3>1. source(q) \in Path /\ meta'[q] = m[source(q)] /\ rows'[q] = rows[source(q)]
      BY <1>1, <1>3, <2>1
    <3>2. QED
      BY <2>1, <3>1 DEF Nodes, Filled
  <2>2. CASE q \notin images /\ q \in moved
    <3>1. meta'[q] = NoEntry /\ rows'[q] = NoBlocks
      BY <1>1, <2>2
    <3>2. meta'[q].type = "none" /\ meta'[q].size = 0
      BY <3>1 DEF NoEntry, Entry
    <3>3. QED
      BY <2>2, <3>1, <3>2, EmptyNode DEF FS!Absent
  <2>3. CASE q \notin images /\ q \notin moved
    <3>1. meta'[q] = m[q] /\ rows'[q] = rows[q]
      BY <1>1, <2>3
    <3>2. QED
      BY <2>3, <3>1 DEF Nodes, Filled
  <2>4. QED
    BY <2>1, <2>2, <2>3
<1>5. Nodes(meta', rows') = [q \in Path |-> Nodes(meta', rows')[q]]
  BY DEF Nodes
<1>6. Filled(meta', rows')
  BY <1>4 DEF Filled
<1>7. Nodes(meta', rows') =
        [q \in Path |-> IF q \in images THEN Nodes(m, rows)[source(q)]
                        ELSE IF q \in moved THEN FS!Absent ELSE Nodes(m, rows)[q]]
  BY <1>4, <1>5
<1>8. QED
  BY <1>6, <1>7 DEF moved, images, source

\* A rename that is carried out.
LEMMA RenameImplements ==
  ASSUME Sound(meta, rows), Filled(meta, rows), NEW p \in Path \ {Root},
         NEW new \in Path \ ({Root} \cup Below(p)), Rename(p, new)
  PROVE  Filled(meta', rows') /\ FS!Next
<1> DEFINE w == WithParents(meta, p)
           m == WithParents(w, new)
           D == Missing(meta, p) \cup Missing(w, new)
           files == Nodes(meta, rows)
           moved == Moved(m, p)
           images == {Image(q, p, new) : q \in moved}
<1>1. p \in Path /\ new \in Path /\ p \notin Above(new) /\ p \notin Above(p) /\ new \notin Above(new)
  BY AboveIsChain DEF Below
<1>2. /\ Sound(m, rows) /\ Filled(m, rows)
      /\ D \in SUBSET (FS!Missing(p) \cup FS!Missing(new))
      /\ Nodes(m, rows) = FS!WithDirs(D)
      /\ \A x \in Path \ D : m[x] = meta[x]
      /\ \A x \in D : /\ x \in Path /\ (x \in Above(p) \/ x \in Above(new))
                      /\ meta[x].type = "none" /\ m[x].type = "dir"
  BY <1>1, BothAreDirs
<1>3. /\ Exists(m, p) /\ ~Conflict(m, p, new) /\ p # new
      /\ Relocate(m, moved, p, new)
  BY DEF Rename
<1> HIDE DEF m, D
<1>4. p \notin D /\ m[p] = meta[p]
  BY <1>1, <1>2
<1>5. meta[p].type # "none" /\ files[p] # FS!Absent /\ files[p].type = meta[p].type
  <2>1. meta[p].type # "none"
    BY <1>1, <1>2, <1>3, <1>4, ExistsIsType
  <2>2. QED
    BY <1>1, <2>1, PresentNode DEF Nodes
<1>6. new \notin D /\ m[new] = meta[new]
  <2>1. ASSUME new \in D PROVE FALSE
    <3>1. m[new].type = "dir"
      BY <1>2, <2>1
    <3>2. Exists(m, new)
      BY <1>1, <1>2, <3>1, ExistsIsType
    <3>3. QED
      BY <1>3, <3>1, <3>2 DEF Conflict, IsDir
  <2>2. QED
    BY <1>1, <1>2, <2>1
<1>7. files[new] = FS!Absent \/ ~(files[p].type = "dir" \/ files[new].type = "dir")
  <2>1. CASE meta[new].type = "none"
    BY <1>1, <2>1, AbsentNode
  <2>2. CASE meta[new].type # "none"
    <3>1. Exists(m, new)
      BY <1>1, <1>2, <1>6, <2>2, ExistsIsType
    <3>2. meta[new].type # "dir" /\ meta[p].type # "dir"
      BY <1>3, <1>4, <1>6, <3>1 DEF Conflict, IsDir
    <3>3. files[new].type = meta[new].type
      BY <1>1 DEF Nodes
    <3>4. QED
      BY <1>5, <3>2, <3>3
  <2>3. QED
    BY <2>1, <2>2
<1>8. ASSUME NEW q \in Below(p)
      PROVE  q \in Path /\ q \notin D /\ (m[q].type # "none" <=> files[q] # FS!Absent)
  <2>1. q \in Path /\ p \in Above(q)
    BY DEF Below
  <2>2. q \notin Above(p) /\ q \notin Above(new)
    BY <1>1, <2>1, AboveIsChain
  <2>3. q \notin D /\ m[q] = meta[q]
    BY <1>2, <2>1, <2>2
  <2>4. CASE meta[q].type = "none"
    BY <2>1, <2>3, <2>4, AbsentNode
  <2>5. CASE meta[q].type # "none"
    BY <2>1, <2>3, <2>5, PresentNode
  <2>6. QED
    BY <2>1, <2>3, <2>4, <2>5
<1>9. moved = {p} \cup (IF files[p].type = "dir" THEN {q \in Below(p) : files[q] # FS!Absent} ELSE {})
  <2>1. moved = {p} \cup (IF m[p].type = "dir" THEN {q \in Below(p) : m[q].type # "none"} ELSE {})
    BY <1>1, <1>2, MovedPaths
  <2> HIDE DEF moved
  <2>2. m[p].type = files[p].type
    BY <1>4, <1>5
  <2>3. {q \in Below(p) : m[q].type # "none"} = {q \in Below(p) : files[q] # FS!Absent}
    BY <1>8
  <2>4. QED
    BY <2>1, <2>2, <2>3
<1>10. /\ Filled(meta', rows')
       /\ Nodes(meta', rows') =
            [q \in Path |->
               IF q \in images THEN Nodes(m, rows)[CHOOSE r \in moved : Image(r, p, new) = q]
               ELSE IF q \in moved THEN FS!Absent ELSE Nodes(m, rows)[q]]
  BY <1>1, <1>2, <1>3, RelocationInFiles
<1>11. \A q \in moved : Nodes(m, rows)[q] = files[q]
  <2>1. \A q \in moved : q \in Path /\ q \notin D
    BY <1>1, <1>4, <1>8, <1>9
  <2>2. FS!WithDirs(D) = [x \in Path |-> IF x \in D THEN FS!Directory ELSE Nodes(meta, rows)[x]]
    BY DEF FS!WithDirs, Nodes, Contents
  <2>3. QED
    BY <1>2, <2>1, <2>2
<1> HIDE DEF moved, files
<1>12. Nodes(meta', rows') =
         [q \in Path |->
            IF q \in images THEN files[CHOOSE r \in moved : Image(r, p, new) = q]
            ELSE IF q \in moved THEN FS!Absent ELSE FS!WithDirs(D)[q]]
  <2>1. ASSUME NEW q \in images
        PROVE  Nodes(m, rows)[CHOOSE r \in moved : Image(r, p, new) = q]
               = files[CHOOSE r \in moved : Image(r, p, new) = q]
    <3>1. \E r \in moved : Image(r, p, new) = q
      BY <2>1
    <3>2. (CHOOSE r \in moved : Image(r, p, new) = q) \in moved
      BY <3>1
    <3>3. QED
      BY <1>11, <3>2
  <2> HIDE DEF images
  <2>2. QED
    BY <1>2, <1>10, <2>1
<1>13. Renames(p, new)
  BY <1>2, <1>3, <1>5, <1>7, <1>9, <1>12 DEF Renames, files
<1>14. FS!Next
  BY <1>13, RenameStep
<1>15. QED
  BY <1>10, <1>14

-----------------------------------------------------------------------------
(* The theorems.                                                           *)

\* The inductive invariant: sound tables, blocks that fit their sizes, and the
\* count of calls within its bound.
FInv == Sound(meta, rows) /\ Filled(meta, rows) /\ calls \in 0..MaxCalls

\* An empty database has no blocks, and stands for the root alone.
LEMMA InitFInv == Init => FInv /\ FS!Init
<1> SUFFICES ASSUME Init PROVE FInv /\ FS!Init
  OBVIOUS
<1>1. /\ meta = [p \in Path |-> IF p = Root THEN Entry("dir", 0) ELSE NoEntry]
      /\ rows = [p \in Path |-> NoBlocks]
      /\ calls = 0
  BY DEF Init
<1>2. Sound(meta, rows)
  BY InitIInv DEF IInv
<1>3. ASSUME NEW p \in Path
      PROVE  /\ FileOK(rows[p], meta[p].size)
             /\ Nodes(meta, rows)[p] = IF p = Root THEN FS!Directory ELSE FS!Absent
  <2>1. meta[p] = (IF p = Root THEN Entry("dir", 0) ELSE NoEntry) /\ rows[p] = NoBlocks
    BY <1>1
  <2>2. meta[p].size = 0 /\ meta[p].type = IF p = Root THEN "dir" ELSE "none"
    BY <2>1 DEF NoEntry, Entry
  <2>3. FileOK(rows[p], meta[p].size) /\ Nodes(meta, rows)[p] = [type |-> meta[p].type, data |-> <<>>]
    BY <2>1, <2>2, EmptyNode
  <2>4. QED
    BY <2>2, <2>3 DEF FS!Directory, FS!Absent
<1>4. Filled(meta, rows)
  BY <1>3 DEF Filled
<1>5. calls \in 0..MaxCalls
  BY <1>1, CallsType
<1>6. \A p \in Path : Above(p) = {} <=> p = Root
  BY RootIsTop
<1>7. Nodes(meta, rows) = [p \in Path |-> IF Above(p) = {} THEN FS!Directory ELSE FS!Absent]
  <2>1. Nodes(meta, rows) = [p \in Path |-> Nodes(meta, rows)[p]]
    BY DEF Nodes
  <2>2. QED
    BY <1>3, <1>6, <2>1
<1>8. FS!Init
  BY <1>7 DEF FS!Init, Nodes, Contents
<1>9. QED
  BY <1>2, <1>4, <1>5, <1>8 DEF FInv

\* Every call on one path is a step of the file store.
LEMMA CallImplements ==
  ASSUME Sound(meta, rows), Filled(meta, rows), NEW p \in Path \ {Root}, Call(p)
  PROVE  Filled(meta', rows') /\ FS!Next
<1>1. CASE Mkdir(p)
  BY <1>1, MakeNodeImplements DEF Mkdir
<1>2. CASE Mknod(p) \/ Create(p)
  BY <1>2, MakeNodeImplements DEF Mknod, Create
<1>3. CASE Symlink(p)
  BY <1>3, SymlinkImplements
<1>4. CASE Unlink(p)
  BY <1>4, UnlinkImplements
<1>5. CASE Rmdir(p)
  BY <1>5, RmdirImplements
<1>6. CASE DelTree(p)
  BY <1>6, DelTreeImplements
<1>7. ASSUME NEW n \in Lengths, Truncate(p, n) PROVE Filled(meta', rows') /\ FS!Next
  BY <1>7, TruncateImplements
<1>8. ASSUME NEW creat \in BOOLEAN, NEW trunc \in BOOLEAN, Open(p, creat, trunc)
      PROVE  Filled(meta', rows') /\ FS!Next
  BY <1>8, OpenImplements
<1>9. ASSUME NEW w \in Writes, NEW append \in BOOLEAN, Write(p, w[1], w[2], append)
      PROVE  Filled(meta', rows') /\ FS!Next
  BY <1>9, WriteImplements
<1>10. QED
  BY <1>1, <1>2, <1>3, <1>4, <1>5, <1>6, <1>7, <1>8, <1>9 DEF Call

\* Every call is counted.
LEMMA CallsAreCounted ==
  ASSUME Next
  PROVE  calls < MaxCalls /\ calls' = calls + 1
<1>1. ASSUME NEW m, NEW n, NEW p, TruncateIn(m, p, n)
      PROVE  calls < MaxCalls /\ calls' = calls + 1
  BY <1>1 DEF TruncateIn, Put, Commit
<1>2. ASSUME NEW p, Call(p) PROVE calls < MaxCalls /\ calls' = calls + 1
  <2>1. CASE Mkdir(p) \/ Mknod(p) \/ Create(p)
    BY <2>1 DEF Mkdir, Mknod, Create, MakeNode, Commit
  <2>2. CASE Symlink(p)
    BY <2>2 DEF Symlink, Put, Commit
  <2>3. CASE Unlink(p) \/ Rmdir(p) \/ DelTree(p)
    BY <2>3 DEF Unlink, Rmdir, DelTree, RemoveKeys, Commit
  <2>4. ASSUME NEW n, Truncate(p, n) PROVE calls < MaxCalls /\ calls' = calls + 1
    BY <1>1, <2>4 DEF Truncate
  <2>5. ASSUME NEW creat, NEW trunc, Open(p, creat, trunc)
        PROVE  calls < MaxCalls /\ calls' = calls + 1
    BY <1>1, <2>5 DEF Open, Commit
  <2>6. ASSUME NEW off, NEW n, NEW append, Write(p, off, n, append)
        PROVE  calls < MaxCalls /\ calls' = calls + 1
    BY <2>6 DEF Write, Put, Commit
  <2>7. QED
    BY <1>2, <2>1, <2>2, <2>3, <2>4, <2>5, <2>6 DEF Call
<1>3. ASSUME NEW p, NEW q, RenameCall(p, q) PROVE calls < MaxCalls /\ calls' = calls + 1
  BY <1>3 DEF RenameCall, Rename, RenameNothing, RefuseRename, Relocate, RemoveKeys, Commit
<1>4. QED
  BY <1>2, <1>3 DEF Next

\* Every step of libsqlfs keeps the invariant and is a step of the file store.
LEMMA NextImplements == FInv /\ [Next]_vars => FInv' /\ FS!Next
<1> SUFFICES ASSUME FInv, [Next]_vars PROVE FInv' /\ FS!Next
  OBVIOUS
<1>1. Sound(meta, rows) /\ Filled(meta, rows)
  BY DEF FInv
<1>2. CASE UNCHANGED vars
  <2>1. meta' = meta /\ rows' = rows /\ calls' = calls
    BY <1>2 DEF vars
  <2>2. QED
    BY <1>1, <2>1, NothingChanged DEF FInv
<1>3. CASE Next
  <2>1. calls' \in 0..MaxCalls
    BY <1>3, CallsAreCounted, CallsType DEF FInv
  <2>2. ASSUME NEW p \in Path \ {Root}, Call(p)
        PROVE  Sound(meta', rows') /\ Filled(meta', rows') /\ FS!Next
    BY <1>1, <2>2, CallKeeps, CallImplements DEF Keeps
  <2>3. ASSUME NEW p \in Path \ {Root}, NEW q \in Path \ ({Root} \cup Below(p)), RenameCall(p, q)
        PROVE  Sound(meta', rows') /\ Filled(meta', rows') /\ FS!Next
    <3>1. CASE Rename(p, q)
      BY <1>1, <3>1, RenameKeeps, RenameImplements
    <3>2. CASE RenameNothing(p, q)
      BY <1>1, <3>2, RenameKeeps, RenameNothingImplements
    <3>3. CASE RefuseRename(p, q)
      BY <1>1, <3>3, RefuseRenameKeeps, RefuseRenameImplements
    <3>4. QED
      BY <2>3, <3>1, <3>2, <3>3 DEF RenameCall
  <2>4. Sound(meta', rows') /\ Filled(meta', rows') /\ FS!Next
    BY <1>3, <2>2, <2>3 DEF Next
  <2>5. QED
    BY <2>1, <2>4 DEF FInv
<1>4. QED
  BY <1>2, <1>3

\* The columns have their types and the blocks fit the sizes always.
LEMMA FilledInvariance == Spec => []FInv
<1>1. Init => FInv
  BY InitFInv
<1>2. FInv /\ [Next]_vars => FInv'
  BY NextImplements
<1>3. QED
  BY <1>1, <1>2, PTL DEF Spec

\* The tables always hold what their columns allow, and no stored byte is one
\* that was never written.
THEOREM ColumnsAreKept == Spec => []TypeOK
<1>1. FInv => TypeOK
  <2> SUFFICES ASSUME FInv PROVE TypeOK
    OBVIOUS
  <2>1. meta \in [Path -> [type : {"none", "dir", "blob", "link"}, size : Nat]]
    BY DEF FInv, Sound, Kind
  <2>2. ASSUME NEW p \in Path, NEW b \in DOMAIN rows[p]
        PROVE  b \in Nat /\ rows[p][b] \in Seq(Nat)
    BY <2>2 DEF FInv, Filled, FileOK, Blocks
  <2>3. QED
    BY <2>1, <2>2 DEF TypeOK, FInv
<1>2. QED
  BY <1>1, FilledInvariance, PTL

\* The blocks of every file always fit the size that meta_data says.
THEOREM BlocksFitSizes == Spec => []BlocksMatchSize
<1>1. FInv => BlocksMatchSize
  <2> SUFFICES ASSUME FInv, NEW p \in Path
               PROVE  LET size == meta[p].size
                          last == (size - 1) \div BlockSize
                      IN /\ DOMAIN rows[p] = IF size = 0 THEN {} ELSE 0..last
                         /\ \A b \in DOMAIN rows[p] :
                              Len(rows[p][b]) = IF b = last THEN size - b * BlockSize
                                                ELSE BlockSize
    BY DEF BlocksMatchSize
  <2> DEFINE size == meta[p].size
             last == (size - 1) \div BlockSize
  <2>1. size \in Nat /\ FileOK(rows[p], size)
    BY DEF FInv, Sound, Filled
  <2> HIDE DEF size
  <2>2. /\ DOMAIN rows[p] = Blocks(size)
        /\ \A b \in Blocks(size) : Len(rows[p][b]) = BlockLength(b, size)
    BY <2>1 DEF FileOK
  <2>3. BlockSize \in Nat \ {0}
    BY BlockSizeType
  <2>4. CASE size = 0
    <3>1. Blocks(size) = {}
      BY <2>4, BlockOrder DEF Blocks
    <3>2. QED
      BY <2>2, <2>4, <3>1 DEF size
  <2>5. CASE size # 0
    <3>1. size - 1 \in Nat
      BY <2>1, <2>5
    <3>2. last \in Nat
      BY <3>1, Position
    <3>3. \A b \in Nat : b <= last <=> b * BlockSize <= size - 1
      BY <3>1, BlockOfPosition
    <3> HIDE DEF last
    <3>4. \A b \in Nat : b \in Blocks(size) <=> b \in 0..last
      <4> SUFFICES ASSUME NEW b \in Nat PROVE b \in Blocks(size) <=> b \in 0..last
        OBVIOUS
      <4>1. b * BlockSize \in Nat /\ (b <= last <=> b * BlockSize <= size - 1)
        BY <3>3, BlockOrder
      <4>2. QED
        BY <2>1, <3>2, <4>1 DEF Blocks
    <3>5. Blocks(size) = 0..last
      BY <3>2, <3>4 DEF Blocks
    <3>6. ASSUME NEW b \in 0..last
          PROVE  BlockLength(b, size) = IF b = last THEN size - b * BlockSize ELSE BlockSize
      <4>1. b \in Nat /\ b * BlockSize \in Nat /\ last * BlockSize \in Nat
            /\ (b < last <=> b * BlockSize + BlockSize <= last * BlockSize)
        BY <3>2, BlockOrder
      <4>2. last * BlockSize <= size - 1 /\ ~((last + 1) * BlockSize <= size - 1)
        BY <3>2, <3>3
      <4>3. (last + 1) * BlockSize = last * BlockSize + BlockSize
        BY <2>3, <3>2
      <4>4. CASE b = last
        BY <2>1, <2>3, <4>1, <4>2, <4>3, <4>4 DEF BlockLength
      <4>5. CASE b < last
        BY <2>1, <2>3, <4>1, <4>2, <4>5 DEF BlockLength
      <4>6. QED
        BY <3>2, <4>4, <4>5
    <3>7. QED
      BY <2>2, <2>5, <3>5, <3>6 DEF last, size
  <2>6. QED
    BY <2>4, <2>5
<1>2. QED
  BY <1>1, FilledInvariance, PTL

\* libsqlfs implements the file store: names and contents change only as the
\* calls say, whatever blocks the contents fall into.
THEOREM FilesAreStored == Spec => ImplementsFileStore
<1>1. Init => FS!Init
  BY InitFInv
<1>2. FInv /\ [Next]_vars => FS!Next
  BY NextImplements
<1>3. QED
  BY <1>1, <1>2, FilledInvariance, PTL DEF Spec, ImplementsFileStore, FS!Spec
=============================================================================
