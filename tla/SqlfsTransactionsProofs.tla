---------------------- MODULE SqlfsTransactionsProofs ----------------------
(***************************************************************************)
(* Proofs about SqlfsTransactions for any number of threads, calls and     *)
(* refusals: what the level counts, that what is committed is consistent,  *)
(* and that calls are atomic until a BEGIN is refused.                     *)
(***************************************************************************)
EXTENDS SqlfsTransactions, SequenceTheorems, FiniteSetTheorems, TLAPS

Word == {"begin", "readPos", "readSize", "commit"} \cup Writes

-----------------------------------------------------------------------------
(* Counting the words of a sequence.                                       *)

\* Taking off the head takes one off the count of its word.
LEMMA CountTail ==
  ASSUME NEW s \in Seq(Word), s # <<>>, NEW w
  PROVE  /\ Count(w, s) \in Nat /\ Count(w, Tail(s)) \in Nat
         /\ Count(w, Tail(s)) = IF Head(s) = w THEN Count(w, s) - 1 ELSE Count(w, s)
<1> DEFINE At(q) == {i \in DOMAIN q : q[i] = w}
           shift == [i \in At(Tail(s)) |-> i + 1]
<1>1. /\ Len(s) \in Nat /\ Len(s) > 0 /\ DOMAIN s = 1..Len(s)
      /\ DOMAIN Tail(s) = 1..(Len(s) - 1) /\ Head(s) = s[1]
      /\ \A i \in 1..(Len(s) - 1) : Tail(s)[i] = s[i + 1]
  BY HeadTailProperties, LenProperties, EmptySeq
<1>2. IsFiniteSet(At(s)) /\ IsFiniteSet(At(Tail(s)))
  <2>1. IsFiniteSet(1..Len(s)) /\ IsFiniteSet(1..(Len(s) - 1))
    BY <1>1, FS_Interval
  <2>2. At(s) \subseteq 1..Len(s) /\ At(Tail(s)) \subseteq 1..(Len(s) - 1)
    BY <1>1
  <2>3. QED
    BY <2>1, <2>2, FS_Subset
<1>3. Cardinality(At(Tail(s))) = Cardinality(At(s) \ {1})
  <2>1. shift \in [At(Tail(s)) -> At(s) \ {1}]
    BY <1>1
  <2>2. ASSUME NEW i \in At(s) \ {1} PROVE \E j \in At(Tail(s)) : shift[j] = i
    <3>1. i - 1 \in At(Tail(s)) /\ (i - 1) + 1 = i
      BY <1>1
    <3>2. QED
      BY <3>1
  <2>3. \A i, j \in At(Tail(s)) : shift[i] = shift[j] => i = j
    BY <1>1
  <2>4. shift \in Bijection(At(Tail(s)), At(s) \ {1})
    BY <2>1, <2>2, <2>3 DEF Bijection, Injection, Surjection, IsInjective
  <2>5. ExistsBijection(At(Tail(s)), At(s) \ {1})
    BY <2>4 DEF ExistsBijection
  <2>6. IsFiniteSet(At(s) \ {1})
    BY <1>2, FS_Subset
  <2>7. QED
    BY ONLY <1>2, <2>5, <2>6, FS_Bijection
<1>4. CASE Head(s) = w
  <2>1. 1 \in At(s)
    BY <1>1, <1>4
  <2>2. Cardinality(At(s) \ {1}) = Cardinality(At(s)) - 1
    BY <1>2, <2>1, FS_RemoveElement
  <2>3. QED
    BY <1>2, <1>3, <1>4, <2>2, FS_CardinalityType DEF Count
<1>5. CASE Head(s) # w
  <2>1. At(s) \ {1} = At(s)
    BY <1>1, <1>5
  <2>2. QED
    BY <1>2, <1>3, <1>5, <2>1, FS_CardinalityType DEF Count
<1>6. QED
  BY <1>4, <1>5

\* Nothing is counted in an empty sequence.
LEMMA CountEmpty ==
  ASSUME NEW w
  PROVE  Count(w, <<>>) = 0
<1>1. {i \in DOMAIN <<>> : <<>>[i] = w} = {}
  OBVIOUS
<1>2. QED
  BY <1>1, FS_EmptySet DEF Count

-----------------------------------------------------------------------------
(* What is left of a call.                                                 *)

A11 == <<"begin", "readPos", "readSize", "begin", "createfile", "begin", "block", "commit",
         "updatesize", "commit", "commit">>
A10 == <<"readPos", "readSize", "begin", "createfile", "begin", "block", "commit",
         "updatesize", "commit", "commit">>
A9 == <<"readSize", "begin", "createfile", "begin", "block", "commit", "updatesize", "commit",
        "commit">>
A8 == <<"begin", "createfile", "begin", "block", "commit", "updatesize", "commit", "commit">>
A7 == <<"createfile", "begin", "block", "commit", "updatesize", "commit", "commit">>
A6 == <<"begin", "block", "commit", "updatesize", "commit", "commit">>
A5 == <<"block", "commit", "updatesize", "commit", "commit">>
A4 == <<"commit", "updatesize", "commit", "commit">>
A3 == <<"updatesize", "commit", "commit">>
C2 == <<"commit", "commit">>
C1 == <<"commit">>
R6 == <<"begin", "begin", "deleteMeta", "deleteValue", "commit", "commit">>
R5 == <<"begin", "deleteMeta", "deleteValue", "commit", "commit">>
R4 == <<"deleteMeta", "deleteValue", "commit", "commit">>
R3 == <<"deleteValue", "commit", "commit">>
Left == {A11, A10, A9, A8, A7, A6, A5, A4, A3, R6, R5, R4, R3, C2, C1, <<>>}

Opens(s) == Count("commit", s) - Count("begin", s)

\* Each is a sequence of words whose first word and rest are as written.
LEMMA LeftTails ==
  /\ Left \subseteq Seq(Word)
  /\ A11 \in Seq(Word) /\ A10 \in Seq(Word) /\ A9 \in Seq(Word) /\ A8 \in Seq(Word)
  /\ A7 \in Seq(Word) /\ A6 \in Seq(Word) /\ A5 \in Seq(Word) /\ A4 \in Seq(Word)
  /\ A3 \in Seq(Word) /\ C2 \in Seq(Word) /\ C1 \in Seq(Word) /\ R6 \in Seq(Word)
  /\ R5 \in Seq(Word) /\ R4 \in Seq(Word) /\ R3 \in Seq(Word)
  /\ Tail(A11) = A10 /\ Tail(A10) = A9 /\ Tail(A9) = A8 /\ Tail(A8) = A7 /\ Tail(A7) = A6
  /\ Tail(A6) = A5 /\ Tail(A5) = A4 /\ Tail(A4) = A3 /\ Tail(A3) = C2
  /\ Tail(R6) = R5 /\ Tail(R5) = R4 /\ Tail(R4) = R3 /\ Tail(R3) = C2
  /\ Tail(C2) = C1 /\ Tail(C1) = <<>>
<1>1. Left \subseteq Seq(Word)
  BY DEF Left, A11, A10, A9, A8, A7, A6, A5, A4, A3, C2, C1, R6, R5, R4, R3, Word, Writes
<1>2. Tail(A11) = A10 /\ Tail(A10) = A9 /\ Tail(A9) = A8
  BY DEF A11, A10, A9, A8
<1>3. Tail(A8) = A7 /\ Tail(A7) = A6 /\ Tail(A6) = A5
  BY DEF A8, A7, A6, A5
<1>4. Tail(A5) = A4 /\ Tail(A4) = A3 /\ Tail(A3) = C2
  BY DEF A5, A4, A3, C2
<1>5. Tail(R6) = R5 /\ Tail(R5) = R4 /\ Tail(R4) = R3 /\ Tail(R3) = C2
  BY DEF R6, R5, R4, R3, C2
<1>6. Tail(C2) = C1 /\ Tail(C1) = <<>>
  BY DEF C2, C1
<1>7. QED
  BY <1>1, <1>2, <1>3, <1>4, <1>5, <1>6 DEF Left

\* The first statement of each stage of a call.
LEMMA LeftHeads ==
  /\ Head(A11) = "begin" /\ Head(A10) = "readPos" /\ Head(A9) = "readSize"
  /\ Head(A8) = "begin" /\ Head(A7) = "createfile" /\ Head(A6) = "begin"
  /\ Head(A5) = "block" /\ Head(A4) = "commit" /\ Head(A3) = "updatesize"
  /\ Head(R6) = "begin" /\ Head(R5) = "begin" /\ Head(R4) = "deleteMeta"
  /\ Head(R3) = "deleteValue" /\ Head(C2) = "commit" /\ Head(C1) = "commit"
  /\ <<>> \notin {A11, A10, A9, A8, A7, A6, A5, A4, A3, R6, R5, R4, R3, C2, C1}
BY DEF A11, A10, A9, A8, A7, A6, A5, A4, A3, C2, C1, R6, R5, R4, R3

\* The head counts for what is left open.
LEMMA OpensTail ==
  ASSUME NEW s \in Seq(Word), s # <<>>
  PROVE  /\ Opens(s) \in Int /\ Opens(Tail(s)) \in Int
         /\ Head(s) = "begin" => Opens(Tail(s)) = Opens(s) + 1
         /\ Head(s) = "commit" => Opens(Tail(s)) = Opens(s) - 1
         /\ Head(s) \notin {"begin", "commit"} => Opens(Tail(s)) = Opens(s)
BY CountTail DEF Opens

\* How many functions have begun and not committed, by what is left.
LEMMA OpensLeft ==
  /\ Opens(<<>>) = 0
  /\ Opens(C1) = 1 /\ Opens(C2) = 2 /\ Opens(A3) = 2 /\ Opens(A4) = 3 /\ Opens(A5) = 3
  /\ Opens(A6) = 2 /\ Opens(A7) = 2 /\ Opens(A8) = 1 /\ Opens(A9) = 1 /\ Opens(A10) = 1
  /\ Opens(A11) = 0
  /\ Opens(R3) = 2 /\ Opens(R4) = 2 /\ Opens(R5) = 1 /\ Opens(R6) = 0
<1>0. Opens(<<>>) = 0
  BY CountEmpty DEF Opens
<1>1. Opens(C1) = 1
  <2>1. C1 \in Seq(Word) /\ C1 # <<>> /\ Head(C1) = "commit" /\ Tail(C1) = <<>>
    BY LeftTails, LeftHeads
  <2>2. Opens(C1) \in Int /\ Opens(<<>>) = Opens(C1) - 1
    BY <2>1, OpensTail
  <2>3. QED
    BY <1>0, <2>2
<1>2. Opens(C2) = 2
  <2>1. C2 \in Seq(Word) /\ C2 # <<>> /\ Head(C2) = "commit" /\ Tail(C2) = C1
    BY LeftTails, LeftHeads
  <2>2. Opens(C2) \in Int /\ Opens(C1) = Opens(C2) - 1
    BY <2>1, OpensTail
  <2>3. QED
    BY <1>1, <2>2
<1>3. Opens(A3) = 2
  <2>1. A3 \in Seq(Word) /\ A3 # <<>> /\ Head(A3) = "updatesize" /\ Tail(A3) = C2
    BY LeftTails, LeftHeads
  <2>2. QED
    BY <1>2, <2>1, OpensTail
<1>4. Opens(A4) = 3
  <2>1. A4 \in Seq(Word) /\ A4 # <<>> /\ Head(A4) = "commit" /\ Tail(A4) = A3
    BY LeftTails, LeftHeads
  <2>2. Opens(A4) \in Int /\ Opens(A3) = Opens(A4) - 1
    BY <2>1, OpensTail
  <2>3. QED
    BY <1>3, <2>2
<1>5. Opens(A5) = 3
  <2>1. A5 \in Seq(Word) /\ A5 # <<>> /\ Head(A5) = "block" /\ Tail(A5) = A4
    BY LeftTails, LeftHeads
  <2>2. QED
    BY <1>4, <2>1, OpensTail
<1>6. Opens(A6) = 2
  <2>1. A6 \in Seq(Word) /\ A6 # <<>> /\ Head(A6) = "begin" /\ Tail(A6) = A5
    BY LeftTails, LeftHeads
  <2>2. Opens(A6) \in Int /\ Opens(A5) = Opens(A6) + 1
    BY <2>1, OpensTail
  <2>3. QED
    BY <1>5, <2>2
<1>7. Opens(A7) = 2
  <2>1. A7 \in Seq(Word) /\ A7 # <<>> /\ Head(A7) = "createfile" /\ Tail(A7) = A6
    BY LeftTails, LeftHeads
  <2>2. QED
    BY <1>6, <2>1, OpensTail
<1>8. Opens(A8) = 1
  <2>1. A8 \in Seq(Word) /\ A8 # <<>> /\ Head(A8) = "begin" /\ Tail(A8) = A7
    BY LeftTails, LeftHeads
  <2>2. Opens(A8) \in Int /\ Opens(A7) = Opens(A8) + 1
    BY <2>1, OpensTail
  <2>3. QED
    BY <1>7, <2>2
<1>9. Opens(A9) = 1
  <2>1. A9 \in Seq(Word) /\ A9 # <<>> /\ Head(A9) = "readSize" /\ Tail(A9) = A8
    BY LeftTails, LeftHeads
  <2>2. QED
    BY <1>8, <2>1, OpensTail
<1>10. Opens(A10) = 1
  <2>1. A10 \in Seq(Word) /\ A10 # <<>> /\ Head(A10) = "readPos" /\ Tail(A10) = A9
    BY LeftTails, LeftHeads
  <2>2. QED
    BY <1>9, <2>1, OpensTail
<1>11. Opens(A11) = 0
  <2>1. A11 \in Seq(Word) /\ A11 # <<>> /\ Head(A11) = "begin" /\ Tail(A11) = A10
    BY LeftTails, LeftHeads
  <2>2. Opens(A11) \in Int /\ Opens(A10) = Opens(A11) + 1
    BY <2>1, OpensTail
  <2>3. QED
    BY <1>10, <2>2
<1>12. Opens(R3) = 2
  <2>1. R3 \in Seq(Word) /\ R3 # <<>> /\ Head(R3) = "deleteValue" /\ Tail(R3) = C2
    BY LeftTails, LeftHeads
  <2>2. QED
    BY <1>2, <2>1, OpensTail
<1>13. Opens(R4) = 2
  <2>1. R4 \in Seq(Word) /\ R4 # <<>> /\ Head(R4) = "deleteMeta" /\ Tail(R4) = R3
    BY LeftTails, LeftHeads
  <2>2. QED
    BY <1>12, <2>1, OpensTail
<1>14. Opens(R5) = 1
  <2>1. R5 \in Seq(Word) /\ R5 # <<>> /\ Head(R5) = "begin" /\ Tail(R5) = R4
    BY LeftTails, LeftHeads
  <2>2. Opens(R5) \in Int /\ Opens(R4) = Opens(R5) + 1
    BY <2>1, OpensTail
  <2>3. QED
    BY <1>13, <2>2
<1>15. Opens(R6) = 0
  <2>1. R6 \in Seq(Word) /\ R6 # <<>> /\ Head(R6) = "begin" /\ Tail(R6) = R5
    BY LeftTails, LeftHeads
  <2>2. Opens(R6) \in Int /\ Opens(R5) = Opens(R6) + 1
    BY <2>1, OpensTail
  <2>3. QED
    BY <1>14, <2>2
<1>16. QED
  BY <1>0, <1>1, <1>2, <1>3, <1>4, <1>5, <1>6, <1>7, <1>8, <1>9, <1>10, <1>11, <1>12, <1>13,
     <1>14, <1>15

\* An error leaves commits only.
Commits(k) == [i \in 1..k |-> "commit"]

\* What an error leaves of a call: its open functions' commits.
LEMMA CommitsAre ==
  ASSUME NEW k \in Nat
  PROVE  /\ Commits(k) \in Seq(Word)
         /\ Opens(Commits(k)) = k
         /\ k > 0 => /\ Commits(k) # <<>> /\ Head(Commits(k)) = "commit"
                     /\ Tail(Commits(k)) = Commits(k - 1)
         /\ k = 0 => Commits(k) = <<>>
<1>1. Commits(k) \in Seq(Word) /\ Len(Commits(k)) = k /\ DOMAIN Commits(k) = 1..k
  BY DEF Commits, Word
<1>2. Count("commit", Commits(k)) = k
  <2>1. {i \in DOMAIN Commits(k) : Commits(k)[i] = "commit"} = 1..k
    BY DEF Commits
  <2>2. Cardinality(1..k) = k
    BY FS_Interval
  <2>3. QED
    BY <2>1, <2>2 DEF Count
<1>3. Count("begin", Commits(k)) = 0
  <2>1. {i \in DOMAIN Commits(k) : Commits(k)[i] = "begin"} = {}
    BY DEF Commits
  <2>2. QED
    BY <2>1, FS_EmptySet DEF Count
<1>4. ASSUME k > 0
      PROVE  /\ Commits(k) # <<>> /\ Head(Commits(k)) = "commit"
             /\ Tail(Commits(k)) = Commits(k - 1)
  BY <1>1, <1>4, HeadTailProperties, EmptySeq DEF Commits
<1>5. k = 0 => Commits(k) = <<>>
  BY <1>1, EmptySeq
<1>6. QED
  BY <1>1, <1>2, <1>3, <1>4, <1>5 DEF Opens

\* What a connection has still to do.
Shapes == Left \cup {Commits(k) : k \in Nat}

\* What is left of a call after a statement is again what is left of a call.
LEMMA ShapeTails ==
  ASSUME NEW s \in Shapes
  PROVE  /\ s \in Seq(Word) /\ Opens(s) \in Nat
         /\ s # <<>> => /\ Tail(s) \in Shapes
                        /\ Head(s) = "begin" => Opens(Tail(s)) = Opens(s) + 1
                        /\ Head(s) = "commit" => Opens(Tail(s)) = Opens(s) - 1
                        /\ Head(s) \notin {"begin", "commit"} => Opens(Tail(s)) = Opens(s)
<1>1. CASE s \in Left
  <2>1. s \in Seq(Word) /\ Opens(s) \in Nat
    <3>1. s \in Seq(Word)
      BY <1>1, LeftTails
    <3>2. Opens(s) \in {0, 1, 2, 3}
      BY <1>1, OpensLeft DEF Left
    <3>3. QED
      BY <3>1, <3>2
  <2>2. s # <<>> => Tail(s) \in Left
    BY <1>1, LeftTails DEF Left
  <2>3. QED
    BY <2>1, <2>2, OpensTail DEF Shapes
<1>2. CASE \E k \in Nat : s = Commits(k)
  <2>1. PICK k \in Nat : s = Commits(k)
    BY <1>2
  <2>2. CASE k = 0
    BY <2>1, <2>2, CommitsAre
  <2>3. CASE k > 0
    <3>1. Tail(s) \in Shapes
      BY <2>1, <2>3, CommitsAre DEF Shapes
    <3>2. QED
      BY <2>1, <2>3, <3>1, CommitsAre, OpensTail
  <2>4. QED
    BY <2>2, <2>3
<1>3. QED
  BY <1>1, <1>2 DEF Shapes

\* The first word tells how far a call is.
LEMMA LeftByHead ==
  ASSUME NEW s \in Left, s # <<>>
  PROVE  /\ Head(s) = "begin" => s \in {A11, A8, A6, R6, R5}
         /\ Head(s) = "commit" => s \in {A4, C2, C1}
         /\ Head(s) = "readPos" => s = A10
         /\ Head(s) = "readSize" => s = A9
         /\ Head(s) \in Writes => s \in {A7, A5, A3, R4, R3}
<1>1. s \in {A11, A10, A9, A8, A7, A6, A5, A4, A3, R6, R5, R4, R3, C2, C1}
  BY DEF Left
<1>2. QED
  BY <1>1, LeftHeads DEF Writes

\* No two of them are the same.
LEMMA LeftLengths ==
  /\ Len(A11) = 11 /\ Len(A10) = 10 /\ Len(A9) = 9 /\ Len(A8) = 8 /\ Len(A7) = 7
  /\ Len(A6) = 6 /\ Len(A5) = 5 /\ Len(A4) = 4 /\ Len(A3) = 3 /\ Len(C2) = 2 /\ Len(C1) = 1
  /\ Len(R6) = 6 /\ Len(R5) = 5 /\ Len(R4) = 4 /\ Len(R3) = 3 /\ Len(<<>>) = 0
  /\ A6 # R6 /\ A5 # R5 /\ A4 # R4 /\ A3 # R3
<1>1. A6 # R6 /\ A5 # R5 /\ A4 # R4 /\ A3 # R3
  BY LeftHeads, OpensLeft
<1>2. QED
  BY <1>1 DEF A11, A10, A9, A8, A7, A6, A5, A4, A3, C2, C1, R6, R5, R4, R3

-----------------------------------------------------------------------------
(* Types.                                                                  *)

Table == [entry : BOOLEAN, size : Nat, blocks : SUBSET Nat]

Types ==
  /\ lock = NoConn => work = NoFile
  /\ db \in Table /\ work \in Table
  /\ lock \in Conn \cup {NoConn}
  /\ level \in [Conn -> Int]
  /\ todo \in [Conn -> Shapes]
  /\ pos \in [Conn -> Nat] /\ size \in [Conn -> Nat]
  /\ group \subseteq Conn
  /\ refused \in [Conn -> Nat]
  /\ clean \in BOOLEAN
  /\ calls \in Nat /\ refusals \in Nat /\ groups \in Nat

\* The types of the invariant are those of the model, and more.
LEMMA TypesGiveTypeOK == Types => TypeOK
<1>1. Shapes \subseteq Seq(Word)
  BY ShapeTails
<1>2. QED
  BY <1>1 DEF Types, TypeOK, Word, Table

\* Statements write tables.
LEMMA WrittenType ==
  ASSUME Types, NEW c \in Conn, NEW word \in Writes, NEW t \in Table
  PROVE  Written(c, word, t) \in Table
<1>1. pos[c] \in Nat /\ size[c] \in Nat
  BY DEF Types
<1>2. Larger(pos[c] + 1, size[c]) \in Nat
  BY <1>1 DEF Larger
<1>3. CASE word = "createfile"
  BY <1>3 DEF Written, Table
<1>4. CASE word = "block"
  BY <1>1, <1>4 DEF Written, Table
<1>5. CASE word = "updatesize"
  BY <1>2, <1>5 DEF Written, Table
<1>6. CASE word = "deleteMeta"
  BY <1>6 DEF Written, Table
<1>7. CASE word = "deleteValue"
  BY <1>7 DEF Written, Table
<1>8. QED
  BY <1>3, <1>4, <1>5, <1>6, <1>7 DEF Writes

\* The tables without the file are tables.
LEMMA NoFileType == NoFile \in Table
BY DEF NoFile, Table

\* The three operations on transactions keep types.
LEMMA BracketTypes ==
  ASSUME Types, NEW c \in Conn,
         \/ Begin(c)
         \/ \E tables \in {work, db} : Commit(c, tables)
         \/ Break(c)
  PROVE  /\ (lock = NoConn => work = NoFile)'
         /\ db' \in Table /\ work' \in Table /\ lock' \in Conn \cup {NoConn}
         /\ level' \in [Conn -> Int]
<1>1. CASE Begin(c)
  BY <1>1, NoConnIsNone DEF Begin, Types
<1>2. CASE \E tables \in {work, db} : Commit(c, tables)
  BY <1>2, NoFileType DEF Commit, Types
<1>3. CASE Break(c)
  BY <1>3, NoFileType DEF Break, Types
<1>4. QED
  BY <1>1, <1>2, <1>3

\* What a step takes off a call leaves a shape.
LEMMA AdvanceType ==
  ASSUME Types, NEW c \in Conn, todo[c] # <<>>, Advance(c)
  PROVE  /\ todo' \in [Conn -> Shapes] /\ todo'[c] = Tail(todo[c])
         /\ \A d \in Conn \ {c} : todo'[d] = todo[d]
BY ShapeTails DEF Types, Advance

\* An error keeps the types and the functions that are open.
LEMMA UnwindType ==
  ASSUME Types, NEW c \in Conn, Unwind(c)
  PROVE  /\ todo' \in [Conn -> Shapes] /\ Opens(todo'[c]) = Opens(todo[c])
         /\ \A d \in Conn \ {c} : todo'[d] = todo[d]
<1>1. todo[c] \in Shapes /\ Opens(todo[c]) \in Nat /\ Open(c) = Opens(todo[c])
  BY ShapeTails DEF Types, Open, Opens
<1>2. todo' = [todo EXCEPT ![c] = Commits(Opens(todo[c]))]
  BY <1>1 DEF Unwind, Commits
<1>3. Commits(Opens(todo[c])) \in Shapes
  BY <1>1 DEF Shapes
<1>4. QED
  BY <1>1, <1>2, <1>3, CommitsAre DEF Types

\* The types hold in the beginning.
LEMMA InitTypes == Init => Types
<1>1. <<>> \in Shapes
  BY DEF Shapes, Left
<1>2. QED
  BY <1>1, NoFileType DEF Init, Types

\* A statement keeps the types.
LEMMA StepTypes ==
  ASSUME Types, NEW c \in Conn, Step(c)
  PROVE  Types'
<1>1. CASE CallBegin(c)
  <2>1. todo' \in [Conn -> Shapes]
    BY <1>1, AdvanceType DEF CallBegin, Next1
  <2>2. QED
    BY <1>1, <2>1, BracketTypes DEF CallBegin, Types
<1>2. CASE CallBeginRefused(c)
  <2>1. todo' \in [Conn -> Shapes]
    BY <1>2, AdvanceType DEF CallBeginRefused, Next1
  <2>2. refused' \in [Conn -> Nat]
    BY <1>2 DEF CallBeginRefused, Types
  <2>3. clean' \in BOOLEAN
    BY <1>2, Zenon DEF CallBeginRefused
  <2>4. UNCHANGED lockVars /\ UNCHANGED <<pos, size, group, calls, groups>> /\ refusals' \in Nat
    BY <1>2 DEF CallBeginRefused, Types
  <2>5. QED
    BY <2>1, <2>2, <2>3, <2>4 DEF Types, lockVars
<1>3. CASE CallCommit(c)
  <2>1. todo' \in [Conn -> Shapes]
    BY <1>3, AdvanceType DEF CallCommit, Next1
  <2>2. QED
    BY <1>3, <2>1, BracketTypes DEF CallCommit, Types
<1>4. CASE ReadPos(c) \/ ReadSize(c)
  <2>1. todo' \in [Conn -> Shapes]
    BY <1>4, AdvanceType DEF ReadPos, ReadSize, Next1
  <2>2. Sees(c).size \in Nat
    BY DEF Sees, Types, Table
  <2>3. QED
    BY <1>4, <2>1, <2>2 DEF ReadPos, ReadSize, Types, lockVars
<1>5. ASSUME NEW word \in Writes, Write(c, word)
      PROVE  Types'
  <2>1. todo' \in [Conn -> Shapes]
    BY <1>5, AdvanceType DEF Write, Next1
  <2>2. Written(c, word, work) \in Table /\ Written(c, word, db) \in Table
    BY WrittenType DEF Types
  <2>3. QED
    BY <1>5, <2>1, <2>2, NoConnIsNone DEF Write, Types
<1>6. ASSUME NEW word \in Writes, WriteRefused(c, word)
      PROVE  Types'
  <2>1. todo' \in [Conn -> Shapes]
    BY <1>6, AdvanceType, UnwindType DEF WriteRefused, Next1
  <2>2. QED
    BY <1>6, <2>1 DEF WriteRefused, Types, lockVars
<1>7. QED
  BY <1>1, <1>2, <1>3, <1>4, <1>5, <1>6 DEF Step

\* What a client does itself keeps the types.
LEMMA ClientTypes ==
  ASSUME Types, NEW c \in Conn, Client(c)
  PROVE  Types'
<1>1. ASSUME NEW call \in Call, StartCall(c, call)
      PROVE  Types'
  <2>1. call \in Shapes
    BY DEF Call, AppendCall, RemoveCall, A11, R6, Shapes, Left
  <2>2. clean' \in BOOLEAN
    BY <1>1, Zenon DEF StartCall
  <2>3. QED
    BY <1>1, <2>1, <2>2 DEF StartCall, Types, lockVars
<1>2. CASE ClientBegin(c)
  <2>1. /\ (lock = NoConn => work = NoFile)'
        /\ db' \in Table /\ work' \in Table /\ lock' \in Conn \cup {NoConn}
        /\ level' \in [Conn -> Int]
    BY <1>2, BracketTypes DEF ClientBegin
  <2>2. UNCHANGED <<todo, pos, size, refused, clean, calls, refusals>>
    BY <1>2 DEF ClientBegin
  <2>3. group' \subseteq Conn /\ groups' \in Nat
    BY <1>2 DEF ClientBegin, Types
  <2>4. QED
    BY <2>1, <2>2, <2>3 DEF Types
<1>3. CASE ClientComplete(c)
  BY <1>3, BracketTypes DEF ClientComplete, Types
<1>4. CASE ClientBreak(c)
  BY <1>4, BracketTypes DEF ClientBreak, Types
<1>5. CASE ThreadEnds(c)
  BY <1>5, NoFileType DEF ThreadEnds, Types
<1>6. QED
  BY <1>1, <1>2, <1>3, <1>4, <1>5 DEF Client

\* Every step keeps the types.
LEMMA NextTypes ==
  ASSUME Types, [Next]_vars
  PROVE  Types'
<1>1. CASE Relaunch
  <2>1. <<>> \in Shapes
    BY DEF Shapes, Left
  <2>2. QED
    BY <1>1, <2>1, NoFileType DEF Relaunch, Types
<1>2. CASE UNCHANGED vars
  BY <1>2 DEF vars, lockVars, Types
<1>3. QED
  BY <1>1, <1>2, StepTypes, ClientTypes DEF Next

\* Every variable keeps its type.  The tables are those of one file, and what
\* a connection has left to do is a sequence of the statements of sqlfs.c.
THEOREM TransactionTypesCorrect == Spec => []TypeOK
<1>1. Spec => []Types
  BY InitTypes, NextTypes, PTL DEF Spec
<1>2. QED
  BY <1>1, TypesGiveTypeOK, PTL

-----------------------------------------------------------------------------
(* What the level counts.                                                  *)

LevelAt(c) ==
  /\ level[c] = Depth(c) - refused[c]
  /\ refused[c] = 0 /\ Depth(c) > 0 /\ c \notin group => lock = c
  /\ lock = c => level[c] > 0

\* The levels are right when that of each connection is.
LEMMA LevelEach == LevelCounts <=> \A c \in Conn : LevelAt(c)
BY Zenon DEF LevelCounts, LevelAt

\* The depth of a connection, by what its call has left.
LEMMA DepthIs ==
  ASSUME Types, NEW c \in Conn
  PROVE  /\ Opens(todo[c]) \in Nat /\ Depth(c) \in Nat
         /\ Depth(c) = Opens(todo[c]) + (IF c \in group THEN 1 ELSE 0)
         /\ todo[c] = <<>> => Opens(todo[c]) = 0
<1>1. Opens(todo[c]) \in Nat
  BY ShapeTails DEF Types
<1>2. Depth(c) = Opens(todo[c]) + (IF c \in group THEN 1 ELSE 0)
  BY DEF Depth, Open, Opens
<1>3. QED
  BY <1>1, <1>2, OpensLeft

\* What the step of one connection leaves to the others.
LEMMA LevelOthers ==
  ASSUME NEW d \in Conn, LevelAt(d),
         todo'[d] = todo[d], level'[d] = level[d], refused'[d] = refused[d],
         d \in group' <=> d \in group,
         lock' = d <=> lock = d
  PROVE  LevelAt(d)'
<1>1. Depth(d)' = Depth(d)
  BY DEF Depth, Open
<1>2. QED
  BY <1>1 DEF LevelAt

\* Begin and Commit change the level and leave other connections alone.
LEMMA BracketOthers ==
  ASSUME Types, NEW c \in Conn, NEW d \in Conn \ {c},
         \/ Begin(c)
         \/ \E tables \in {work, db} : Commit(c, tables)
         \/ Break(c)
  PROVE  level'[d] = level[d] /\ (lock' = d <=> lock = d)
<1>1. CASE Begin(c)
  BY <1>1, NoConnIsNone DEF Begin, Types
<1>2. CASE \E tables \in {work, db} : Commit(c, tables)
  BY <1>2, NoConnIsNone DEF Commit, Types
<1>3. CASE Break(c)
  BY <1>3, NoConnIsNone DEF Break, Types
<1>4. QED
  BY <1>1, <1>2, <1>3

\* A BEGIN that adds a function adds a level.
LEMMA BeginLevels ==
  ASSUME Types, NEW c \in Conn, LevelAt(c), Begin(c),
         Depth(c)' = Depth(c) + 1, refused'[c] = refused[c],
         c \in group => c \in group'
  PROVE  LevelAt(c)'
<1>1. level[c] \in Int /\ refused[c] \in Nat /\ Depth(c) \in Nat /\ c # NoConn
  BY DepthIs, NoConnIsNone DEF Types
<1>2. CASE level[c] = 0
  <2>1. lock' = c /\ level'[c] = 1
    BY <1>2, <1>1, Zenon DEF Begin, Types
  <2>2. QED
    BY <1>1, <1>2, <2>1 DEF LevelAt
<1>3. CASE level[c] # 0
  <2>1. lock' = lock /\ level'[c] = level[c] + 1
    BY <1>3 DEF Begin, Types
  <2>2. QED
    BY <1>1, <1>3, <2>1 DEF LevelAt
<1>4. QED
  BY <1>2, <1>3

\* A COMMIT that ends a function takes a level away.
LEMMA CommitLevels ==
  ASSUME Types, NEW c \in Conn, LevelAt(c), \E tables \in {work, db} : Commit(c, tables),
         Depth(c)' = Depth(c) - 1, refused'[c] = refused[c],
         c \in group => c \in group' \/ Depth(c)' = 0
  PROVE  LevelAt(c)'
<1>1. level[c] \in Int /\ refused[c] \in Nat /\ Depth(c) \in Nat /\ c # NoConn
  BY DepthIs, NoConnIsNone DEF Types
<1>2. level'[c] = level[c] - 1
  BY DEF Commit, Types
<1>3. lock' = IF level[c] = 1 /\ lock = c THEN NoConn ELSE lock
  BY DEF Commit
<1>4. QED
  BY <1>1, <1>2, <1>3 DEF LevelAt

\* A step of a call keeps the level at what it counts.
LEMMA StepLevels ==
  ASSUME Types, LevelCounts, NEW c \in Conn, Step(c)
  PROVE  LevelCounts'
<1>0. LevelAt(c) /\ \A d \in Conn : LevelAt(d)
  BY LevelEach
<1>1. todo[c] \in Shapes /\ Opens(todo[c]) \in Nat
  BY ShapeTails DEF Types
<1>2. /\ Depth(c) = Opens(todo[c]) + (IF c \in group THEN 1 ELSE 0)
      /\ Depth(c)' = Opens(todo'[c]) + (IF c \in group' THEN 1 ELSE 0)
  BY DEF Depth, Open, Opens
<1>3. CASE CallBegin(c)
  <2>1. /\ Opens(todo'[c]) = Opens(todo[c]) + 1
        /\ \A d \in Conn \ {c} : todo'[d] = todo[d]
    BY <1>1, <1>3, AdvanceType, ShapeTails DEF CallBegin, Next1
  <2>2. UNCHANGED <<group, refused>> /\ Begin(c)
    BY <1>3 DEF CallBegin
  <2>3. LevelAt(c)'
    BY <1>0, <1>1, <1>2, <2>1, <2>2, BeginLevels
  <2>4. ASSUME NEW d \in Conn \ {c} PROVE LevelAt(d)'
    BY <1>0, <2>1, <2>2, BracketOthers, LevelOthers
  <2>5. QED
    BY <2>3, <2>4 DEF LevelCounts, LevelAt
<1>4. CASE CallBeginRefused(c)
  <2>1. /\ Opens(todo'[c]) = Opens(todo[c]) + 1
        /\ \A d \in Conn \ {c} : todo'[d] = todo[d]
    BY <1>1, <1>4, AdvanceType, ShapeTails DEF CallBeginRefused, Next1
  <2>2. /\ UNCHANGED <<group, lock, level>>
        /\ refused'[c] = refused[c] + 1 /\ \A d \in Conn \ {c} : refused'[d] = refused[d]
    BY <1>4 DEF CallBeginRefused, lockVars, Types
  <2>3. LevelAt(c)'
    <3>1. refused[c] \in Nat /\ level[c] \in Int /\ Depth(c) \in Nat
      BY DepthIs DEF Types
    <3>2. QED
      BY <1>0, <1>1, <1>2, <2>1, <2>2, <3>1 DEF LevelAt
  <2>4. ASSUME NEW d \in Conn \ {c} PROVE LevelAt(d)'
    BY <1>0, <2>1, <2>2, LevelOthers
  <2>5. QED
    BY <2>3, <2>4 DEF LevelCounts, LevelAt
<1>5. CASE CallCommit(c)
  <2>1. /\ Opens(todo'[c]) = Opens(todo[c]) - 1
        /\ \A d \in Conn \ {c} : todo'[d] = todo[d]
    BY <1>1, <1>5, AdvanceType, ShapeTails DEF CallCommit, Next1
  <2>2. UNCHANGED <<group, refused>> /\ \E tables \in {work, db} : Commit(c, tables)
    BY <1>5 DEF CallCommit
  <2>3. LevelAt(c)'
    BY <1>0, <1>1, <1>2, <2>1, <2>2, CommitLevels
  <2>4. ASSUME NEW d \in Conn \ {c} PROVE LevelAt(d)'
    BY <1>0, <2>1, <2>2, BracketOthers, LevelOthers
  <2>5. QED
    BY <2>3, <2>4 DEF LevelCounts, LevelAt
<1>6. ASSUME \/ ReadPos(c) \/ ReadSize(c)
             \/ \E word \in Writes : Write(c, word) \/ WriteRefused(c, word)
      PROVE  LevelCounts'
  <2>1. /\ Opens(todo'[c]) = Opens(todo[c])
        /\ \A d \in Conn \ {c} : todo'[d] = todo[d]
    <3>1. CASE ReadPos(c) \/ ReadSize(c)
      BY <1>1, <3>1, AdvanceType, ShapeTails DEF ReadPos, ReadSize, Next1
    <3>2. CASE \E word \in Writes : Write(c, word) \/ WriteRefused(c, word)
      <4>1. PICK word \in Writes : Write(c, word) \/ WriteRefused(c, word)
        BY <3>2
      <4>2. todo[c] # <<>> /\ Head(todo[c]) \notin {"begin", "commit"}
        BY <4>1 DEF Write, WriteRefused, Next1, Writes
      <4>3. Advance(c) \/ Unwind(c)
        BY <4>1 DEF Write, WriteRefused
      <4>4. QED
        BY <1>1, <4>2, <4>3, AdvanceType, UnwindType, ShapeTails
    <3>3. QED
      BY <1>6, <3>1, <3>2
  <2>2. UNCHANGED <<group, refused, lock, level>>
    BY <1>6 DEF ReadPos, ReadSize, Write, WriteRefused, lockVars
  <2>3. LevelAt(c)'
    BY <1>0, <1>2, <2>1, <2>2 DEF LevelAt
  <2>4. ASSUME NEW d \in Conn \ {c} PROVE LevelAt(d)'
    BY <1>0, <2>1, <2>2, LevelOthers
  <2>5. QED
    BY <2>3, <2>4 DEF LevelCounts, LevelAt
<1>7. QED
  BY <1>3, <1>4, <1>5, <1>6 DEF Step

\* What a client does itself keeps the levels right.
LEMMA ClientLevels ==
  ASSUME Types, LevelCounts, NEW c \in Conn, Client(c)
  PROVE  LevelCounts'
<1>0. LevelAt(c) /\ \A d \in Conn : LevelAt(d)
  BY LevelEach
<1>1. todo[c] = <<>> /\ Opens(todo[c]) = 0
  BY OpensLeft DEF Client, StartCall, ClientBegin, ClientComplete, ClientBreak, ThreadEnds
<1>2. /\ Depth(c) = Opens(todo[c]) + (IF c \in group THEN 1 ELSE 0)
      /\ Depth(c)' = Opens(todo'[c]) + (IF c \in group' THEN 1 ELSE 0)
  BY DEF Depth, Open, Opens
<1>3. ASSUME NEW call \in Call, StartCall(c, call)
      PROVE  LevelCounts'
  <2>1. todo'[c] = call /\ \A d \in Conn \ {c} : todo'[d] = todo[d]
    BY <1>3 DEF StartCall, Types
  <2>2. Opens(call) = 0
    BY OpensLeft DEF Call, AppendCall, RemoveCall, A11, R6
  <2>3. UNCHANGED <<group, refused, lock, level>>
    BY <1>3 DEF StartCall, lockVars
  <2>4. LevelAt(c)'
    BY <1>0, <1>1, <1>2, <2>1, <2>2, <2>3 DEF LevelAt
  <2>5. ASSUME NEW d \in Conn \ {c} PROVE LevelAt(d)'
    BY <1>0, <2>1, <2>3, LevelOthers
  <2>6. QED
    BY <2>4, <2>5 DEF LevelCounts, LevelAt
<1>4. CASE ClientBegin(c)
  <2>1. UNCHANGED <<todo, refused>> /\ Begin(c) /\ c \notin group /\ group' = group \cup {c}
    BY <1>4 DEF ClientBegin
  <2>2. LevelAt(c)'
    BY <1>0, <1>1, <1>2, <2>1, BeginLevels
  <2>3. ASSUME NEW d \in Conn \ {c} PROVE LevelAt(d)'
    BY <1>0, <2>1, BracketOthers, LevelOthers
  <2>4. QED
    BY <2>2, <2>3 DEF LevelCounts, LevelAt
<1>5. CASE ClientComplete(c)
  <2>1. /\ UNCHANGED <<todo, refused>> /\ \E tables \in {work, db} : Commit(c, tables)
        /\ c \in group /\ group' = group \ {c}
    BY <1>5 DEF ClientComplete
  <2>2. LevelAt(c)'
    <3>1. Depth(c)' = 0 /\ Depth(c)' = Depth(c) - 1
      BY <1>1, <1>2, <2>1
    <3>2. QED
      BY <1>0, <2>1, <3>1, CommitLevels
  <2>3. ASSUME NEW d \in Conn \ {c} PROVE LevelAt(d)'
    BY <1>0, <2>1, BracketOthers, LevelOthers
  <2>4. QED
    BY <2>2, <2>3 DEF LevelCounts, LevelAt
<1>6. CASE ClientBreak(c)
  <2>1. UNCHANGED <<todo, group, refused, level>> /\ Break(c) /\ c \in group
    BY <1>6 DEF ClientBreak, Break
  <2>2. LevelAt(c)'
    <3>1. lock' # c
      BY <2>1, NoConnIsNone DEF Break
    <3>2. QED
      BY <1>0, <1>2, <2>1, <3>1 DEF LevelAt
  <2>3. ASSUME NEW d \in Conn \ {c} PROVE LevelAt(d)'
    BY <1>0, <2>1, BracketOthers, LevelOthers
  <2>4. QED
    BY <2>2, <2>3 DEF LevelCounts, LevelAt
<1>7. CASE ThreadEnds(c)
  <2>1. /\ UNCHANGED todo /\ group' = group \ {c} /\ c \notin group'
        /\ level'[c] = 0 /\ refused'[c] = 0
        /\ \A d \in Conn \ {c} : level'[d] = level[d] /\ refused'[d] = refused[d]
    BY <1>7 DEF ThreadEnds, Types
  <2>2. lock' # c /\ \A d \in Conn \ {c} : lock' = d <=> lock = d
    BY <1>7, NoConnIsNone DEF ThreadEnds
  <2>3. LevelAt(c)'
    BY <1>1, <1>2, <2>1, <2>2 DEF LevelAt
  <2>4. ASSUME NEW d \in Conn \ {c} PROVE LevelAt(d)'
    BY <1>0, <2>1, <2>2, LevelOthers
  <2>5. QED
    BY <2>3, <2>4 DEF LevelCounts, LevelAt
<1>8. QED
  BY <1>3, <1>4, <1>5, <1>6, <1>7 DEF Client

\* The levels are right in the beginning.
LEMMA InitLevels == Init => LevelCounts
<1>1. Init => \A c \in Conn : Depth(c) = 0
  BY CountEmpty DEF Init, Depth, Open
<1>2. QED
  BY <1>1, NoConnIsNone DEF Init, LevelCounts

\* Every step keeps the levels right.
LEMMA NextLevels ==
  ASSUME Types, LevelCounts, [Next]_vars
  PROVE  LevelCounts'
<1>1. CASE Relaunch
  <2>1. \A c \in Conn : Depth(c)' = 0
    BY <1>1, CountEmpty DEF Relaunch, Depth, Open
  <2>2. QED
    BY <1>1, <2>1, NoConnIsNone DEF Relaunch, LevelCounts
<1>2. CASE UNCHANGED vars
  BY <1>2 DEF vars, lockVars, LevelCounts, Depth, Open
<1>3. QED
  BY <1>1, <1>2, StepLevels, ClientLevels DEF Next

\* The level of a connection is what its functions have opened, less the
\* BEGINs that were refused; without refusals the outermost function, and no
\* other, opens and closes the transaction.
THEOREM LevelIsDepth == Spec => []LevelCounts
<1>1. Init => Types /\ LevelCounts
  BY InitTypes, InitLevels
<1>2. Types /\ LevelCounts /\ [Next]_vars => (Types /\ LevelCounts)'
  BY NextTypes, NextLevels
<1>3. QED
  BY <1>1, <1>2, PTL DEF Spec

-----------------------------------------------------------------------------
(* What is committed, as long as no BEGIN was refused.                     *)

Consistent(t) == t.blocks = 0..(t.size - 1) /\ (t.size > 0 => t.entry)

\* What the holder c of the lock has made of the tables d: they are t for it,
\* when s is left of its call, which found the sizes p and z.  Outside the
\* transactions of the clients g it started from what is committed.
Whole == {<<>>, A11, A10, R6, R5, R4}
Located == {A9}
Measured == {A8, A7}
Rowed == {A6, A5}
Stored == {A4, A3}
Emptied == {R3}
Done == {C2, C1}
ProgressOf(c, s, t, d, p, z, g) ==
  /\ s \in Whole \cup Located \cup Measured => Consistent(t) /\ (c \notin g => t = d)
  /\ s \in Located \cup Measured => p = t.size
  /\ s \in Measured => z = t.size
  /\ s \in Rowed =>
       /\ t.entry /\ t.blocks = 0..(t.size - 1) /\ p = t.size /\ z = t.size
       /\ c \notin g => t.size = d.size /\ t.blocks = d.blocks
  /\ s \in Stored =>
       /\ t.entry /\ t.blocks = 0..p /\ z = p
       /\ c \notin g => p = d.size /\ t.blocks = d.blocks \cup {p}
  /\ s \in Emptied => ~t.entry /\ t.size = 0
  /\ s \in Done => Consistent(t) /\ (c \notin g => \E call \in Call : t = Effect(call, d))
Progress(c) == ProgressOf(c, todo[c], work, db, pos[c], size[c], group)

\* The stages of a call do not overlap.
LEMMA Stages ==
  ASSUME NEW s
  PROVE  /\ s \in Whole => s \notin Located \cup Measured \cup Rowed \cup Stored \cup Emptied \cup Done
         /\ s \in Located => s \notin Whole \cup Measured \cup Rowed \cup Stored \cup Emptied \cup Done
         /\ s \in Measured => s \notin Whole \cup Located \cup Rowed \cup Stored \cup Emptied \cup Done
         /\ s \in Rowed => s \notin Whole \cup Located \cup Measured \cup Stored \cup Emptied \cup Done
         /\ s \in Stored => s \notin Whole \cup Located \cup Measured \cup Rowed \cup Emptied \cup Done
         /\ s \in Emptied => s \notin Whole \cup Located \cup Measured \cup Rowed \cup Stored \cup Done
         /\ s \in Done => s \notin Whole \cup Located \cup Measured \cup Rowed \cup Stored \cup Emptied
<1>1. A9 \notin {A8, A7, A6, A5, A4, A3, R3, C2, C1}
  BY LeftLengths
<1>2. A8 \notin {A6, A5, A4, A3, R3, C2, C1} /\ A7 \notin {A6, A5, A4, A3, R3, C2, C1}
  BY LeftLengths
<1>3. A6 \notin {A4, A3, R3, C2, C1} /\ A5 \notin {A4, A3, R3, C2, C1}
  BY LeftLengths
<1>4. A4 \notin {R3, C2, C1} /\ A3 \notin {R3, C2, C1} /\ R3 \notin {C2, C1}
  BY LeftLengths
<1>5. <<>> \notin {A9, A8, A7, A6, A5, A4, A3, R3, C2, C1}
  BY LeftHeads
<1>6. A11 \notin {A9, A8, A7, A6, A5, A4, A3, R3, C2, C1}
  BY LeftLengths
<1>7. A10 \notin {A9, A8, A7, A6, A5, A4, A3, R3, C2, C1}
  BY LeftLengths
<1>8. R6 \notin {A9, A8, A7, A6, A5, A4, A3, R3, C2, C1}
  BY LeftLengths
<1>9. R5 \notin {A9, A8, A7, A6, A5, A4, A3, R3, C2, C1}
  BY LeftLengths
<1>10. R4 \notin {A9, A8, A7, A6, A5, A4, A3, R3, C2, C1}
  BY LeftLengths
<1>11. Whole \cap {A9, A8, A7, A6, A5, A4, A3, R3, C2, C1} = {}
  BY <1>5, <1>6, <1>7, <1>8, <1>9, <1>10 DEF Whole
<1>12. QED
  BY <1>1, <1>2, <1>3, <1>4, <1>11 DEF Located, Measured, Rowed, Stored, Emptied, Done

\* What the stage of a call asks of the tables.
LEMMA ProgressAt ==
  ASSUME NEW c, NEW s, NEW t, NEW d, NEW p, NEW z, NEW g
  PROVE  /\ s \in Whole => (ProgressOf(c, s, t, d, p, z, g) <=>
              Consistent(t) /\ (c \notin g => t = d))
         /\ s \in Located => (ProgressOf(c, s, t, d, p, z, g) <=>
              Consistent(t) /\ (c \notin g => t = d) /\ p = t.size)
         /\ s \in Measured => (ProgressOf(c, s, t, d, p, z, g) <=>
              Consistent(t) /\ (c \notin g => t = d) /\ p = t.size /\ z = t.size)
         /\ s \in Rowed => (ProgressOf(c, s, t, d, p, z, g) <=>
              /\ t.entry /\ t.blocks = 0..(t.size - 1) /\ p = t.size /\ z = t.size
              /\ c \notin g => t.size = d.size /\ t.blocks = d.blocks)
         /\ s \in Stored => (ProgressOf(c, s, t, d, p, z, g) <=>
              /\ t.entry /\ t.blocks = 0..p /\ z = p
              /\ c \notin g => p = d.size /\ t.blocks = d.blocks \cup {p})
         /\ s \in Emptied => (ProgressOf(c, s, t, d, p, z, g) <=> ~t.entry /\ t.size = 0)
         /\ s \in Done => (ProgressOf(c, s, t, d, p, z, g) <=>
              Consistent(t) /\ (c \notin g => \E call \in Call : t = Effect(call, d)))
BY Stages, Zenon DEF ProgressOf

\* The stage each rest of a call belongs to.
LEMMA StageOf ==
  /\ <<>> \in Whole /\ A11 \in Whole /\ A10 \in Whole /\ R6 \in Whole /\ R5 \in Whole
  /\ R4 \in Whole /\ A9 \in Located /\ A8 \in Measured /\ A7 \in Measured
  /\ A6 \in Rowed /\ A5 \in Rowed /\ A4 \in Stored /\ A3 \in Stored
  /\ R3 \in Emptied /\ C2 \in Done /\ C1 \in Done
BY DEF Whole, Located, Measured, Rowed, Stored, Emptied, Done

Fine(c) ==
  /\ refused[c] = 0
  /\ todo[c] \in Left
  /\ c \in group /\ todo[c] # <<>> => lock = c
  /\ lock = c => Progress(c)

CleanIsFine == clean => Consistent(db) /\ \A c \in Conn : Fine(c)

\* A call that has begun holds the lock, and its level is its depth.
LEMMA FineHolds ==
  ASSUME Types, LevelCounts, NEW c \in Conn, Fine(c)
  PROVE  /\ level[c] = Opens(todo[c]) + (IF c \in group THEN 1 ELSE 0)
         /\ Opens(todo[c]) \in Nat
         /\ Opens(todo[c]) > 0 => lock = c
         /\ c \notin group /\ Opens(todo[c]) = 0 => lock # c /\ level[c] = 0
<1>1. LevelAt(c)
  BY LevelEach
<1>2. Opens(todo[c]) \in Nat /\ (todo[c] = <<>> => Opens(todo[c]) = 0)
  BY DepthIs
<1>3. Depth(c) = Opens(todo[c]) + (IF c \in group THEN 1 ELSE 0)
  BY DepthIs
<1>4. QED
  BY <1>1, <1>2, <1>3 DEF LevelAt, Fine

\* A connection that does not hold the lock is not affected by what another does.
LEMMA FineOthers ==
  ASSUME NEW d \in Conn, Fine(d),
         todo'[d] = todo[d], refused'[d] = refused[d], pos'[d] = pos[d], size'[d] = size[d],
         d \in group' <=> d \in group,
         lock' = d <=> lock = d,
         lock = d => UNCHANGED <<db, work>>
  PROVE  Fine(d)'
<1>1. lock = d => (Progress(d)' <=> Progress(d))
  BY DEF Progress, ProgressOf
<1>2. QED
  BY <1>1 DEF Fine


\* The statements that only read.
LEMMA ReadsFine ==
  ASSUME Types, LevelCounts, CleanIsFine, clean, NEW c \in Conn, ReadPos(c) \/ ReadSize(c)
  PROVE  CleanIsFine'
<1>0. Consistent(db) /\ Fine(c) /\ \A d \in Conn : Fine(d)
  BY DEF CleanIsFine
<1>1. /\ UNCHANGED <<db, work, lock, group, refused>>
      /\ \A d \in Conn \ {c} : todo'[d] = todo[d] /\ pos'[d] = pos[d] /\ size'[d] = size[d]
  BY DEF ReadPos, ReadSize, Advance, lockVars, Types
<1>2. Fine(c)'
  <2>1. CASE ReadPos(c)
    <3>1. todo[c] = A10 /\ todo'[c] = A9
      <4>1. todo[c] \in Left /\ todo[c] # <<>> /\ Head(todo[c]) = "readPos" /\ Advance(c)
        BY <1>0, <2>1 DEF ReadPos, Next1, Fine
      <4>2. todo[c] = A10
        BY ONLY <4>1, LeftByHead
      <4>3. todo'[c] = Tail(todo[c])
        BY <4>1, AdvanceType
      <4>4. Tail(A10) = A9
        BY LeftTails
      <4>5. QED
        BY ONLY <4>2, <4>3, <4>4
    <3>2. lock = c
      BY <1>0, <3>1, FineHolds, OpensLeft
    <3>3. pos'[c] = work.size
      BY <2>1, <3>2 DEF ReadPos, Sees, Types
    <3>4. Consistent(work) /\ (c \notin group => work = db)
      BY <1>0, <3>1, <3>2, ProgressAt, StageOf DEF Fine, Progress
    <3>5. ProgressOf(c, A9, work, db, pos'[c], size'[c], group)
      BY <3>3, <3>4, ProgressAt, StageOf
    <3>6. QED
      BY <1>0, <1>1, <3>1, <3>2, <3>5 DEF Fine, Left, Progress
  <2>2. CASE ReadSize(c)
    <3>1. todo[c] = A9 /\ todo'[c] = A8
      <4>1. todo[c] \in Left /\ todo[c] # <<>> /\ Head(todo[c]) = "readSize" /\ Advance(c)
        BY <1>0, <2>2 DEF ReadSize, Next1, Fine
      <4>2. todo[c] = A9
        BY ONLY <4>1, LeftByHead
      <4>3. todo'[c] = Tail(todo[c])
        BY <4>1, AdvanceType
      <4>4. Tail(A9) = A8
        BY LeftTails
      <4>5. QED
        BY ONLY <4>2, <4>3, <4>4
    <3>2. lock = c
      BY <1>0, <3>1, FineHolds, OpensLeft
    <3>3. size'[c] = work.size /\ pos'[c] = pos[c]
      BY <2>2, <3>2 DEF ReadSize, Sees, Types
    <3>4. Consistent(work) /\ (c \notin group => work = db) /\ pos[c] = work.size
      BY <1>0, <3>1, <3>2, ProgressAt, StageOf DEF Fine, Progress
    <3>5. ProgressOf(c, A8, work, db, pos'[c], size'[c], group)
      BY <3>3, <3>4, ProgressAt, StageOf
    <3>6. QED
      BY <1>0, <1>1, <3>1, <3>2, <3>5 DEF Fine, Left, Progress
  <2>3. QED
    BY <2>1, <2>2
<1>3. ASSUME NEW d \in Conn \ {c} PROVE Fine(d)'
  BY <1>0, <1>1, FineOthers
<1>4. QED
  BY <1>0, <1>1, <1>2, <1>3 DEF CleanIsFine

\* begin_transaction: the outermost takes the lock, and with it the tables as
\* they are committed.
LEMMA BeginsFine ==
  ASSUME Types, LevelCounts, CleanIsFine, clean, NEW c \in Conn, CallBegin(c)
  PROVE  CleanIsFine'
<1>0. Consistent(db) /\ Fine(c) /\ \A d \in Conn : Fine(d)
  BY DEF CleanIsFine
<1>1. /\ UNCHANGED <<db, group, refused, pos, size>> /\ Begin(c)
      /\ todo[c] # <<>> /\ Head(todo[c]) = "begin" /\ todo'[c] = Tail(todo[c])
      /\ \A d \in Conn \ {c} : todo'[d] = todo[d]
  BY AdvanceType DEF CallBegin, Next1, Begin
<1>2. todo[c] \in {A11, A8, A6, R6, R5}
  BY <1>0, <1>1, LeftByHead DEF Fine
<1>3. lock' = c /\ ((lock = NoConn /\ level[c] = 0) \/ lock = c)
  <2>1. CASE level[c] = 0
    BY <1>1, <2>1, Zenon DEF Begin
  <2>2. CASE level[c] # 0
    <3>1. lock' = lock
      BY <1>1, <2>2 DEF Begin
    <3>2. lock = c
      BY <1>0, <1>1, <2>2, FineHolds DEF Fine
    <3>3. QED
      BY <3>1, <3>2
  <2>3. QED
    BY <2>1, <2>2
<1>4. lock = c => work' = work
  <2>1. lock = c => lock # NoConn
    BY NoConnIsNone
  <2>2. QED
    BY <1>1, <2>1 DEF Begin
<1>5. lock = NoConn => work' = db
  <2>1. lock = NoConn => level[c] = 0
    BY <1>3, NoConnIsNone
  <2>2. QED
    BY <1>1, <2>1 DEF Begin
<1>6. ProgressOf(c, todo'[c], work', db, pos[c], size[c], group)
  <2>1. CASE todo[c] \in {A11, R6}
    <3>1. todo'[c] \in Whole
      BY <1>1, <2>1, LeftTails, StageOf
    <3>2. Consistent(work') /\ (c \notin group => work' = db)
      <4>1. CASE lock = NoConn
        BY <1>0, <1>5, <4>1
      <4>2. CASE lock = c
        <5>1. Consistent(work) /\ (c \notin group => work = db)
          BY <1>0, <2>1, <4>2, ProgressAt, StageOf DEF Fine, Progress
        <5>2. QED
          BY <1>4, <4>2, <5>1
      <4>3. QED
        BY <1>3, <4>1, <4>2
    <3>3. QED
      BY <3>1, <3>2, ProgressAt
  <2>2. CASE todo[c] \in {A8, A6, R5}
    <3>1. lock = c
      BY <1>0, <2>2, FineHolds, OpensLeft
    <3>2. work' = work /\ ProgressOf(c, todo[c], work, db, pos[c], size[c], group)
      BY <1>0, <1>4, <3>1 DEF Fine, Progress
    <3>3. CASE todo[c] = A8
      <4>1. todo[c] \in Measured /\ todo'[c] \in Measured
        BY <1>1, <3>3, LeftTails, StageOf
      <4>2. QED
        BY <3>2, <4>1, ProgressAt
    <3>4. CASE todo[c] = A6
      <4>1. todo[c] \in Rowed /\ todo'[c] \in Rowed
        BY <1>1, <3>4, LeftTails, StageOf
      <4>2. QED
        BY <3>2, <4>1, ProgressAt
    <3>5. CASE todo[c] = R5
      <4>1. todo[c] \in Whole /\ todo'[c] \in Whole
        BY <1>1, <3>5, LeftTails, StageOf
      <4>2. QED
        BY <3>2, <4>1, ProgressAt
    <3>6. QED
      BY <2>2, <3>3, <3>4, <3>5
  <2>3. QED
    BY <1>2, <2>1, <2>2
<1>7. Fine(c)'
  <2>1. todo'[c] \in Left
    BY <1>1, <1>2, LeftTails DEF Left
  <2>2. QED
    BY <1>0, <1>1, <1>3, <1>6, <2>1 DEF Fine, Progress
<1>8. ASSUME NEW d \in Conn \ {c} PROVE Fine(d)'
  <2>1. (lock' = d <=> lock = d) /\ lock # d
    BY <1>3, NoConnIsNone
  <2>2. QED
    BY <1>0, <1>1, <2>1, FineOthers
<1>9. QED
  BY <1>0, <1>1, <1>7, <1>8 DEF CleanIsFine

\* What remains to be committed when the outermost function does so.
LEMMA OutermostCommit ==
  ASSUME Types, LevelCounts, NEW c \in Conn, Fine(c), Next1(c, "commit"),
         level[c] = 1
  PROVE  /\ todo[c] = C1 /\ c \notin group /\ lock = c /\ Consistent(work)
         /\ \E call \in Call : work = Effect(call, db)
<1>1. todo[c] \in {A4, C2, C1}
  BY LeftByHead DEF Next1, Fine
<1>2. /\ level[c] = Opens(todo[c]) + (IF c \in group THEN 1 ELSE 0)
      /\ Opens(todo[c]) \in {1, 2, 3} /\ lock = c
  BY <1>1, OpensLeft, FineHolds
<1>3. todo[c] = C1 /\ c \notin group
  BY <1>1, <1>2, OpensLeft
<1>4. QED
  BY <1>2, <1>3, ProgressAt, StageOf DEF Fine, Progress

\* commit_transaction: only the last one commits, and commits a whole call.
LEMMA CommitsFine ==
  ASSUME Types, LevelCounts, CleanIsFine, clean, NEW c \in Conn, CallCommit(c)
  PROVE  CleanIsFine'
<1>0. Consistent(db) /\ Fine(c) /\ \A d \in Conn : Fine(d)
  BY DEF CleanIsFine
<1>1. /\ UNCHANGED <<group, refused, pos, size>> /\ Commit(c, work) /\ Next1(c, "commit")
      /\ todo[c] # <<>> /\ Head(todo[c]) = "commit" /\ todo'[c] = Tail(todo[c])
      /\ \A d \in Conn \ {c} : todo'[d] = todo[d]
  BY AdvanceType DEF CallCommit, Next1
<1>2. todo[c] \in {A4, C2, C1}
  BY <1>0, <1>1, LeftByHead DEF Fine
<1>3. /\ level[c] = Opens(todo[c]) + (IF c \in group THEN 1 ELSE 0)
      /\ Opens(todo[c]) \in {1, 2, 3} /\ lock = c
  BY <1>0, <1>2, OpensLeft, FineHolds
<1>4. todo'[c] \in Left
  BY <1>1, <1>2, LeftTails DEF Left
<1>5. CASE level[c] = 1
  <2>1. db' = work /\ lock' = NoConn
    BY <1>1, <1>3, <1>5 DEF Commit
  <2>2. Consistent(work) /\ todo[c] = C1 /\ c \notin group
    BY <1>0, <1>1, <1>5, OutermostCommit
  <2>3. Fine(c)'
    BY <1>0, <1>1, <1>4, <2>1, <2>2, NoConnIsNone DEF Fine
  <2>4. ASSUME NEW d \in Conn \ {c} PROVE Fine(d)'
    BY <1>0, <1>1, <1>3, <2>1, FineOthers, NoConnIsNone
  <2>5. QED
    BY <2>1, <2>2, <2>3, <2>4 DEF CleanIsFine
<1>6. CASE level[c] # 1
  <2>1. UNCHANGED <<db, work, lock>>
    BY <1>1, <1>6 DEF Commit
  <2>2. ProgressOf(c, todo[c], work, db, pos[c], size[c], group)
    BY <1>0, <1>3 DEF Fine, Progress
  <2>3. ProgressOf(c, todo'[c], work, db, pos[c], size[c], group)
    <3>1. CASE todo[c] = A4
      <4>1. todo[c] \in Stored /\ todo'[c] \in Stored
        BY <1>1, <3>1, LeftTails, StageOf
      <4>2. QED
        BY <2>2, <4>1, ProgressAt
    <3>2. CASE todo[c] = C2
      <4>1. todo[c] \in Done /\ todo'[c] \in Done
        BY <1>1, <3>2, LeftTails, StageOf
      <4>2. QED
        BY <2>2, <4>1, ProgressAt
    <3>3. CASE todo[c] = C1
      <4>1. todo[c] \in Done /\ todo'[c] \in Whole
        BY <1>1, <3>3, LeftTails, StageOf
      <4>2. c \in group
        BY <1>3, <1>6, <3>3, OpensLeft
      <4>3. QED
        BY <2>2, <4>1, <4>2, ProgressAt
    <3>4. QED
      BY <1>2, <3>1, <3>2, <3>3
  <2>4. Fine(c)'
    BY <1>0, <1>1, <1>3, <1>4, <2>1, <2>3 DEF Fine, Progress
  <2>5. ASSUME NEW d \in Conn \ {c} PROVE Fine(d)'
    BY <1>0, <1>1, <2>1, FineOthers
  <2>6. QED
    BY <1>0, <2>1, <2>4, <2>5 DEF CleanIsFine
<1>7. QED
  BY <1>5, <1>6

\* What the statements that write make of the tables.
LEMMA WritesProgress ==
  ASSUME Types, NEW c \in Conn, NEW word \in Writes,
         todo[c] \in Left, Next1(c, word),
         ProgressOf(c, todo[c], work, db, pos[c], size[c], group)
  PROVE  /\ Tail(todo[c]) \in Left
         /\ ProgressOf(c, Tail(todo[c]), Written(c, word, work), db, pos[c], size[c], group)
<1> DEFINE new == Written(c, word, work)
<1>0. {A6, A4, C2, R3} \subseteq Left
  BY DEF Left
<1>1. todo[c] \in {A7, A5, A3, R4, R3} /\ Head(todo[c]) = word
  BY LeftByHead DEF Next1
<1>2. work \in Table /\ db \in Table /\ pos[c] \in Nat /\ size[c] \in Nat
  BY DEF Types
<1>3. CASE todo[c] = A7
  <2>1. word = "createfile" /\ Tail(todo[c]) = A6
    BY <1>1, <1>3, LeftHeads, LeftTails
  <2>2. new = [work EXCEPT !.entry = TRUE]
    BY <2>1 DEF Written
  <2>3. Consistent(work) /\ (c \notin group => work = db) /\ pos[c] = work.size /\ size[c] = work.size
    BY <1>3, ProgressAt, StageOf
  <2>4. new.entry /\ new.size = work.size /\ new.blocks = work.blocks
    BY <1>2, <2>2 DEF Table
  <2>5. ProgressOf(c, A6, new, db, pos[c], size[c], group)
    BY <2>3, <2>4, ProgressAt, StageOf DEF Consistent
  <2>6. QED
    BY <1>0, <2>1, <2>5
<1>4. CASE todo[c] = A5
  <2>1. word = "block" /\ Tail(todo[c]) = A4
    BY <1>1, <1>4, LeftHeads, LeftTails
  <2>2. new = [work EXCEPT !.blocks = @ \cup {pos[c]}]
    BY <2>1 DEF Written
  <2>3. /\ work.entry /\ work.blocks = 0..(work.size - 1)
        /\ pos[c] = work.size /\ size[c] = work.size
        /\ c \notin group => work.size = db.size /\ work.blocks = db.blocks
    BY <1>4, ProgressAt, StageOf
  <2>4. new.entry = work.entry /\ new.blocks = work.blocks \cup {pos[c]}
    BY <1>2, <2>2 DEF Table
  <2>5. 0..(pos[c] - 1) \cup {pos[c]} = 0..pos[c]
    BY <1>2
  <2>6. /\ new.entry /\ new.blocks = 0..pos[c] /\ size[c] = pos[c]
        /\ c \notin group => pos[c] = db.size /\ new.blocks = db.blocks \cup {pos[c]}
    BY <2>3, <2>4, <2>5
  <2> HIDE DEF new
  <2>7. ProgressOf(c, A4, new, db, pos[c], size[c], group)
    <3>1. A4 \in Stored
      BY StageOf
    <3>2. ProgressOf(c, A4, new, db, pos[c], size[c], group) <=>
            /\ new.entry /\ new.blocks = 0..pos[c] /\ size[c] = pos[c]
            /\ c \notin group => pos[c] = db.size /\ new.blocks = db.blocks \cup {pos[c]}
      BY <3>1, ProgressAt
    <3>3. QED
      BY <2>6, <3>2
  <2> USE DEF new
  <2>8. QED
    BY <1>0, <2>1, <2>7
<1>5. CASE todo[c] = A3
  <2>1. word = "updatesize" /\ Tail(todo[c]) = C2
    BY <1>1, <1>5, LeftHeads, LeftTails
  <2>2. /\ work.entry /\ work.blocks = 0..pos[c] /\ size[c] = pos[c]
        /\ c \notin group => pos[c] = db.size /\ work.blocks = db.blocks \cup {pos[c]}
    BY <1>5, ProgressAt, StageOf
  <2>3. new = [work EXCEPT !.size = pos[c] + 1]
    BY <1>2, <2>1, <2>2 DEF Written, Larger
  <2>4. new.entry = work.entry /\ new.size = pos[c] + 1 /\ new.blocks = work.blocks
    BY <1>2, <2>3 DEF Table
  <2>5. Consistent(new)
    BY <1>2, <2>2, <2>4 DEF Consistent
  <2>6. ASSUME c \notin group PROVE new = Effect(AppendCall, db)
    <3>1. new = [entry |-> TRUE, size |-> db.size + 1, blocks |-> db.blocks \cup {db.size}]
      <4>1. new = [entry |-> new.entry, size |-> new.size, blocks |-> new.blocks]
        BY <1>2, <2>3 DEF Table
      <4>2. new.entry = TRUE
        BY <1>2, <2>2, <2>4 DEF Table
      <4>3. QED
        BY <2>2, <2>4, <2>6, <4>1, <4>2
    <3>2. QED
      BY <3>1 DEF Effect
  <2>7. ProgressOf(c, C2, new, db, pos[c], size[c], group)
    BY <2>5, <2>6, ProgressAt, StageOf DEF Call
  <2>8. QED
    BY <1>0, <2>1, <2>7
<1>6. CASE todo[c] = R4
  <2>1. word = "deleteMeta" /\ Tail(todo[c]) = R3
    BY <1>1, <1>6, LeftHeads, LeftTails
  <2>2. new = [work EXCEPT !.entry = FALSE, !.size = 0]
    BY <2>1 DEF Written
  <2>3. ~new.entry /\ new.size = 0
    BY <1>2, <2>2 DEF Table
  <2>4. ProgressOf(c, R3, new, db, pos[c], size[c], group)
    BY <2>3, ProgressAt, StageOf
  <2>5. QED
    BY <1>0, <2>1, <2>4
<1>7. CASE todo[c] = R3
  <2>1. word = "deleteValue" /\ Tail(todo[c]) = C2
    <3>1. word = "deleteValue"
      BY <1>1, <1>7, LeftHeads
    <3>2. QED
      BY <1>7, <3>1, LeftTails
  <2>2. new = [work EXCEPT !.blocks = {}]
    BY <2>1 DEF Written
  <2>3. ~work.entry /\ work.size = 0
    BY <1>7, ProgressAt, StageOf
  <2>4. new = NoFile
    BY <1>2, <2>2, <2>3 DEF Table, NoFile
  <2>5. RemoveCall # AppendCall /\ Effect(RemoveCall, db) = NoFile
    <3>1. Len(RemoveCall) # Len(AppendCall)
      BY DEF RemoveCall, AppendCall
    <3>2. QED
      BY <3>1 DEF Effect
  <2>6. Consistent(NoFile)
    BY DEF Consistent, NoFile
  <2>7. ProgressOf(c, C2, new, db, pos[c], size[c], group)
    BY <2>4, <2>5, <2>6, ProgressAt, StageOf DEF Call
  <2>8. QED
    BY <1>0, <2>1, <2>7
<1>8. QED
  BY <1>1, <1>3, <1>4, <1>5, <1>6, <1>7

\* The statements that write.
LEMMA WritesFine ==
  ASSUME Types, LevelCounts, CleanIsFine, clean, NEW c \in Conn,
         NEW word \in Writes, Write(c, word)
  PROVE  CleanIsFine'
<1>0. Consistent(db) /\ Fine(c) /\ \A d \in Conn : Fine(d)
  BY DEF CleanIsFine
<1>1. /\ UNCHANGED <<lock, group, refused, pos, size>> /\ Next1(c, word)
      /\ todo[c] # <<>> /\ todo'[c] = Tail(todo[c])
      /\ \A d \in Conn \ {c} : todo'[d] = todo[d]
  BY AdvanceType DEF Write, Next1
<1>2. lock = c
  <2>1. todo[c] \in {A7, A5, A3, R4, R3}
    BY <1>0, <1>1, LeftByHead DEF Next1, Fine
  <2>2. QED
    BY <1>0, <2>1, OpensLeft, FineHolds
<1>3. work' = Written(c, word, work) /\ db' = db
  BY <1>2, NoConnIsNone DEF Write
<1>4. /\ Tail(todo[c]) \in Left
      /\ ProgressOf(c, Tail(todo[c]), Written(c, word, work), db, pos[c], size[c], group)
  BY <1>0, <1>1, <1>2, WritesProgress DEF Fine, Progress
<1>5. Fine(c)'
  BY <1>0, <1>1, <1>2, <1>3, <1>4 DEF Fine, Progress
<1>6. ASSUME NEW d \in Conn \ {c} PROVE Fine(d)'
  BY <1>0, <1>1, <1>2, <1>3, FineOthers
<1>7. QED
  BY <1>0, <1>3, <1>5, <1>6 DEF CleanIsFine

\* Within its transaction no statement is refused.
LEMMA NothingRefused ==
  ASSUME Types, LevelCounts, CleanIsFine, clean, NEW c \in Conn,
         NEW word \in Writes, WriteRefused(c, word)
  PROVE  FALSE
<1>1. Fine(c) /\ Next1(c, word) /\ lock # c
  BY DEF CleanIsFine, WriteRefused
<1>2. todo[c] \in {A7, A5, A3, R4, R3}
  BY <1>1, LeftByHead DEF Next1, Fine
<1>3. QED
  BY <1>1, <1>2, OpensLeft, FineHolds

\* The operations of clients.
LEMMA ClientFine ==
  ASSUME Types, LevelCounts, CleanIsFine, clean, clean', NEW c \in Conn, Client(c)
  PROVE  CleanIsFine'
<1>0. Consistent(db) /\ Fine(c) /\ \A d \in Conn : Fine(d)
  BY DEF CleanIsFine
<1>1. todo[c] = <<>> /\ Opens(todo[c]) = 0
  BY OpensLeft DEF Client, StartCall, ClientBegin, ClientComplete, ClientBreak, ThreadEnds
<1>2. lock = c => c \in group /\ Consistent(work) /\ level[c] = 1
  <2>1. lock = c => c \in group /\ level[c] = 1
    BY <1>0, <1>1, FineHolds
  <2>2. lock = c => Consistent(work)
    BY <1>0, <1>1, ProgressAt, StageOf DEF Fine, Progress
  <2>3. QED
    BY <2>1, <2>2
<1>3. ASSUME NEW call \in Call, StartCall(c, call)
      PROVE  CleanIsFine'
  <2>1. /\ UNCHANGED <<db, work, lock, group, refused, pos, size>>
        /\ todo'[c] = call /\ \A d \in Conn \ {c} : todo'[d] = todo[d]
    BY <1>3 DEF StartCall, Types, lockVars
  <2>2. c \in group => lock = c
    BY <1>3, Zenon DEF StartCall
  <2>3. call \in {A11, R6}
    BY DEF Call, AppendCall, RemoveCall, A11, R6
  <2>4. call \in Left /\ call \in Whole
    BY <2>3, StageOf DEF Left
  <2>5. lock = c => ProgressOf(c, call, work, db, pos[c], size[c], group)
    BY <1>2, <2>4, ProgressAt
  <2>6. Fine(c)'
    BY <1>0, <2>1, <2>2, <2>4, <2>5 DEF Fine, Progress
  <2>7. ASSUME NEW d \in Conn \ {c} PROVE Fine(d)'
    BY <1>0, <2>1, FineOthers
  <2>8. QED
    BY <1>0, <2>1, <2>6, <2>7 DEF CleanIsFine
<1>4. CASE ClientBegin(c)
  <2>1. /\ UNCHANGED <<db, todo, refused, pos, size>> /\ Begin(c)
        /\ c \notin group /\ group' = group \cup {c}
    BY <1>4 DEF ClientBegin, Begin
  <2>2. level[c] = 0 /\ lock # c
    BY <1>0, <1>1, <2>1, FineHolds
  <2>3. lock = NoConn /\ lock' = c /\ work' = db
    BY <2>1, <2>2 DEF Begin
  <2>4. ProgressOf(c, <<>>, work', db, pos[c], size[c], group')
    BY <1>0, <2>1, <2>3, ProgressAt, StageOf
  <2>5. Fine(c)'
    BY <1>0, <1>1, <2>1, <2>3, <2>4 DEF Fine, Progress
  <2>6. ASSUME NEW d \in Conn \ {c} PROVE Fine(d)'
    BY <1>0, <2>1, <2>3, FineOthers, NoConnIsNone
  <2>7. QED
    BY <1>0, <2>1, <2>5, <2>6 DEF CleanIsFine
<1>5. ASSUME ClientComplete(c) \/ ClientBreak(c) \/ ThreadEnds(c)
      PROVE  CleanIsFine'
  <2>1. UNCHANGED <<todo, pos, size>> /\ group' \in {group, group \ {c}}
    BY <1>5 DEF ClientComplete, ClientBreak, ThreadEnds
  <2>2. refused'[c] = 0 /\ \A d \in Conn \ {c} : refused'[d] = refused[d]
    <3>1. refused[c] = 0
      BY <1>0 DEF Fine
    <3>2. QED
      BY <1>5, <3>1 DEF ClientComplete, ClientBreak, ThreadEnds, Types
  <2>3. CASE lock = c
    <3>1. lock' = NoConn /\ db' \in {db, work}
      BY <1>2, <1>5, <2>3 DEF ClientComplete, ClientBreak, ThreadEnds, Commit, Break
    <3>2. Fine(c)'
      BY <1>0, <1>1, <2>1, <2>2, <3>1, NoConnIsNone DEF Fine
    <3>3. ASSUME NEW d \in Conn \ {c} PROVE Fine(d)'
      BY <1>0, <2>1, <2>2, <2>3, <3>1, FineOthers, NoConnIsNone
    <3>4. Consistent(db')
      BY <1>0, <1>2, <2>3, <3>1
    <3>5. QED
      BY <3>2, <3>3, <3>4 DEF CleanIsFine
  <2>4. CASE lock # c
    <3>1. UNCHANGED <<db, work, lock>>
      BY <1>5, <2>4 DEF ClientComplete, ClientBreak, ThreadEnds, Commit, Break
    <3>2. Fine(c)'
      BY <1>0, <1>1, <2>1, <2>2, <2>4, <3>1 DEF Fine
    <3>3. ASSUME NEW d \in Conn \ {c} PROVE Fine(d)'
      BY <1>0, <2>1, <2>2, <3>1, FineOthers
    <3>4. QED
      BY <1>0, <3>1, <3>2, <3>3 DEF CleanIsFine
  <2>5. QED
    BY <2>3, <2>4
<1>6. QED
  BY <1>3, <1>4, <1>5 DEF Client

\* The tables are consistent in the beginning.
LEMMA InitFine == Init => CleanIsFine
<1>1. Consistent(NoFile)
  BY DEF Consistent, NoFile
<1>2. QED
  BY <1>1, NoConnIsNone DEF Init, CleanIsFine, Fine, Left

\* Every step keeps the committed tables consistent until a BEGIN is refused.
LEMMA NextFine ==
  ASSUME Types, LevelCounts, CleanIsFine, [Next]_vars
  PROVE  CleanIsFine'
<1>1. SUFFICES ASSUME clean' PROVE CleanIsFine'
  BY Zenon DEF CleanIsFine
<1>2. CASE UNCHANGED vars
  BY <1>2 DEF vars, lockVars, CleanIsFine, Fine, Progress
<1>3. CASE Next
  <2>1. clean
    BY <1>1, <1>3, Zenon DEF Next, Relaunch, Step, Client, CallBegin, CallBeginRefused, CallCommit,
       ReadPos, ReadSize, Write, WriteRefused, StartCall, ClientBegin, ClientComplete,
       ClientBreak, ThreadEnds
  <2>2. CASE Relaunch
    <3>1. Consistent(db)
      BY <2>1 DEF CleanIsFine
    <3>2. QED
      BY <2>2, <3>1, NoConnIsNone DEF Relaunch, CleanIsFine, Fine, Left
  <2>3. ASSUME NEW c \in Conn, Step(c) PROVE CleanIsFine'
    <3>1. ~CallBeginRefused(c)
      BY <1>1, Zenon DEF CallBeginRefused
    <3>2. QED
      BY <2>1, <2>3, <3>1, ReadsFine, BeginsFine, CommitsFine, WritesFine, NothingRefused DEF Step
  <2>4. QED
    BY <1>1, <1>3, <2>1, <2>2, <2>3, ClientFine DEF Next
<1>4. QED
  BY <1>2, <1>3

\* Types, levels and consistency hold always.
LEMMA FineAlways == Spec => [](Types /\ LevelCounts /\ CleanIsFine)
<1>1. Init => Types /\ LevelCounts /\ CleanIsFine
  BY InitTypes, InitLevels, InitFine
<1>2. Types /\ LevelCounts /\ CleanIsFine /\ [Next]_vars => (Types /\ LevelCounts /\ CleanIsFine)'
  BY NextTypes, NextLevels, NextFine
<1>3. QED
  BY <1>1, <1>2, PTL DEF Spec

\* What is committed is a whole file, with all of its blocks and no other, as
\* long as no BEGIN was refused: whatever the threads do, and after a crash at
\* any moment.
THEOREM CommittedConsistent == Spec => []CommittedIsConsistent
<1>1. CleanIsFine => CommittedIsConsistent
  BY Zenon DEF CleanIsFine, Consistent, CommittedIsConsistent
<1>2. QED
  BY <1>1, FineAlways, PTL

\* A call takes effect at once and as a whole, on what was committed before it,
\* or within the transaction of its client.
THEOREM CallsTakeEffectAtOnce == Spec => CallsAreAtomic
<1> DEFINE Atomic == clean /\ db' # db =>
       \E c \in Conn : \/ \E call \in Call : Ends(c, call)
                       \/ c \in group /\ ClientComplete(c)
<1>1. ASSUME Types, LevelCounts, CleanIsFine, [Next]_vars
      PROVE  [Atomic]_vars
  <2>1. SUFFICES ASSUME clean, db' # db
                 PROVE  \E c \in Conn : \/ \E call \in Call : Ends(c, call)
                                        \/ c \in group /\ ClientComplete(c)
    BY Zenon DEF Atomic
  <2>2. PICK c \in Conn : Step(c) \/ Client(c)
    BY <1>1, <2>1 DEF Next, Relaunch, vars, lockVars
  <2>3. Fine(c)
    BY <1>1, <2>1 DEF CleanIsFine
  <2>4. CASE CallCommit(c)
    <3>1. Next1(c, "commit") /\ Commit(c, work) /\ todo'[c] = Tail(todo[c])
      BY <1>1, <2>4, AdvanceType DEF CallCommit, Next1
    <3>2. level[c] = 1 /\ db' = work
      BY <2>1, <3>1 DEF Commit
    <3>3. todo[c] = C1 /\ \E call \in Call : work = Effect(call, db)
      BY <1>1, <2>3, <3>1, <3>2, OutermostCommit
    <3>4. todo[c] = <<"commit">> /\ todo'[c] = <<>>
      BY <3>1, <3>3, LeftTails DEF C1
    <3>5. QED
      BY <3>2, <3>3, <3>4 DEF Ends
  <2>5. ASSUME NEW word \in Writes, Write(c, word) PROVE FALSE
    <3>1. Next1(c, word) /\ (lock = c => db' = db)
      BY <2>5, NoConnIsNone DEF Write
    <3>2. todo[c] \in {A7, A5, A3, R4, R3}
      BY <2>3, <3>1, LeftByHead DEF Next1, Fine
    <3>3. QED
      BY <1>1, <2>1, <2>3, <3>1, <3>2, OpensLeft, FineHolds
  <2>6. CASE ClientComplete(c)
    BY <2>6 DEF ClientComplete
  <2>7. CASE \/ CallBegin(c) \/ CallBeginRefused(c) \/ ReadPos(c) \/ ReadSize(c)
             \/ \E word \in Writes : WriteRefused(c, word)
    BY <2>1, <2>7 DEF CallBegin, Begin, CallBeginRefused, ReadPos, ReadSize, WriteRefused, lockVars
  <2>8. CASE \/ \E call \in Call : StartCall(c, call)
             \/ ClientBegin(c) \/ ClientBreak(c) \/ ThreadEnds(c)
    BY <2>1, <2>8 DEF StartCall, ClientBegin, Begin, ClientBreak, Break, ThreadEnds, lockVars
  <2>9. QED
    BY <2>2, <2>4, <2>5, <2>6, <2>7, <2>8 DEF Step, Client
<1>2. QED
  BY <1>1, FineAlways, PTL DEF Spec, CallsAreAtomic
=============================================================================
