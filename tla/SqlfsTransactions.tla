------------------------- MODULE SqlfsTransactions -------------------------
(***************************************************************************)
(* How libsqlfs makes a call one transaction (sqlfs.c).  Each thread has a *)
(* connection of its own.  The functions of a call nest, and each brackets *)
(* what it does with begin_transaction and commit_transaction, which count *)
(* a level: only the outermost pair begins and commits a transaction of    *)
(* SQLite.  BEGIN IMMEDIATE takes the one write lock of the database; when *)
(* it is refused because another connection kept the lock too long, nobody *)
(* looks at the result and the call goes on without a transaction.         *)
(*                                                                         *)
(* One file stands for the tables.  Appending and removing are the calls   *)
(* that read before they write, and write both tables.  The access checks  *)
(* of a call and its set_attr bracket themselves like the functions here   *)
(* and are left out.  SQLite never refuses the COMMIT of the holder of the *)
(* write lock in WAL mode, so its retries are left out as well.            *)
(***************************************************************************)
EXTENDS Integers, Sequences, FiniteSets

CONSTANTS
  Conn,        \* connections, one per thread
  NoConn,      \* nobody
  MaxCalls,    \* bound on the calls made
  MaxRefusals, \* bound on the BEGINs that are refused
  MaxGroups    \* bound on the transactions opened by clients

ASSUME NoConnIsNone == NoConn \notin Conn
ASSUME BoundsType == MaxCalls \in Nat /\ MaxRefusals \in Nat /\ MaxGroups \in Nat

VARIABLES
  db,      \* the committed tables
  work,    \* the tables as the transaction of the lock's holder sees them
  lock,    \* SQLite's write lock: the connection with a transaction open
  level,   \* transaction_level of each connection
  todo,    \* statements left of the call a connection is in
  pos,     \* size found by sqlfs_proc_write, where the new block goes
  size,    \* size found by set_value, later written back
  group,   \* connections whose client called sqlfs_begin_transaction
  refused, \* history: BEGINs refused to the connection
  clean,   \* history: every call so far ran within a transaction
  calls, refusals, groups  \* counters for the bounds

lockVars == <<db, work, lock, level>>
vars == <<lockVars, todo, pos, size, group, refused, clean, calls, refusals, groups>>

(* The tables, as far as they concern the file: its row in meta_data, with *)
(* the size, and the numbers of its blocks in value_data.                  *)
NoFile == [entry |-> FALSE, size |-> 0, blocks |-> {}]

\* sqlfs_proc_write with set_value, and sqlfs_proc_unlink with remove_key.
\* The outer functions bracket the inner ones.
AppendCall == <<"begin", "readPos", "readSize", "begin", "createfile",
                "begin", "block", "commit", "updatesize", "commit", "commit">>
RemoveCall == <<"begin", "begin", "deleteMeta", "deleteValue", "commit", "commit">>
Call == {AppendCall, RemoveCall}

\* What a whole call does to the tables.
Effect(call, t) ==
  IF call = AppendCall
  THEN [entry |-> TRUE, size |-> t.size + 1, blocks |-> t.blocks \cup {t.size}]
  ELSE NoFile

Sees(c) == IF lock = c THEN work ELSE db
Count(word, s) == Cardinality({i \in DOMAIN s : s[i] = word})
\* Functions of the current call that have begun and not committed, and the
\* client's own transaction.
Open(c) == Count("commit", todo[c]) - Count("begin", todo[c])
Depth(c) == Open(c) + (IF c \in group THEN 1 ELSE 0)

Init ==
  /\ db = NoFile
  /\ work = NoFile
  /\ lock = NoConn
  /\ level = [c \in Conn |-> 0]
  /\ todo = [c \in Conn |-> <<>>]
  /\ pos = [c \in Conn |-> 0]
  /\ size = [c \in Conn |-> 0]
  /\ group = {}
  /\ refused = [c \in Conn |-> 0]
  /\ clean = TRUE
  /\ calls = 0
  /\ refusals = 0
  /\ groups = 0

-----------------------------------------------------------------------------
(* begin_transaction, commit_transaction, break_transaction.               *)

\* Fault: BEGIN without IMMEDIATE takes no lock.
BeginDeferred(c) ==
  /\ level' = [level EXCEPT ![c] = @ + 1]
  /\ UNCHANGED <<db, work, lock>>

Begin(c) ==
  \/ /\ level[c] = 0
     /\ lock = NoConn
     /\ lock' = c
     /\ work' = db
     /\ level' = [level EXCEPT ![c] = 1]
     /\ UNCHANGED db
  \/ /\ level[c] # 0
     /\ level' = [level EXCEPT ![c] = @ + 1]
     /\ UNCHANGED <<db, work, lock>>

\* BEGIN gives up after ten times ten seconds.
Busy(c) == level[c] = 0 /\ lock \notin {c, NoConn}

\* Fault: the level is not looked at.
CommitEach(c, tables) ==
  /\ IF lock = c THEN db' = tables /\ lock' = NoConn /\ work' = NoFile
                 ELSE UNCHANGED <<db, work, lock>>
  /\ level' = [level EXCEPT ![c] = @ - 1]

\* Fault: the lock is kept.
CommitHolding(c, tables) ==
  /\ IF level[c] = 1 /\ lock = c THEN db' = tables ELSE UNCHANGED db
  /\ level' = [level EXCEPT ![c] = @ - 1]
  /\ UNCHANGED <<work, lock>>

Commit(c, tables) ==
  /\ IF level[c] = 1 /\ lock = c
     THEN db' = tables /\ lock' = NoConn /\ work' = NoFile
     ELSE UNCHANGED <<db, work, lock>>
  /\ level' = [level EXCEPT ![c] = @ - 1]

\* Fault: what was written is not discarded.
BreakKeeping(c) ==
  /\ lock' = IF lock = c THEN NoConn ELSE lock
  /\ UNCHANGED <<db, work, level>>

\* Fault: the level is reset as well.
BreakResetting(c) ==
  /\ IF lock = c
     THEN lock' = NoConn /\ work' = NoFile
     ELSE UNCHANGED <<lock, work>>
  /\ level' = [level EXCEPT ![c] = 0]
  /\ UNCHANGED db

\* The level stays as it is.
Break(c) ==
  /\ IF lock = c
     THEN lock' = NoConn /\ work' = NoFile
     ELSE UNCHANGED <<lock, work>>
  /\ UNCHANGED <<db, level>>

-----------------------------------------------------------------------------
(* The statements of a call.                                               *)

StartCall(c, call) ==
  /\ todo[c] = <<>>
  /\ calls < MaxCalls
  /\ calls' = calls + 1
  /\ todo' = [todo EXCEPT ![c] = call]
  /\ clean' = (clean /\ (c \in group => lock = c))
  /\ UNCHANGED <<lockVars, pos, size, group, refused, refusals, groups>>

Next1(c, word) == todo[c] # <<>> /\ Head(todo[c]) = word
Advance(c) == todo' = [todo EXCEPT ![c] = Tail(@)]
\* An error leaves only the commits of the functions that have begun.
Unwind(c) == todo' = [todo EXCEPT ![c] = [i \in 1..Open(c) |-> "commit"]]

CallBegin(c) ==
  /\ Next1(c, "begin")
  /\ Advance(c)
  /\ Begin(c)
  /\ UNCHANGED <<pos, size, group, refused, clean, calls, refusals, groups>>

\* No caller in sqlfs.c looks at the result of begin_transaction.
CallBeginRefused(c) ==
  /\ Next1(c, "begin")
  /\ Busy(c)
  /\ refusals < MaxRefusals
  /\ refusals' = refusals + 1
  /\ refused' = [refused EXCEPT ![c] = @ + 1]
  /\ clean' = FALSE
  /\ Advance(c)
  /\ UNCHANGED <<lockVars, pos, size, group, calls, groups>>

CallCommit(c) ==
  /\ Next1(c, "commit")
  /\ Advance(c)
  /\ Commit(c, work)
  /\ UNCHANGED <<pos, size, group, refused, clean, calls, refusals, groups>>

ReadPos(c) ==
  /\ Next1(c, "readPos")
  /\ Advance(c)
  /\ pos' = [pos EXCEPT ![c] = Sees(c).size]
  /\ UNCHANGED <<lockVars, size, group, refused, clean, calls, refusals, groups>>

ReadSize(c) ==
  /\ Next1(c, "readSize")
  /\ Advance(c)
  /\ size' = [size EXCEPT ![c] = Sees(c).size]
  /\ UNCHANGED <<lockVars, pos, group, refused, clean, calls, refusals, groups>>

\* What a statement that writes makes of the tables.
Larger(a, b) == IF a > b THEN a ELSE b
Writes == {"createfile", "block", "updatesize", "deleteMeta", "deleteValue"}
Written(c, word, t) ==
  CASE word = "createfile"  -> [t EXCEPT !.entry = TRUE]
    [] word = "block"       -> [t EXCEPT !.blocks = @ \cup {pos[c]}]
    [] word = "updatesize"  -> IF t.entry THEN [t EXCEPT !.size = Larger(pos[c] + 1, size[c])]
                               ELSE t
    [] word = "deleteMeta"  -> [t EXCEPT !.entry = FALSE, !.size = 0]
    [] word = "deleteValue" -> [t EXCEPT !.blocks = {}]

\* In the transaction of the connection, or, without one, on its own.
Write(c, word) ==
  /\ Next1(c, word)
  /\ Advance(c)
  /\ \/ lock = c /\ work' = Written(c, word, work) /\ UNCHANGED db
     \/ lock = NoConn /\ db' = Written(c, word, db) /\ UNCHANGED work
  /\ UNCHANGED <<lock, level, pos, size, group, refused, clean, calls, refusals, groups>>

\* Without a transaction, while another connection has one.  The result is
\* tested after every statement but the update of the size.
WriteRefused(c, word) ==
  /\ Next1(c, word)
  /\ lock \notin {c, NoConn}
  /\ refusals < MaxRefusals
  /\ refusals' = refusals + 1
  /\ IF word = "updatesize" THEN Advance(c) ELSE Unwind(c)
  /\ UNCHANGED <<lockVars, pos, size, group, refused, clean, calls, groups>>

-----------------------------------------------------------------------------
(* sqlfs_begin_transaction, sqlfs_complete_transaction and                 *)
(* sqlfs_break_transaction.  A client completes what it has begun; when it *)
(* is told that the database is busy it has begun nothing.                 *)

ClientBegin(c) ==
  /\ todo[c] = <<>>
  /\ c \notin group
  /\ groups < MaxGroups
  /\ groups' = groups + 1
  /\ Begin(c)
  /\ group' = group \cup {c}
  /\ UNCHANGED <<todo, pos, size, refused, clean, calls, refusals>>

ClientComplete(c) ==
  /\ todo[c] = <<>>
  /\ c \in group
  /\ \E tables \in {work, db} : Commit(c, tables)
  /\ group' = group \ {c}
  /\ UNCHANGED <<todo, pos, size, refused, clean, calls, refusals, groups>>

ClientBreak(c) ==
  /\ todo[c] = <<>>
  /\ c \in group
  /\ Break(c)
  /\ UNCHANGED <<todo, pos, size, group, refused, clean, calls, refusals, groups>>

\* The thread ends; sqlfs_t_finalize closes its connection, sqlfs_t_init opens
\* one for the next thread.
ThreadEnds(c) ==
  /\ todo[c] = <<>>
  /\ IF lock = c THEN lock' = NoConn /\ work' = NoFile ELSE UNCHANGED <<lock, work>>
  /\ level' = [level EXCEPT ![c] = 0]
  /\ group' = group \ {c}
  /\ refused' = [refused EXCEPT ![c] = 0]
  /\ UNCHANGED <<db, todo, pos, size, clean, calls, refusals, groups>>

\* The process is killed and started again: what was committed is left.
Relaunch ==
  /\ lock' = NoConn
  /\ work' = NoFile
  /\ level' = [c \in Conn |-> 0]
  /\ todo' = [c \in Conn |-> <<>>]
  /\ group' = {}
  /\ refused' = [c \in Conn |-> 0]
  /\ pos' = [c \in Conn |-> 0]
  /\ size' = [c \in Conn |-> 0]
  /\ UNCHANGED <<db, clean, calls, refusals, groups>>

Step(c) ==
  \/ CallBegin(c) \/ CallBeginRefused(c) \/ CallCommit(c)
  \/ ReadPos(c) \/ ReadSize(c)
  \/ \E word \in Writes : Write(c, word) \/ WriteRefused(c, word)

Client(c) ==
  \/ \E call \in Call : StartCall(c, call)
  \/ ClientBegin(c) \/ ClientComplete(c) \/ ClientBreak(c)
  \/ ThreadEnds(c)

Next == Relaunch \/ \E c \in Conn : Step(c) \/ Client(c)

Spec == Init /\ [][Next]_vars

\* Threads run, and SQLite hands its lock to one that keeps asking.  Clients
\* complete the transactions they have begun, or end.
FairSpec == Spec /\ \A c \in Conn : SF_vars(Step(c)) /\ WF_vars(ClientComplete(c))

-----------------------------------------------------------------------------
(* Properties.                                                             *)

TypeOK ==
  /\ lock = NoConn => work = NoFile
  /\ {db, work} \subseteq [entry : BOOLEAN, size : Nat, blocks : SUBSET Nat]
  /\ lock \in Conn \cup {NoConn}
  /\ level \in [Conn -> Int]
  /\ todo \in [Conn -> Seq({"begin", "readPos", "readSize", "commit"} \cup Writes)]
  /\ pos \in [Conn -> Nat] /\ size \in [Conn -> Nat]
  /\ group \subseteq Conn
  /\ refused \in [Conn -> Nat]
  /\ clean \in BOOLEAN
  /\ {calls, refusals, groups} \subseteq Nat

\* The level is the number of functions that have begun and not committed,
\* less the BEGINs that were refused, for which commit_transaction counts down
\* all the same: one refusal, and every later call of that thread has its
\* outermost transaction one function too deep.  A connection without
\* refusals has a transaction exactly while its level is above zero, unless
\* its client broke it.
LevelCounts ==
  \A c \in Conn :
    /\ level[c] = Depth(c) - refused[c]
    /\ refused[c] = 0 /\ Depth(c) > 0 /\ c \notin group => lock = c
    /\ lock = c => level[c] > 0

\* What is committed is consistent, at every instant and so after a crash:
\* a file of n blocks has blocks 0 to n-1, and a file without a row has none.
\* It takes one refusal to break this.
CommittedIsConsistent ==
  clean => db.blocks = 0..(db.size - 1) /\ (db.size > 0 => db.entry)

\* Calls of different threads do not mix: outside a client's transaction the
\* committed tables change only when a call ends, by the effect of that whole
\* call on what was committed before.  No update of another thread is lost.
Ends(c, call) ==
  /\ todo[c] = <<"commit">>
  /\ todo'[c] = <<>>
  /\ db' = Effect(call, db)
CallsAreAtomic ==
  [][clean /\ db' # db =>
       \E c \in Conn : \/ \E call \in Call : Ends(c, call)
                       \/ c \in group /\ ClientComplete(c)]_vars

\* Every call returns: no thread waits for ever for the lock of another.
CallsReturn == \A c \in Conn : todo[c] # <<>> ~> todo[c] = <<>>
=============================================================================
