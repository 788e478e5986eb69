---------------------- MODULE OmemoCoordinatorProofs ----------------------
(***************************************************************************)
(* Proofs about OmemoCoordinator for any messages, users, devices, lists   *)
(* and bounds: its types, then that whoever waits is waited for, that only *)
(* two queues that call one callback end the process, and that nothing is  *)
(* encrypted for a device that the user removed.                           *)
(***************************************************************************)
EXTENDS OmemoCoordinator, SequenceTheorems, TLAPS

-----------------------------------------------------------------------------
(* Preparations and blocks.                                                *)

\* Whoever a preparation is for is a user.
LEMMA PreparationType ==
  /\ \A m \in Message : Addressees(m) \in Seq(User) /\ Len(Addressees(m)) \in Nat
  /\ \A p \in Preparation :
       /\ p[1] \in Message /\ p[2] \in 1..Len(Addressees(p[1]))
       /\ p = <<p[1], p[2]>>
       /\ UserOf(p) \in User
<1>1. ASSUME NEW m \in Message
      PROVE  Addressees(m) \in Seq(User) /\ Len(Addressees(m)) \in Nat
  <2>1. Recipients[m] \in Seq(User) /\ Own \in User
    BY RecipientsType, SeqDef DEF User
  <2>2. QED
    BY <2>1, AppendProperties, LenProperties DEF Addressees
<1>2. ASSUME NEW p \in Preparation
      PROVE  /\ p[1] \in Message /\ p[2] \in 1..Len(Addressees(p[1]))
             /\ p = <<p[1], p[2]>>
             /\ UserOf(p) \in User
  <2>1. PICK m \in Message : p \in {m} \X (1..Len(Addressees(m)))
    BY DEF Preparation
  <2>2. p[1] = m /\ p[2] \in 1..Len(Addressees(m)) /\ p = <<p[1], p[2]>>
    BY <2>1
  <2>3. Addressees(m)[p[2]] \in User
    BY <1>1, <2>2, ElementOfSeq
  <2>4. QED
    BY <2>2, <2>3 DEF UserOf
<1>3. QED
  BY <1>1, <1>2

\* Every block is built by one of the operators, which its fields tell.
LEMMA BlockFields ==
  /\ \A p \in Preparation :
       /\ Prepare(p) \in Block /\ Prepare(p).op = "prepare" /\ Prepare(p).p = p
       /\ Listed(p) \in Block /\ Listed(p).op = "listed" /\ Listed(p).p = p
       /\ ListFailed(p) \in Block /\ ListFailed(p).op = "listFailed" /\ ListFailed(p).p = p
       /\ \A d \in Device, ok \in BOOLEAN :
            LET b == Bundle(p, d, ok)
            IN b \in Block /\ b.op = "bundle" /\ b.p = p /\ b.d = d /\ b.ok = ok
  /\ \A m \in Message : Seal(m) \in Block /\ Seal(m).op = "seal" /\ Seal(m).m = m
  /\ \A u \in User, d \in Device :
       LET b == Remove(u, d)
       IN b \in Block /\ b.op = "remove" /\ b.u = u /\ b.d = d
<1>1. ASSUME NEW p \in Preparation, NEW d \in Device, NEW ok \in BOOLEAN
      PROVE  Bundle(p, d, ok) \in Block
  BY DEF Block
<1>2. ASSUME NEW u \in User, NEW d \in Device
      PROVE  Remove(u, d) \in Block
  BY DEF Block
<1>3. ASSUME NEW p \in Preparation
      PROVE  Prepare(p) \in Block /\ Listed(p) \in Block /\ ListFailed(p) \in Block
  BY DEF Block
<1>4. ASSUME NEW m \in Message PROVE Seal(m) \in Block
  BY DEF Block
<1>5. QED
  BY <1>1, <1>2, <1>3, <1>4 DEF Prepare, Listed, ListFailed, Bundle, Seal, Remove

\* A block is what its constructor made.
LEMMA BlockForms ==
  ASSUME NEW b \in Block
  PROVE  /\ b.op = "prepare" => b.p \in Preparation /\ b = Prepare(b.p)
         /\ b.op = "listed" => b.p \in Preparation /\ b = Listed(b.p)
         /\ b.op = "listFailed" => b.p \in Preparation /\ b = ListFailed(b.p)
         /\ b.op = "bundle" => /\ b.p \in Preparation /\ b.d \in Device /\ b.ok \in BOOLEAN
                               /\ b = Bundle(b.p, b.d, b.ok)
         /\ b.op = "seal" => b.m \in Message /\ b = Seal(b.m)
         /\ b.op = "remove" => b.u \in User /\ b.d \in Device /\ b = Remove(b.u, b.d)
<1>1. CASE \E p \in Preparation : b \in {Prepare(p), Listed(p), ListFailed(p)}
  BY <1>1, BlockFields
<1>2. CASE \E p \in Preparation, d \in Device, ok \in BOOLEAN : b = Bundle(p, d, ok)
  BY <1>2, BlockFields
<1>3. CASE \E m \in Message : b = Seal(m)
  BY <1>3, BlockFields
<1>4. CASE \E u \in User, d \in Device : b = Remove(u, d)
  BY <1>4, BlockFields
<1>5. QED
  BY <1>1, <1>2, <1>3, <1>4 DEF Block

-----------------------------------------------------------------------------
(* The workQueue as a set of blocks, some of which are in it only once.    *)

In(b, q) == \E i \in 1..Len(q) : q[i] = b
Single(b) == b.op \in {"prepare", "listed"}
Once(q) == \A i, j \in 1..Len(q) : q[i] = q[j] /\ Single(q[i]) => i = j

\* Appending a block adds it to those that are there.
LEMMA InAppend ==
  ASSUME NEW q \in Seq(Block), NEW b \in Block
  PROVE  /\ Append(q, b) \in Seq(Block)
         /\ \A x : In(x, Append(q, b)) <=> In(x, q) \/ x = b
         /\ Once(q) /\ ~In(b, q) => Once(Append(q, b))
         /\ Once(q) /\ ~Single(b) => Once(Append(q, b))
<1>1. /\ Append(q, b) \in Seq(Block) /\ Len(q) \in Nat /\ Len(Append(q, b)) = Len(q) + 1
      /\ Append(q, b)[Len(q) + 1] = b
      /\ \A i \in 1..Len(q) : Append(q, b)[i] = q[i]
  BY AppendProperties, LenProperties
<1>2. \A i \in 1..(Len(q) + 1) : i \in 1..Len(q) \/ i = Len(q) + 1
  BY <1>1
<1>3. 1..Len(q) \subseteq 1..(Len(q) + 1) /\ Len(q) + 1 \in 1..(Len(q) + 1)
  BY <1>1
<1>4. \A x : In(x, Append(q, b)) <=> In(x, q) \/ x = b
  BY <1>1, <1>2, <1>3 DEF In
<1>5. ASSUME Once(q), ~In(b, q) \/ ~Single(b) PROVE Once(Append(q, b))
  <2> SUFFICES ASSUME NEW i \in 1..(Len(q) + 1), NEW j \in 1..(Len(q) + 1),
                      Append(q, b)[i] = Append(q, b)[j], Single(Append(q, b)[i])
               PROVE  i = j
    BY <1>1 DEF Once
  <2>1. CASE i \in 1..Len(q) /\ j \in 1..Len(q)
    BY <2>1, <1>1, <1>5 DEF Once
  <2>2. CASE i = Len(q) + 1 /\ j \in 1..Len(q)
    BY <2>2, <1>1, <1>5 DEF In
  <2>3. CASE i \in 1..Len(q) /\ j = Len(q) + 1
    BY <2>3, <1>1, <1>5 DEF In
  <2>4. QED
    BY <1>2, <2>1, <2>2, <2>3
<1>6. QED
  BY <1>1, <1>4, <1>5

\* Taking the head off leaves the rest.
LEMMA InTail ==
  ASSUME NEW q \in Seq(Block), q # <<>>
  PROVE  /\ Tail(q) \in Seq(Block) /\ Head(q) \in Block /\ In(Head(q), q)
         /\ \A x : In(x, Tail(q)) => In(x, q)
         /\ \A x : In(x, q) => x = Head(q) \/ In(x, Tail(q))
         /\ Once(q) => Once(Tail(q))
         /\ Once(q) /\ Single(Head(q)) => ~In(Head(q), Tail(q))
<1>1. /\ Tail(q) \in Seq(Block) /\ Head(q) \in Block /\ Len(q) \in Nat
      /\ Len(q) > 0 /\ Len(Tail(q)) = Len(q) - 1 /\ Head(q) = q[1]
      /\ \A i \in 1..Len(Tail(q)) : Tail(q)[i] = q[i + 1]
  BY HeadTailProperties, EmptySeq, LenProperties
<1>2. \A i \in 1..(Len(q) - 1) : i + 1 \in 1..Len(q) /\ i + 1 # 1
  BY <1>1
<1>3. \A i \in 1..Len(q) : i = 1 \/ (i - 1 \in 1..(Len(q) - 1) /\ (i - 1) + 1 = i)
  BY <1>1
<1>4. 1 \in 1..Len(q)
  BY <1>1
<1>5. In(Head(q), q) /\ \A x : In(x, Tail(q)) => In(x, q)
  BY <1>1, <1>2, <1>4 DEF In
<1>6. ASSUME NEW x, In(x, q) PROVE x = Head(q) \/ In(x, Tail(q))
  <2>1. PICK i \in 1..Len(q) : q[i] = x
    BY <1>6 DEF In
  <2>2. CASE i = 1
    BY <2>1, <2>2, <1>1
  <2>3. CASE i # 1
    <3>1. i - 1 \in 1..Len(Tail(q)) /\ Tail(q)[i - 1] = x
      BY <2>1, <2>3, <1>1, <1>3
    <3>2. QED
      BY <3>1 DEF In
  <2>4. QED
    BY <2>2, <2>3
<1>7. ASSUME Once(q) PROVE Once(Tail(q))
  <2> SUFFICES ASSUME NEW i \in 1..(Len(q) - 1), NEW j \in 1..(Len(q) - 1),
                      q[i + 1] = q[j + 1], Single(q[i + 1])
               PROVE  i = j
    BY <1>1 DEF Once
  <2>1. i + 1 = j + 1
    BY <1>2, <1>7 DEF Once
  <2>2. QED
    BY <2>1
<1>8. ASSUME Once(q), Single(Head(q)), In(Head(q), Tail(q)) PROVE FALSE
  <2>1. PICK i \in 1..(Len(q) - 1) : q[i + 1] = q[1]
    BY <1>1, <1>8 DEF In
  <2>2. i + 1 = 1
    BY <2>1, <1>1, <1>2, <1>4, <1>8 DEF Once
  <2>3. QED
    BY <2>2, <1>2
<1>9. QED
  BY <1>1, <1>5, <1>6, <1>7, <1>8

-----------------------------------------------------------------------------
(* Types, one part per group of variables.                                 *)

WorkType ==
  /\ status \in [Message -> Status]
  /\ phase \in [Preparation -> Phase]
  /\ devices \in [Preparation -> SUBSET (Device \X BOOLEAN)]
  /\ bundleBlocks \subseteq Preparation \X Device
DictionaryType ==
  /\ callbacks \in [User -> Preparation \cup {NoOne}]
  /\ removing \in [Thread -> User \cup {NoOne}]
  /\ crashed \in BOOLEAN
QueueType == workQueue \in Seq(Block)
ModuleType ==
  /\ appended \subseteq SUBSET Device
  /\ listIq \in [Preparation -> {"none", "out", "late"}]
  /\ bundleIqs \subseteq Preparation \X Device
  /\ lateBundles \subseteq Preparation \X Device
RowsType ==
  /\ trust \in [User -> [Device -> Trust]]
  /\ keyed \subseteq {k \in User \X Device : trust[k[1]][k[2]] # "none"}
SessionsType == sessions \subseteq User \X Device
HistoryType ==
  /\ sealedFor \in [Message -> SUBSET (User \X Device)]
  /\ spoiled \subseteq User
  /\ gone \subseteq User \X Device
LeftType == left \in [EnvStep -> Nat]

Parts ==
  /\ WorkType /\ DictionaryType /\ QueueType /\ ModuleType /\ RowsType
  /\ SessionsType /\ HistoryType /\ LeftType

\* The type invariant is the conjunction of its parts.
LEMMA TypeOKIsParts == TypeOK <=> Parts
BY DEF TypeOK, Parts, WorkType, DictionaryType, QueueType, ModuleType, RowsType, SessionsType,
       HistoryType, LeftType

\* A part none of whose variables change stays.
LEMMA Kept ==
  ASSUME Parts
  PROVE  /\ UNCHANGED work => WorkType'
         /\ UNCHANGED dictionary => DictionaryType'
         /\ UNCHANGED workQueue => QueueType'
         /\ UNCHANGED module => ModuleType'
         /\ UNCHANGED rows => RowsType'
         /\ UNCHANGED sessions => SessionsType'
         /\ UNCHANGED history => HistoryType'
         /\ UNCHANGED left => LeftType'
BY DEF Parts, WorkType, DictionaryType, QueueType, ModuleType, RowsType, SessionsType,
       HistoryType, LeftType, work, dictionary, module, rows, history

\* The types hold in the beginning.
LEMMA InitParts == Init => Parts
<1> SUFFICES ASSUME Init PROVE Parts
  OBVIOUS
<1>1. WorkType /\ QueueType
  BY EmptySeq DEF Init, WorkType, QueueType, Status, Phase
<1>2. DictionaryType /\ ModuleType
  BY DEF Init, DictionaryType, ModuleType
<1>3. LeftType
  BY BudgetType DEF Init, LeftType
<1>4. RowsType /\ SessionsType
  <2>1. PICK held \in Held :
          /\ trust = [u \in User |->
                        [d \in Device |-> IF d \in held[u] THEN "trusted" ELSE "none"]]
          /\ keyed = {k \in User \X Device : k[2] \in held[k[1]]}
    BY DEF Init
  <2>2. trust \in [User -> [Device -> Trust]]
    BY <2>1 DEF Trust
  <2>3. \A k \in keyed : k \in User \X Device /\ trust[k[1]][k[2]] = "trusted"
    BY <2>1
  <2>4. QED
    BY <2>2, <2>3 DEF RowsType, SessionsType, Init
<1>5. HistoryType
  BY DEF Init, HistoryType
<1>6. QED
  BY <1>1, <1>2, <1>3, <1>4, <1>5 DEF Parts

\* Queueing a block, or running the first one, keeps the type.
LEMMA QueueBlockType ==
  ASSUME Parts, NEW b \in Block, Queue(b)
  PROVE  QueueType'
BY InAppend DEF Parts, QueueType, Queue

\* The block that runs is the first of the workQueue.
LEMMA RunningHead ==
  ASSUME Parts, NEW op, Running(op)
  PROVE  /\ Head(workQueue) \in Block /\ Head(workQueue).op = op
         /\ workQueue # <<>> /\ workQueue \in Seq(Block) /\ Tail(workQueue) \in Seq(Block)
         /\ workQueue' = Tail(workQueue) => QueueType'
         /\ removing["work"] = NoOne
BY InTail DEF Parts, QueueType, Running

\* A step of the environment leaves a budget.
LEMMA SpendType ==
  ASSUME Parts, NEW steps, Spend(steps)
  PROVE  LeftType'
BY DEF Parts, LeftType, Spend

\* An answer leaves a budget, late or not.
LEMMA SpendIfType ==
  ASSUME Parts, NEW late, SpendIf(late)
  PROVE  LeftType'
BY SpendType, Kept DEF SpendIf

\* Storing a list or an identity keeps the rows in shape.
LEMMA StoreDevicesType ==
  ASSUME Parts, NEW u \in User, NEW list \in SUBSET Device, StoreDevices(u, list)
  PROVE  RowsType'
<1>1. /\ trust \in [User -> [Device -> Trust]]
      /\ \A k \in keyed : k \in User \X Device /\ trust[k[1]][k[2]] # "none"
  BY DEF Parts, RowsType
<1> DEFINE first == IF Stored(u) = {} THEN "trusted" ELSE "untrusted"
           kept == [d \in Device |->
                      CASE d \in list \ Stored(u) -> first
                        [] d \in Stored(u) \ list -> "removed"
                        [] OTHER -> trust[u][d]]
           new == IF list = {} THEN [d \in Device |-> "none"] ELSE kept
<1>2. first \in Trust /\ first # "none" /\ "removed" \in Trust /\ "none" \in Trust
  BY DEF Trust
<1>3. \A d \in Device : kept[d] \in Trust /\ (trust[u][d] # "none" => kept[d] # "none")
  <2> SUFFICES ASSUME NEW d \in Device
               PROVE  kept[d] \in Trust /\ (trust[u][d] # "none" => kept[d] # "none")
    OBVIOUS
  <2>1. trust[u][d] \in Trust
    BY <1>1
  <2>2. CASE d \in list \ Stored(u)
    BY <2>2, <1>2
  <2>3. CASE d \in Stored(u) \ list
    BY <2>3, <1>2
  <2>4. CASE ~(d \in list \ Stored(u)) /\ ~(d \in Stored(u) \ list)
    BY <2>4, <2>1
  <2>5. QED
    BY <2>2, <2>3, <2>4
<1>4. new \in [Device -> Trust]
  BY <1>2, <1>3
<1>5. trust' = [trust EXCEPT ![u] = new]
  BY DEF StoreDevices
<1>6. trust' \in [User -> [Device -> Trust]]
  BY <1>1, <1>4, <1>5
<1>7. \A k \in keyed' : k \in keyed /\ (list # {} \/ k[1] # u)
  BY DEF StoreDevices
<1>8. \A k \in keyed' : trust'[k[1]][k[2]] # "none"
  <2> SUFFICES ASSUME NEW k \in keyed' PROVE trust'[k[1]][k[2]] # "none"
    OBVIOUS
  <2>1. k[1] \in User /\ k[2] \in Device /\ trust[k[1]][k[2]] # "none"
    BY <1>1, <1>7
  <2>2. CASE k[1] = u
    <3>1. new = kept /\ trust'[u] = new
      BY <1>1, <1>5, <1>7, <2>2
    <3>2. QED
      BY <3>1, <2>1, <2>2, <1>3
  <2>3. CASE k[1] # u
    BY <2>1, <2>3, <1>1, <1>5
  <2>4. QED
    BY <2>2, <2>3
<1>9. QED
  BY <1>1, <1>6, <1>7, <1>8 DEF RowsType

\* A saved identity keeps the types and every other row.
LEMMA SaveIdentityType ==
  ASSUME Parts, NEW u \in User, NEW d \in Device, SaveIdentity(u, d)
  PROVE  /\ RowsType'
         /\ \A v \in User, e \in Device : <<v, e>> # <<u, d>> => trust'[v][e] = trust[v][e]
<1>1. /\ trust \in [User -> [Device -> Trust]]
      /\ \A k \in keyed : k \in User \X Device /\ trust[k[1]][k[2]] # "none"
  BY DEF Parts, RowsType
<1>2. /\ trust' \in [User -> [Device -> Trust]]
      /\ trust'[u][d] # "none"
      /\ \A v \in User, e \in Device : <<v, e>> # <<u, d>> => trust'[v][e] = trust[v][e]
  BY <1>1 DEF SaveIdentity, Stored, Trust
<1>3. keyed' = keyed \cup {<<u, d>>}
  BY DEF SaveIdentity
<1>4. ASSUME NEW k \in keyed' PROVE k \in User \X Device /\ trust'[k[1]][k[2]] # "none"
  <2>1. CASE k = <<u, d>>
    BY <2>1, <1>2
  <2>2. CASE k # <<u, d>>
    <3>1. k \in keyed /\ k \in User \X Device /\ trust[k[1]][k[2]] # "none"
      BY <2>2, <1>1, <1>3
    <3>2. k[1] \in User /\ k[2] \in Device /\ <<k[1], k[2]>> = k
      BY <3>1
    <3>3. QED
      BY <3>1, <3>2, <2>2, <1>2
  <2>3. QED
    BY <2>1, <2>2
<1>5. QED
  BY <1>2, <1>4 DEF RowsType

\* Calling a callback keeps the types of what it touches.
LEMMA CallBackType ==
  ASSUME Parts, NEW t \in Thread, NEW u \in User, NEW queue \in Seq(Block),
         CallBack(t, u, queue)
  PROVE  /\ phase' \in [Preparation -> Phase] /\ QueueType'
         /\ removing' \in [Thread -> User \cup {NoOne}] /\ crashed' \in BOOLEAN
<1>1. /\ phase \in [Preparation -> Phase] /\ removing \in [Thread -> User \cup {NoOne}]
      /\ callbacks[u] \in Preparation \cup {NoOne}
  BY DEF Parts, WorkType, DictionaryType
<1>2. phase' \in [Preparation -> Phase]
  BY <1>1 DEF CallBack, Phase
<1>3. removing' \in [Thread -> User \cup {NoOne}] /\ crashed' \in BOOLEAN
  BY <1>1 DEF CallBack
<1>4. QueueType'
  <2>1. callbacks[u] # NoOne => Append(queue, Listed(callbacks[u])) \in Seq(Block)
    BY <1>1, BlockFields, InAppend
  <2>2. QED
    BY <2>1 DEF CallBack, QueueType
<1>5. QED
  BY <1>2, <1>3, <1>4

-----------------------------------------------------------------------------
(* Steps, thread by thread.                                                *)

\* The devices a preparation reads come with a truth value each.
LEMMA FoundType ==
  ASSUME NEW u
  PROVE  {<<d, <<u, d>> \in keyed>> : d \in Stored(u)} \in SUBSET (Device \X BOOLEAN)
<1>1. ASSUME NEW d \in Stored(u), NEW b, b = (<<u, d>> \in keyed)
      PROVE  <<d, b>> \in Device \X BOOLEAN
  <2>1. d \in Device
    BY DEF Stored
  <2>2. b \in BOOLEAN
    BY <1>1
  <2>3. QED
    BY <2>1, <2>2
<1>2. \A d \in Stored(u) : <<d, <<u, d>> \in keyed>> \in Device \X BOOLEAN
  BY <1>1, Zenon
<1>3. QED
  BY <1>2, Zenon

\* The caller's thread.
LEMMA CallerParts ==
  ASSUME Parts,
         \/ \E m \in Message : EncryptAndSend(m)
         \/ Prepares
  PROVE  Parts'
<1> USE Kept, PreparationType
<1>0. /\ status \in [Message -> Status] /\ phase \in [Preparation -> Phase]
      /\ devices \in [Preparation -> SUBSET (Device \X BOOLEAN)]
      /\ bundleBlocks \subseteq Preparation \X Device
  BY DEF Parts, WorkType
<1>1. ASSUME NEW m \in Message, EncryptAndSend(m) PROVE Parts'
  <2>1. WorkType'
    BY <1>0, <1>1 DEF EncryptAndSend, WorkType, Status
  <2>2. QED
    BY <1>1, <2>1 DEF EncryptAndSend, Parts
<1>2. ASSUME NEW p \in Preparation, PrepareSession(p) PROVE Parts'
  <2>1. {<<d, <<UserOf(p), d>> \in keyed>> : d \in Stored(UserOf(p))}
          \in SUBSET (Device \X BOOLEAN)
    BY FoundType
  <2>2. WorkType'
    BY <1>0, <1>2, <2>1 DEF PrepareSession, WorkType, Phase
  <2>3. QueueType'
    BY <1>2, BlockFields, QueueBlockType DEF PrepareSession
  <2>4. QED
    BY <1>2, <2>2, <2>3 DEF PrepareSession, Parts
<1>3. ASSUME NEW p \in Preparation, NoUsername(p) PROVE Parts'
  <2>1. WorkType'
    BY <1>0, <1>3 DEF NoUsername, WorkType, Phase
  <2>2. QED
    BY <1>3, <2>1 DEF NoUsername, Parts
<1>4. ASSUME NEW m \in Message, Notify(m) PROVE Parts'
  <2>1. WorkType'
    BY <1>0, <1>4 DEF Notify, WorkType, Status
  <2>2. QueueType'
    BY <1>4, BlockFields, QueueBlockType DEF Notify
  <2>3. QED
    BY <1>4, <2>1, <2>2 DEF Notify, Parts
<1>5. QED
  BY <1>1, <1>2, <1>3, <1>4 DEF Prepares

\* What FetchBundles changes keeps its types.
LEMMA FetchBundlesType ==
  ASSUME Parts, NEW p \in Preparation, NEW found \in SUBSET (Device \X BOOLEAN),
         FetchBundles(p, found)
  PROVE  /\ bundleBlocks' \subseteq Preparation \X Device
         /\ bundleIqs' \subseteq Preparation \X Device
         /\ phase' \in [Preparation -> Phase]
<1> DEFINE needed == {k[1] : k \in {k \in found : k[1] # Self
                                   /\ (<<UserOf(p), k[1]>> \notin sessions \/ ~k[2])}}
<1>1. needed \subseteq Device
  OBVIOUS
<1>2. /\ bundleBlocks' = bundleBlocks \cup ({p} \X needed)
      /\ bundleIqs' = bundleIqs \cup ({p} \X needed)
      /\ phase' = [phase EXCEPT ![p] = IF needed = {} THEN "done" ELSE "bundles"]
  BY DEF FetchBundles
<1> HIDE DEF needed
<1>3. QED
  BY <1>1, <1>2 DEF Parts, WorkType, ModuleType, Phase

\* Blocks on workQueue.
LEMMA WorkQueueParts ==
  ASSUME Parts, WorkQueueRuns
  PROVE  Parts'
<1> USE Kept, PreparationType
<1> USE DEF Thread
<1>0. /\ status \in [Message -> Status] /\ phase \in [Preparation -> Phase]
      /\ devices \in [Preparation -> SUBSET (Device \X BOOLEAN)]
      /\ bundleBlocks \subseteq Preparation \X Device
      /\ callbacks \in [User -> Preparation \cup {NoOne}]
      /\ removing \in [Thread -> User \cup {NoOne}] /\ crashed \in BOOLEAN
  BY DEF Parts, WorkType, DictionaryType
<1>1. CASE RunPrepare
  <2> DEFINE p == Head(workQueue).p
  <2>1. p \in Preparation /\ QueueType'
    BY <1>1, RunningHead, BlockForms DEF RunPrepare
  <2>2. CASE devices[p] = {} /\ FetchList(p) /\ UNCHANGED <<bundleBlocks, bundleIqs>>
    <3>1. WorkType' /\ DictionaryType'
      BY <1>0, <1>1, <2>1, <2>2 DEF RunPrepare, FetchList, WorkType, DictionaryType, Phase
    <3>2. ModuleType' /\ HistoryType'
      BY <1>1, <2>1, <2>2
      DEF RunPrepare, FetchList, Parts, ModuleType, HistoryType
    <3>3. QED
      BY <1>1, <2>1, <3>1, <3>2 DEF RunPrepare, Parts
  <2>3. CASE FetchBundles(p, devices[p]) /\ UNCHANGED <<callbacks, spoiled, listIq>>
    <3>1. /\ bundleBlocks' \subseteq Preparation \X Device
          /\ bundleIqs' \subseteq Preparation \X Device
          /\ phase' \in [Preparation -> Phase]
      BY <1>0, <2>1, <2>3, FetchBundlesType
    <3>2. WorkType' /\ DictionaryType' /\ ModuleType'
      BY <1>0, <1>1, <2>3, <3>1 DEF RunPrepare, WorkType, DictionaryType, ModuleType, Parts
    <3>3. HistoryType'
      BY <1>1, <2>3 DEF RunPrepare, Parts, HistoryType
    <3>4. QED
      BY <1>1, <2>1, <3>2, <3>3 DEF RunPrepare, Parts
  <2>4. QED
    BY <1>1, <2>2, <2>3 DEF RunPrepare
<1>2. CASE RunListed
  <2> DEFINE p == Head(workQueue).p
             found == {<<d, <<UserOf(p), d>> \in keyed>> : d \in Stored(UserOf(p))}
  <2>1. p \in Preparation /\ QueueType'
    BY <1>2, RunningHead, BlockForms DEF RunListed
  <2>2. found \in SUBSET (Device \X BOOLEAN)
    BY FoundType
  <2>3. /\ devices' = [devices EXCEPT ![p] = found]
        /\ IF found = {} THEN RunEmpty(p) ELSE FetchBundles(p, found)
        /\ UNCHANGED <<status, dictionary, appended, listIq, lateBundles, rows, sessions,
                       history, left>>
    BY <1>2 DEF RunListed
  <2> HIDE DEF found, p
  <2>4. /\ bundleBlocks' \subseteq Preparation \X Device
        /\ bundleIqs' \subseteq Preparation \X Device
        /\ phase' \in [Preparation -> Phase]
    <3>1. CASE found = {}
      BY <1>0, <2>1, <2>3, <3>1 DEF RunEmpty, Phase, Parts, ModuleType
    <3>2. CASE found # {}
      BY <2>1, <2>2, <2>3, <3>2, FetchBundlesType
    <3>3. QED
      BY <3>1, <3>2
  <2>5. WorkType' /\ ModuleType'
    BY <1>0, <2>1, <2>2, <2>3, <2>4 DEF WorkType, ModuleType, Parts
  <2>6. QED
    BY <2>1, <2>3, <2>5 DEF Parts
<1>3. CASE RunListFailed
  <2> DEFINE p == Head(workQueue).p
  <2>1. p \in Preparation /\ UserOf(p) \in User /\ Tail(workQueue) \in Seq(Block)
    BY <1>3, RunningHead, BlockForms DEF RunListFailed
  <2>2. CallBack("work", UserOf(p), Tail(workQueue))
    BY <1>3 DEF RunListFailed
  <2>3. /\ phase' \in [Preparation -> Phase] /\ QueueType'
        /\ removing' \in [Thread -> User \cup {NoOne}] /\ crashed' \in BOOLEAN
    BY <2>1, <2>2, CallBackType
  <2>4. WorkType' /\ DictionaryType'
    BY <1>0, <1>3, <2>3 DEF RunListFailed, WorkType, DictionaryType
  <2>5. QED
    BY <1>3, <2>3, <2>4 DEF RunListFailed, Parts
<1>4. CASE RunBundle
  <2> DEFINE b == Head(workQueue)
             u == UserOf(b.p)
             blocks == bundleBlocks \ {<<b.p, b.d>>}
  <2>1. b.p \in Preparation /\ b.d \in Device /\ u \in User /\ QueueType'
    BY <1>4, RunningHead, BlockForms DEF RunBundle
  <2>2. /\ IF b.ok THEN SaveIdentity(u, b.d) /\ sessions' = sessions \cup {<<u, b.d>>}
                   ELSE UNCHANGED <<rows, sessions>>
        /\ bundleBlocks' = blocks
        /\ phase' = IF phase[b.p] = "bundles" /\ \A d \in Device : <<b.p, d>> \notin blocks
                    THEN [phase EXCEPT ![b.p] = "done"] ELSE phase
        /\ UNCHANGED <<status, devices, dictionary, module, history, left>>
    BY <1>4 DEF RunBundle
  <2> HIDE DEF b, u
  <2>3. RowsType' /\ SessionsType'
    <3>1. CASE b.ok
      BY <2>1, <2>2, <3>1, SaveIdentityType DEF Parts, SessionsType
    <3>2. CASE ~b.ok
      BY <2>2, <3>2
    <3>3. QED
      BY <3>1, <3>2
  <2>4. phase' \in [Preparation -> Phase] /\ bundleBlocks' \subseteq Preparation \X Device
    BY <1>0, <2>1, <2>2 DEF Phase
  <2>5. WorkType'
    BY <1>0, <2>2, <2>4 DEF WorkType
  <2>6. QED
    BY <2>1, <2>2, <2>3, <2>5 DEF Parts
<1>5. CASE RunSeal
  <2> DEFINE m == Head(workQueue).m
             theirs == Usable({Recipients[m][i] : i \in 1..Len(Recipients[m])})
             ours == Usable({Own}) \ {<<Own, Self>>}
  <2>1. m \in Message /\ QueueType'
    BY <1>5, RunningHead, BlockForms DEF RunSeal
  <2>2. theirs \subseteq User \X Device /\ ours \subseteq User \X Device
    BY DEF Usable, Parts, SessionsType
  <2>3. /\ \E s \in {"sent", "failed", "dropped"} : status' = [status EXCEPT ![m] = s]
        /\ \/ sealedFor' = [sealedFor EXCEPT ![m] = theirs \cup ours]
           \/ UNCHANGED sealedFor
        /\ UNCHANGED <<phase, devices, bundleBlocks, dictionary, module, rows, sessions,
                       spoiled, gone, left>>
    BY <1>5 DEF RunSeal
  <2> HIDE DEF m, theirs, ours
  <2>4. WorkType'
    BY <1>0, <2>1, <2>3 DEF WorkType, Status
  <2>5. HistoryType'
    BY <2>1, <2>2, <2>3 DEF HistoryType, Parts
  <2>6. QED
    BY <2>1, <2>3, <2>4, <2>5 DEF Parts
<1>6. CASE RunRemove
  <2> DEFINE b == Head(workQueue)
  <2>1. b.u \in User /\ b.d \in Device /\ QueueType'
    BY <1>6, RunningHead, BlockForms DEF RunRemove
  <2>2. /\ RemoveDevice(b.u, b.d)
        /\ gone' = gone \/ gone' = gone \cup {<<b.u, b.d>>}
        /\ UNCHANGED <<work, dictionary, module, sealedFor, spoiled, left>>
    BY <1>6 DEF RunRemove
  <2> HIDE DEF b
  <2>3. RowsType'
    <3>1. trust \in [User -> [Device -> Trust]]
      BY DEF Parts, RowsType
    <3>2. trust' \in [User -> [Device -> Trust]]
      BY <2>1, <2>2, <3>1 DEF RemoveDevice, Trust
    <3>3. ASSUME NEW k \in keyed' PROVE k \in User \X Device /\ trust'[k[1]][k[2]] # "none"
      <4>1. k \in keyed /\ k # <<b.u, b.d>>
        BY <2>2, <3>3 DEF RemoveDevice
      <4>2. k \in User \X Device /\ trust[k[1]][k[2]] # "none"
        BY <4>1 DEF Parts, RowsType
      <4>3. k[1] \in User /\ k[2] \in Device /\ (k[1] # b.u \/ k[2] # b.d)
        BY <4>1, <4>2
      <4>4. QED
        BY <2>1, <2>2, <3>1, <4>2, <4>3 DEF RemoveDevice
    <3>4. QED
      BY <3>2, <3>3 DEF RowsType
  <2>4. SessionsType' /\ HistoryType'
    BY <2>1, <2>2 DEF RemoveDevice, SessionsType, HistoryType, Parts
  <2>5. QED
    BY <2>1, <2>2, <2>3, <2>4 DEF Parts
<1>7. ASSUME Removal("work") PROVE Parts'
  <2>1. DictionaryType'
    BY <1>0, <1>7 DEF Removal, RemoveCallback, DictionaryType
  <2>2. QED
    BY <1>7, <2>1 DEF Removal, Parts, work, module, rows, history
<1>8. QED
  BY <1>1, <1>2, <1>3, <1>4, <1>5, <1>6, <1>7 DEF WorkQueueRuns

\* Storing a list of the user.
LEMMA StoreDeviceIdsParts ==
  ASSUME Parts, NEW u \in User, NEW list \in SUBSET Device, StoreDeviceIds(u, list)
  PROVE  /\ WorkType' /\ DictionaryType' /\ QueueType' /\ RowsType' /\ SessionsType'
         /\ HistoryType'
<1>1. /\ StoreDevices(u, list) /\ CallBack("module", u, workQueue)
      /\ gone' = gone \ ({u} \X list)
      /\ UNCHANGED <<status, devices, bundleBlocks, callbacks, sessions, sealedFor, spoiled>>
  BY DEF StoreDeviceIds
<1>2. RowsType'
  BY <1>1, StoreDevicesType
<1>3. /\ phase' \in [Preparation -> Phase] /\ QueueType'
      /\ removing' \in [Thread -> User \cup {NoOne}] /\ crashed' \in BOOLEAN
  BY <1>1, CallBackType DEF Thread, Parts, QueueType
<1>4. WorkType' /\ DictionaryType'
  BY <1>1, <1>3 DEF Parts, WorkType, DictionaryType
<1>5. SessionsType' /\ HistoryType'
  BY <1>1 DEF Parts, SessionsType, HistoryType
<1>6. QED
  BY <1>2, <1>3, <1>4, <1>5

\* A list that is processed keeps the types.
LEMMA ProcessIncomingParts ==
  ASSUME Parts, NEW u \in User, NEW list \in SUBSET Device, ProcessIncoming(u, list)
  PROVE  /\ WorkType' /\ DictionaryType' /\ QueueType' /\ RowsType' /\ SessionsType'
         /\ HistoryType' /\ appended' \subseteq SUBSET Device
<1>1. StoreDeviceIds(u, list) /\ appended' \subseteq {list \cup {Self}}
  BY DEF ProcessIncoming
<1>2. QED
  BY <1>1, StoreDeviceIdsParts, SelfType

\* A fetch of a list that fails keeps the types.
LEMMA ListFailsParts ==
  ASSUME Parts, NEW p \in Preparation, ListFails(p)
  PROVE  /\ WorkType' /\ DictionaryType' /\ QueueType' /\ RowsType' /\ SessionsType'
         /\ HistoryType' /\ appended' \subseteq SUBSET Device
<1>1. CASE ProcessIncoming(Own, {})
  BY <1>1, ProcessIncomingParts DEF User
<1>2. CASE /\ Queue(ListFailed(p))
           /\ UNCHANGED <<work, dictionary, appended, rows, sessions, history>>
  BY <1>2, BlockFields, QueueBlockType, Kept DEF Parts, ModuleType
<1>3. QED
  BY <1>1, <1>2 DEF ListFails

\* The module's queue.
LEMMA ModuleQueueParts ==
  ASSUME Parts, ModuleQueueRuns
  PROVE  Parts'
<1> USE Kept, PreparationType
<1>0. /\ appended \subseteq SUBSET Device /\ listIq \in [Preparation -> {"none", "out", "late"}]
      /\ bundleIqs \subseteq Preparation \X Device /\ lateBundles \subseteq Preparation \X Device
  BY DEF Parts, ModuleType
<1>1. ASSUME Removal("module") PROVE Parts'
  <2>1. DictionaryType'
    BY <1>1 DEF Removal, RemoveCallback, DictionaryType, Parts, Thread
  <2>2. QED
    BY <1>1, <2>1 DEF Removal, Parts, work, module, rows, history
<1>2. ASSUME StoreAppended PROVE Parts'
  <2>1. PICK list \in appended : StoreDeviceIds(Own, list)
    BY <1>2 DEF StoreAppended
  <2>2. /\ WorkType' /\ DictionaryType' /\ QueueType' /\ RowsType' /\ SessionsType'
        /\ HistoryType'
    BY <1>0, <2>1, StoreDeviceIdsParts DEF User
  <2>3. ModuleType' /\ LeftType'
    BY <1>0, <1>2 DEF StoreAppended, ModuleType
  <2>4. QED
    BY <2>2, <2>3 DEF Parts
<1>3. ASSUME NEW p \in Preparation, NEW list \in Lists[UserOf(p)], ListAnswered(p, list)
      PROVE  Parts'
  <2>1. list \in SUBSET Device
    BY <1>3, ListsType
  <2>2. /\ WorkType' /\ DictionaryType' /\ QueueType' /\ RowsType' /\ SessionsType'
        /\ HistoryType' /\ appended' \subseteq SUBSET Device
    BY <1>3, <2>1, ProcessIncomingParts DEF ListAnswered
  <2>3. ModuleType' /\ LeftType'
    BY <1>0, <1>3, <2>2, SpendIfType DEF ListAnswered, ModuleType
  <2>4. QED
    BY <2>2, <2>3 DEF Parts
<1>4. ASSUME NEW p \in Preparation, ListRefused(p) \/ ListTimesOut(p) PROVE Parts'
  <2>1. /\ WorkType' /\ DictionaryType' /\ QueueType' /\ RowsType' /\ SessionsType'
        /\ HistoryType' /\ appended' \subseteq SUBSET Device
    BY <1>4, ListFailsParts DEF ListRefused, ListTimesOut
  <2>2. ModuleType' /\ LeftType'
    BY <1>0, <1>4, <2>1, SpendIfType DEF ListRefused, ListTimesOut, ModuleType
  <2>3. QED
    BY <2>1, <2>2 DEF Parts
<1>5. ASSUME NEW p \in Preparation, NEW d \in Device, NEW ok \in BOOLEAN,
             BundleAnswered(p, d, ok)
      PROVE  Parts'
  <2>1. QueueType'
    BY <1>5, BlockFields, QueueBlockType DEF BundleAnswered
  <2>2. ModuleType' /\ LeftType'
    BY <1>0, <1>5, SpendIfType DEF BundleAnswered, ModuleType
  <2>3. QED
    BY <1>5, <2>1, <2>2 DEF BundleAnswered, Parts
<1>6. ASSUME NEW p \in Preparation, NEW d \in Device, BundleTimesOut(p, d) PROVE Parts'
  <2>1. QueueType'
    BY <1>6, BlockFields, QueueBlockType DEF BundleTimesOut
  <2>2. ModuleType'
    BY <1>0, <1>6 DEF BundleTimesOut, ModuleType
  <2>3. QED
    BY <1>6, <2>1, <2>2 DEF BundleTimesOut, Parts
<1>7. ASSUME NEW u \in User, NEW list \in Lists[u], ListPushed(u, list) PROVE Parts'
  <2>1. list \in SUBSET Device
    BY <1>7, ListsType
  <2>2. /\ WorkType' /\ DictionaryType' /\ QueueType' /\ RowsType' /\ SessionsType'
        /\ HistoryType' /\ appended' \subseteq SUBSET Device
    BY <1>7, <2>1, ProcessIncomingParts DEF ListPushed
  <2>3. ModuleType' /\ LeftType'
    BY <1>0, <1>7, <2>2, SpendType DEF ListPushed, ModuleType
  <2>4. QED
    BY <2>2, <2>3 DEF Parts
<1>8. QED
  BY <1>1, <1>2, <1>3, <1>4, <1>5, <1>6, <1>7 DEF ModuleQueueRuns

\* The user and incoming messages.
LEMMA OutsideParts ==
  ASSUME Parts, NEW u \in User, NEW d \in Device,
         \/ \E level \in {"trusted", "untrusted"} : SetTrust(u, d, level)
         \/ AskToRemove(u, d) \/ ReceiveKeyData(u, d)
  PROVE  Parts'
<1> USE Kept
<1>1. ASSUME NEW level \in {"trusted", "untrusted"}, SetTrust(u, d, level) PROVE Parts'
  <2>1. RowsType'
    <3>1. /\ trust \in [User -> [Device -> Trust]]
          /\ \A k \in keyed : k \in User \X Device /\ trust[k[1]][k[2]] # "none"
      BY DEF Parts, RowsType
    <3>2. /\ trust' = [trust EXCEPT ![u][d] = level] /\ keyed' = keyed
          /\ level \in Trust /\ level # "none"
      BY <1>1 DEF SetTrust, rows, Trust
    <3>3. trust' \in [User -> [Device -> Trust]]
      BY <3>1, <3>2
    <3>4. \A v \in User, e \in Device : trust[v][e] # "none" => trust'[v][e] # "none"
      BY <3>1, <3>2
    <3>5. QED
      BY <3>1, <3>2, <3>3, <3>4 DEF RowsType
  <2>2. LeftType'
    BY <1>1, SpendType DEF SetTrust
  <2>3. QED
    BY <1>1, <2>1, <2>2 DEF SetTrust, Parts
<1>2. ASSUME AskToRemove(u, d) PROVE Parts'
  BY <1>2, BlockFields, QueueBlockType, SpendType DEF AskToRemove, Parts
<1>3. ASSUME ReceiveKeyData(u, d) PROVE Parts'
  <2>1. RowsType' /\ SessionsType' /\ HistoryType'
    <3>1. CASE /\ sessions' = sessions \cup {<<u, d>>}
               /\ SaveIdentity(u, d)
               /\ gone' = gone \ {<<u, d>>}
      BY <1>3, <3>1, SaveIdentityType
      DEF ReceiveKeyData, Parts, SessionsType, HistoryType
    <3>2. CASE sessions' = sessions \ {<<u, d>>} /\ UNCHANGED <<rows, gone>>
      BY <1>3, <3>2 DEF ReceiveKeyData, Parts, SessionsType, HistoryType
    <3>3. QED
      BY <1>3, <3>1, <3>2 DEF ReceiveKeyData
  <2>2. LeftType'
    BY <1>3, SpendType DEF ReceiveKeyData
  <2>3. QED
    BY <1>3, <2>1, <2>2 DEF ReceiveKeyData, Parts
<1>4. QED
  BY <1>1, <1>2, <1>3

\* Every step keeps the types.
LEMMA NextParts == Parts /\ [Next]_vars => Parts'
<1> SUFFICES ASSUME Parts, [Next]_vars PROVE Parts'
  OBVIOUS
<1>1. CASE UNCHANGED vars
  BY <1>1, Kept DEF vars, Parts
<1>2. CASE Next
  BY <1>2, CallerParts, WorkQueueParts, ModuleQueueParts, OutsideParts DEF Next
<1>3. QED
  BY <1>1, <1>2

\* In every reachable state each variable of the coordinator has its type,
\* and a row with a key is a row that is stored.
THEOREM CoordinatorTypeCorrect == Spec => []TypeOK
<1>1. Init => Parts
  BY InitParts
<1>2. Parts /\ [Next]_vars => Parts'
  BY NextParts
<1>3. QED
  BY <1>1, <1>2, TypeOKIsParts, PTL DEF Spec

-----------------------------------------------------------------------------
(* The inductive invariant, in parts.                                      *)

\* A preparation has a block in the queue when its phase says so, and one.
QueueInv ==
  /\ Once(workQueue)
  /\ \A p \in Preparation :
       /\ In(Prepare(p), workQueue) => phase[p] = "queued"
       /\ In(Listed(p), workQueue) <=> phase[p] = "listed"

\* A callback in the dictionary still has its group to leave, unless a
\* thread is about to remove it.
CallbackInv ==
  ~crashed =>
    \A u \in User :
      callbacks[u] # NoOne =>
        /\ UserOf(callbacks[u]) = u
        /\ phase[callbacks[u]] = "fetching" \/ \E t \in Thread : removing[t] = u

\* A preparation that waits for a list is called back: it is in the
\* dictionary, nobody is about to remove it, and its request is on the way.
FetchInv ==
  \A p \in Preparation :
    phase[p] = "fetching" /\ UserOf(p) \notin spoiled =>
      /\ callbacks[UserOf(p)] = p
      /\ \A t \in Thread : removing[t] # UserOf(p)
      /\ listIq[p] = "out" \/ In(ListFailed(p), workQueue)

\* A preparation that waits for bundles has a block, and every block is called.
BundleInv ==
  \A p \in Preparation :
    /\ phase[p] = "bundles" => \E d \in Device : <<p, d>> \in bundleBlocks
    /\ \A d \in Device :
         <<p, d>> \in bundleBlocks =>
           <<p, d>> \in bundleIqs \/ \E ok \in BOOLEAN : In(Bundle(p, d, ok), workQueue)

\* A bundle of the device may come in for the preparation.
Opens(p, d) ==
  \/ phase[p] = "queued" /\ d \in {k[1] : k \in devices[p]}
  \/ <<p, d>> \in bundleIqs \cup lateBundles
  \/ In(Bundle(p, d, TRUE), workQueue)

\* A device that was removed has no row, and nothing on the way to bring it back.
GoneInv ==
  \A u \in User, d \in Device :
    <<u, d>> \in gone =>
      /\ trust[u][d] = "none"
      /\ \A p \in Preparation : UserOf(p) = u => ~Opens(p, d)

IInv ==
  /\ Parts /\ QueueInv /\ CallbackInv /\ FetchInv /\ BundleInv /\ GoneInv
  /\ OnlyCrossingCrashes

\* The waiting property is what the parts say of it.
LEMMA WaitingFromParts == IInv => WaitingIsEnded
<1> SUFFICES ASSUME IInv PROVE WaitingIsEnded
  OBVIOUS
<1>1. \A b : IsQueued(b) <=> In(b, workQueue)
  BY DEF IsQueued, In
<1>2. QED
  BY <1>1 DEF IInv, QueueInv, FetchInv, BundleInv, WaitingIsEnded

-----------------------------------------------------------------------------
(* Steps that leave a part alone.                                          *)

\* The dictionary is as it was, and whoever fetches goes on fetching.
LEMMA DictionaryKept ==
  ASSUME Parts, CallbackInv, FetchInv, OnlyCrossingCrashes,
         UNCHANGED <<callbacks, removing, crashed, spoiled>>,
         \A p \in Preparation : phase'[p] = "fetching" <=> phase[p] = "fetching",
         \A p \in Preparation :
           listIq[p] = "out" => listIq'[p] = "out" \/ In(ListFailed(p), workQueue'),
         \A p \in Preparation : In(ListFailed(p), workQueue) => In(ListFailed(p), workQueue')
  PROVE  CallbackInv' /\ FetchInv' /\ OnlyCrossingCrashes'
<1>1. callbacks \in [User -> Preparation \cup {NoOne}]
  BY DEF Parts, DictionaryType
<1>2. CallbackInv'
  BY <1>1 DEF CallbackInv
<1>3. FetchInv'
  BY DEF FetchInv
<1>4. OnlyCrossingCrashes'
  BY DEF OnlyCrossingCrashes
<1>5. QED
  BY <1>2, <1>3, <1>4

\* The blocks of devices are as they were, and are still to be called.
LEMMA BlocksKept ==
  ASSUME BundleInv, UNCHANGED bundleBlocks,
         \A p \in Preparation : phase'[p] = "bundles" => phase[p] = "bundles",
         \A p \in Preparation, d \in Device :
           <<p, d>> \in bundleIqs =>
             <<p, d>> \in bundleIqs' \/ \E ok \in BOOLEAN : In(Bundle(p, d, ok), workQueue'),
         \A p \in Preparation, d \in Device, ok \in BOOLEAN :
           In(Bundle(p, d, ok), workQueue) => In(Bundle(p, d, ok), workQueue')
  PROVE  BundleInv'
BY DEF BundleInv

\* Nothing is brought back: what may come in from now on might have before,
\* or is of a device that is stored.
LEMMA GoneKept ==
  ASSUME GoneInv, gone' \subseteq gone,
         \A u \in User, d \in Device :
           <<u, d>> \in gone' /\ trust[u][d] = "none" => trust'[u][d] = "none",
         \A p \in Preparation, d \in Device :
           Opens(p, d)' => Opens(p, d) \/ d \in Stored(UserOf(p))
  PROVE  GoneInv'
<1> SUFFICES ASSUME NEW u \in User, NEW d \in Device, <<u, d>> \in gone'
             PROVE  /\ trust'[u][d] = "none"
                    /\ \A p \in Preparation : UserOf(p) = u => ~Opens(p, d)'
  BY DEF GoneInv
<1>1. trust[u][d] = "none" /\ \A p \in Preparation : UserOf(p) = u => ~Opens(p, d)
  BY DEF GoneInv
<1>2. d \notin Stored(u)
  BY <1>1 DEF Stored
<1>3. QED
  BY <1>1, <1>2

\* Appending a block of which there is no other.
LEMMA QueueKept ==
  ASSUME Parts, QueueInv, NEW b \in Block, Queue(b), ~Single(b),
         \A p \in Preparation : phase'[p] = phase[p]
  PROVE  QueueInv'
<1>1. workQueue \in Seq(Block) /\ workQueue' = Append(workQueue, b)
  BY DEF Parts, QueueType, Queue
<1>2. /\ Once(workQueue')
      /\ \A x : In(x, workQueue') <=> In(x, workQueue) \/ x = b
  BY <1>1, InAppend DEF QueueInv
<1>3. \A p \in Preparation : b # Prepare(p) /\ b # Listed(p)
  BY BlockFields DEF Single
<1>4. QED
  BY <1>2, <1>3 DEF QueueInv

\* Running a block that says nothing of a phase.
LEMMA QueueShortened ==
  ASSUME Parts, QueueInv, workQueue # <<>>, workQueue' = Tail(workQueue),
         ~Single(Head(workQueue)),
         \A p \in Preparation :
           /\ phase[p] = "queued" => phase'[p] = "queued"
           /\ phase'[p] = "listed" <=> phase[p] = "listed"
  PROVE  QueueInv'
<1>1. /\ Once(workQueue')
      /\ \A x : In(x, workQueue') => In(x, workQueue)
      /\ \A x : In(x, workQueue) => x = Head(workQueue) \/ In(x, workQueue')
  BY InTail DEF Parts, QueueType, QueueInv
<1>2. \A p \in Preparation : Head(workQueue) # Prepare(p) /\ Head(workQueue) # Listed(p)
  BY BlockFields DEF Single
<1>3. QED
  BY <1>1, <1>2 DEF QueueInv

-----------------------------------------------------------------------------
(* Calling a callback.                                                     *)

\* queue holds what was on workQueue but for a failure reported for the user.
Rest(queue, u) ==
  /\ queue \in Seq(Block) /\ Once(queue)
  /\ \A x : In(x, queue) => In(x, workQueue)
  /\ \A x : In(x, workQueue) =>
       In(x, queue) \/ \E p \in Preparation : UserOf(p) = u /\ x = ListFailed(p)

\* A callback that is called keeps the invariant, and opens no bundle.
LEMMA CallBackKeeps ==
  ASSUME IInv, ~crashed, NEW t \in Thread, NEW u \in User, removing[t] = NoOne,
         NEW queue, Rest(queue, u), CallBack(t, u, queue),
         UNCHANGED <<callbacks, spoiled, devices, bundleBlocks, bundleIqs>>,
         lateBundles' \subseteq lateBundles,
         \A p \in Preparation : UserOf(p) # u => listIq'[p] = listIq[p]
  PROVE  /\ QueueInv' /\ CallbackInv' /\ FetchInv' /\ BundleInv' /\ OnlyCrossingCrashes'
         /\ \A p \in Preparation, d \in Device : Opens(p, d)' => Opens(p, d)
<1> DEFINE c == callbacks[u]
           waits == c # NoOne /\ phase[c] = "fetching"
<1>1. /\ phase \in [Preparation -> Phase] /\ removing \in [Thread -> User \cup {NoOne}]
      /\ callbacks \in [User -> Preparation \cup {NoOne}] /\ c \in Preparation \cup {NoOne}
      /\ workQueue \in Seq(Block)
  BY DEF IInv, Parts, WorkType, DictionaryType, QueueType
<1>2. /\ removing' = [removing EXCEPT ![t] = IF c = NoOne THEN NoOne ELSE u]
      /\ phase' = IF waits THEN [phase EXCEPT ![c] = "listed"] ELSE phase
      /\ workQueue' = IF waits THEN Append(queue, Listed(c)) ELSE queue
      /\ crashed' = (c # NoOne /\ ~waits)
  BY DEF CallBack
<1>3. c # NoOne => UserOf(c) = u /\ (waits \/ \E s \in Thread : removing[s] = u)
  BY DEF IInv, CallbackInv
<1>4. waits => c \in Preparation
  BY <1>1
<1>5. NoOne \notin User /\ \A p \in Preparation : UserOf(p) \in User
  BY NoOneIsNone, PreparationType
<1> HIDE DEF c, waits
\* The queue gains the block of the preparation called, of which there was none.
<1>6. /\ \A x : In(x, workQueue') <=> In(x, queue) \/ (waits /\ x = Listed(c))
      /\ Once(workQueue')
  <2>1. CASE waits
    <3>1. Listed(c) \in Block
      BY <1>4, <2>1, BlockFields
    <3>2. ~In(Listed(c), queue)
      <4>1. phase[c] # "listed"
        BY <2>1 DEF waits
      <4>2. ~In(Listed(c), workQueue)
        BY <1>4, <2>1, <4>1 DEF IInv, QueueInv
      <4>3. QED
        BY <4>2 DEF Rest
    <3>3. QED
      BY <1>2, <2>1, <3>1, <3>2, InAppend DEF Rest
  <2>2. CASE ~waits
    BY <1>2, <2>2 DEF Rest
  <2>3. QED
    BY <2>1, <2>2
<1>7. \A p \in Preparation :
        /\ In(Prepare(p), workQueue') <=> In(Prepare(p), workQueue)
        /\ In(Listed(p), workQueue') <=> In(Listed(p), workQueue) \/ (waits /\ p = c)
        /\ UserOf(p) # u => (In(ListFailed(p), workQueue') <=> In(ListFailed(p), workQueue))
        /\ \A d \in Device, ok \in BOOLEAN :
             In(Bundle(p, d, ok), workQueue') <=> In(Bundle(p, d, ok), workQueue)
  <2> SUFFICES ASSUME NEW p \in Preparation, NEW d \in Device, NEW ok \in BOOLEAN
               PROVE  /\ In(Prepare(p), workQueue') <=> In(Prepare(p), workQueue)
                      /\ In(Listed(p), workQueue')
                           <=> In(Listed(p), workQueue) \/ (waits /\ p = c)
                      /\ UserOf(p) # u =>
                           (In(ListFailed(p), workQueue') <=> In(ListFailed(p), workQueue))
                      /\ In(Bundle(p, d, ok), workQueue') <=> In(Bundle(p, d, ok), workQueue)
    BY SelfType
  <2>1. \A r \in Preparation : /\ Prepare(p) # ListFailed(r) /\ Listed(p) # ListFailed(r)
                               /\ Bundle(p, d, ok) # ListFailed(r)
                               /\ ListFailed(p) = ListFailed(r) => p = r
                               /\ Prepare(p) # Listed(r) /\ ListFailed(p) # Listed(r)
                               /\ Bundle(p, d, ok) # Listed(r)
                               /\ Listed(p) = Listed(r) => p = r
    BY BlockFields
  <2>2. QED
    BY <1>4, <1>6, <2>1 DEF Rest
<1>8. QueueInv'
  BY <1>1, <1>2, <1>4, <1>6, <1>7 DEF IInv, QueueInv, waits
<1>9. FetchInv'
  <2> SUFFICES ASSUME NEW p \in Preparation, phase'[p] = "fetching", UserOf(p) \notin spoiled
               PROVE  /\ callbacks[UserOf(p)] = p
                      /\ \A s \in Thread : removing'[s] # UserOf(p)
                      /\ listIq'[p] = "out" \/ In(ListFailed(p), workQueue')
    BY DEF FetchInv
  <2>1. phase[p] = "fetching"
    BY <1>1, <1>2, <1>4
  <2>2. /\ callbacks[UserOf(p)] = p
        /\ \A s \in Thread : removing[s] # UserOf(p)
        /\ listIq[p] = "out" \/ In(ListFailed(p), workQueue)
    BY <2>1 DEF IInv, FetchInv
  <2>3. UserOf(p) # u
    <3> SUFFICES ASSUME UserOf(p) = u PROVE FALSE
      OBVIOUS
    <3>1. c = p /\ c # NoOne
      BY <2>2, NoPreparation DEF c
    <3>2. waits
      BY <2>1, <3>1 DEF waits
    <3>3. QED
      BY <1>1, <1>2, <1>4, <3>1, <3>2
  <2>4. QED
    BY <1>1, <1>2, <1>5, <1>7, <2>2, <2>3
<1>10. CallbackInv'
  <2> SUFFICES ASSUME ~crashed', NEW v \in User, callbacks[v] # NoOne
               PROVE  /\ UserOf(callbacks[v]) = v
                      /\ \/ phase'[callbacks[v]] = "fetching"
                         \/ \E s \in Thread : removing'[s] = v
    BY DEF CallbackInv
  <2>1. /\ UserOf(callbacks[v]) = v /\ callbacks[v] \in Preparation
        /\ phase[callbacks[v]] = "fetching" \/ \E s \in Thread : removing[s] = v
    BY <1>1 DEF IInv, CallbackInv
  <2>2. CASE v = u
    BY <1>1, <1>2, <2>1, <2>2 DEF c
  <2>3. CASE v # u
    <3>1. waits => callbacks[v] # c
      BY <1>3, <2>1, <2>3 DEF waits
    <3>2. \A s \in Thread : removing[s] = v => removing'[s] = v
      BY <1>1, <1>2, <1>5
    <3>3. QED
      BY <1>1, <1>2, <1>4, <2>1, <3>1, <3>2
  <2>4. QED
    BY <2>2, <2>3
<1>11. OnlyCrossingCrashes'
  <2> SUFFICES ASSUME crashed' = TRUE
               PROVE  \E v \in User : \A s \in Thread : removing'[s] = v
    BY <1>2 DEF OnlyCrossingCrashes
  <2>1. c # NoOne /\ ~waits
    BY <1>2
  <2>2. PICK s \in Thread : removing[s] = u
    BY <1>3, <2>1
  <2>3. s # t
    BY <1>5, <2>2
  <2>4. \A r \in Thread : r \in {s, t}
    BY <2>3 DEF Thread
  <2>5. QED
    BY <1>1, <1>2, <2>1, <2>2, <2>3, <2>4
<1>12. BundleInv'
  <2>1. \A p \in Preparation : phase'[p] = "bundles" => phase[p] = "bundles"
    BY <1>1, <1>2, <1>4
  <2>2. QED
    BY <1>7, <2>1, BlocksKept DEF IInv
<1>13. ASSUME NEW p \in Preparation, NEW d \in Device, Opens(p, d)' PROVE Opens(p, d)
  <2>1. phase'[p] = "queued" => phase[p] = "queued"
    BY <1>1, <1>2, <1>4
  <2>2. In(Bundle(p, d, TRUE), workQueue') => In(Bundle(p, d, TRUE), workQueue)
    BY <1>7
  <2>3. QED
    BY <1>13, <2>1, <2>2 DEF Opens
<1>14. QED
  BY <1>8, <1>9, <1>10, <1>11, <1>12, <1>13

-----------------------------------------------------------------------------
(* Steps, thread by thread.                                                *)

\* What is in the queue after a block was queued, and after one was taken.
LEMMA AfterQueue ==
  ASSUME Parts, NEW b \in Block, Queue(b)
  PROVE  \A x : In(x, workQueue') <=> In(x, workQueue) \/ x = b
BY InAppend DEF Parts, QueueType, Queue

\* A block that ran is gone from the workQueue, and only it.
LEMMA AfterRun ==
  ASSUME Parts, workQueue # <<>>, workQueue' = Tail(workQueue)
  PROVE  /\ \A x : In(x, workQueue') => In(x, workQueue)
         /\ \A x : In(x, workQueue) => x = Head(workQueue) \/ In(x, workQueue')
         /\ In(Head(workQueue), workQueue) /\ Head(workQueue) \in Block
BY InTail DEF Parts, QueueType

\* The devices of what a preparation reads are stored.
LEMMA FoundDevices ==
  ASSUME NEW u, NEW d,
         d \in {k[1] : k \in {<<e, <<u, e>> \in keyed>> : e \in Stored(u)}}
  PROVE  d \in Stored(u)
<1>1. \A e, b : <<e, b>>[1] = e
  OBVIOUS
<1>2. PICK k \in {<<e, <<u, e>> \in keyed>> : e \in Stored(u)} : d = k[1]
  BY Zenon
<1>3. PICK e \in Stored(u) : k = <<e, <<u, e>> \in keyed>>
  BY <1>2, Zenon
<1>4. k[1] = e
  BY <1>1, <1>3, Zenon
<1>5. QED
  BY <1>2, <1>4

\* A step that moves neither queue nor dictionary nor requests nor rows.
LEMMA NothingMoves ==
  ASSUME IInv, Parts',
         UNCHANGED <<phase, devices, bundleBlocks, dictionary, workQueue, module, trust,
                     spoiled, gone>>
  PROVE  IInv'
<1>1. QueueInv'
  BY DEF IInv, QueueInv, Once, In
<1>2. CallbackInv' /\ FetchInv' /\ OnlyCrossingCrashes'
  BY DictionaryKept DEF IInv, dictionary, module
<1>3. BundleInv'
  BY BlocksKept DEF IInv, module
<1>4. \A p \in Preparation, d \in Device : Opens(p, d)' => Opens(p, d)
  BY DEF Opens, module
<1>5. GoneInv'
  BY <1>4, GoneKept DEF IInv
<1>6. QED
  BY <1>1, <1>2, <1>3, <1>5 DEF IInv

\* The caller's thread.
LEMMA CallerInv ==
  ASSUME IInv, Parts',
         \/ \E m \in Message : EncryptAndSend(m)
         \/ Prepares
  PROVE  IInv'
<1> USE PreparationType
<1>0. /\ Parts /\ QueueInv /\ CallbackInv /\ FetchInv /\ BundleInv /\ GoneInv
      /\ OnlyCrossingCrashes
      /\ phase \in [Preparation -> Phase]
      /\ devices \in [Preparation -> SUBSET (Device \X BOOLEAN)]
  BY DEF IInv, Parts, WorkType
<1>1. ASSUME NEW m \in Message, EncryptAndSend(m) PROVE IInv'
  BY <1>1, NothingMoves DEF EncryptAndSend, rows, history
<1>2. ASSUME NEW p \in Preparation, PrepareSession(p) PROVE IInv'
  <2>1. /\ phase[p] = "new" /\ phase' = [phase EXCEPT ![p] = "queued"]
        /\ devices' = [devices EXCEPT ![p] =
                        {<<d, <<UserOf(p), d>> \in keyed>> : d \in Stored(UserOf(p))}]
        /\ Queue(Prepare(p)) /\ Prepare(p) \in Block
        /\ UNCHANGED <<status, bundleBlocks, dictionary, module, rows, sessions, history, left>>
    BY <1>2, BlockFields DEF PrepareSession, IsNext
  <2>2. \A x : In(x, workQueue') <=> In(x, workQueue) \/ x = Prepare(p)
    BY <1>0, <2>1, AfterQueue
  <2>3. \A q \in Preparation :
          /\ Prepare(q) = Prepare(p) => q = p
          /\ Listed(q) # Prepare(p) /\ ListFailed(q) # Prepare(p)
          /\ \A d \in Device, ok \in BOOLEAN : Bundle(q, d, ok) # Prepare(p)
    BY BlockFields
  <2>4. QueueInv'
    <3>1. ~In(Prepare(p), workQueue)
      BY <1>0, <2>1 DEF QueueInv
    <3>2. Once(workQueue')
      BY <1>0, <2>1, <3>1, InAppend DEF QueueInv, Queue, Parts, QueueType
    <3>3. QED
      BY <1>0, <2>1, <2>2, <2>3, <3>2 DEF QueueInv
  <2>5. CallbackInv' /\ FetchInv' /\ OnlyCrossingCrashes'
    BY <1>0, <2>1, <2>2, DictionaryKept DEF dictionary, module, history
  <2>6. BundleInv'
    BY <1>0, <2>1, <2>2, BlocksKept DEF module
  <2>7. ASSUME NEW q \in Preparation, NEW d \in Device, Opens(q, d)'
        PROVE  Opens(q, d) \/ d \in Stored(UserOf(q))
    <3>1. CASE phase'[q] = "queued" /\ d \in {k[1] : k \in devices'[q]}
      <4>1. CASE q = p
        <5>1. d \in {k[1] : k \in {<<e, <<UserOf(p), e>> \in keyed>> : e \in Stored(UserOf(p))}}
          BY <1>0, <2>1, <3>1, <4>1
        <5>2. QED
          BY <4>1, <5>1, FoundDevices
      <4>2. CASE q # p
        BY <1>0, <2>1, <3>1, <4>2 DEF Opens
      <4>3. QED
        BY <4>1, <4>2
    <3>2. CASE \/ <<q, d>> \in bundleIqs' \cup lateBundles'
               \/ In(Bundle(q, d, TRUE), workQueue')
      BY <2>1, <2>2, <2>3, <3>2 DEF Opens, module
    <3>3. QED
      BY <2>7, <3>1, <3>2 DEF Opens
  <2>8. GoneInv'
    BY <1>0, <2>1, <2>7, GoneKept DEF rows, history
  <2>9. QED
    BY <2>4, <2>5, <2>6, <2>8 DEF IInv
<1>3. ASSUME NEW p \in Preparation, NoUsername(p) PROVE IInv'
  <2>1. /\ phase[p] = "new" /\ phase' = [phase EXCEPT ![p] = "done"]
        /\ UNCHANGED <<status, devices, bundleBlocks, dictionary, workQueue, module, rows,
                       sessions, history, left>>
    BY <1>3 DEF NoUsername, IsNext
  <2>2. QueueInv'
    BY <1>0, <2>1 DEF QueueInv, Once, In
  <2>3. CallbackInv' /\ FetchInv' /\ OnlyCrossingCrashes'
    BY <1>0, <2>1, DictionaryKept DEF dictionary, module, history
  <2>4. BundleInv'
    BY <1>0, <2>1, BlocksKept DEF module
  <2>5. \A q \in Preparation, d \in Device : Opens(q, d)' => Opens(q, d)
    BY <1>0, <2>1 DEF Opens, module
  <2>6. GoneInv'
    BY <1>0, <2>1, <2>5, GoneKept DEF rows, history
  <2>7. QED
    BY <2>2, <2>3, <2>4, <2>6 DEF IInv
<1>4. ASSUME NEW m \in Message, Notify(m) PROVE IInv'
  <2>1. /\ Queue(Seal(m)) /\ Seal(m) \in Block /\ ~Single(Seal(m))
        /\ UNCHANGED <<phase, devices, bundleBlocks, dictionary, module, rows, sessions, history,
                       left>>
    BY <1>4, BlockFields DEF Notify, Single
  <2>2. \A x : In(x, workQueue') <=> In(x, workQueue) \/ x = Seal(m)
    BY <1>0, <2>1, AfterQueue
  <2>3. \A q \in Preparation, d \in Device, ok \in BOOLEAN : Bundle(q, d, ok) # Seal(m)
    BY BlockFields
  <2>4. QueueInv'
    BY <1>0, <2>1, QueueKept
  <2>5. CallbackInv' /\ FetchInv' /\ OnlyCrossingCrashes'
    BY <1>0, <2>1, <2>2, DictionaryKept DEF dictionary, module, history
  <2>6. BundleInv'
    BY <1>0, <2>1, <2>2, BlocksKept DEF module
  <2>7. \A q \in Preparation, d \in Device : Opens(q, d)' => Opens(q, d)
    BY <2>1, <2>2, <2>3 DEF Opens, module
  <2>8. GoneInv'
    BY <1>0, <2>1, <2>7, GoneKept DEF rows, history
  <2>9. QED
    BY <2>4, <2>5, <2>6, <2>8 DEF IInv
<1>5. QED
  BY <1>1, <1>2, <1>3, <1>4 DEF Prepares

\* A thread takes the callback it called out of the dictionary.
LEMMA RemovalInv ==
  ASSUME IInv, Parts', ~crashed, NEW t \in Thread, Removal(t)
  PROVE  IInv'
<1> DEFINE u == removing[t]
<1>1. /\ callbacks \in [User -> Preparation \cup {NoOne}]
      /\ removing \in [Thread -> User \cup {NoOne}]
      /\ u \in User
  BY DEF IInv, Parts, DictionaryType, Removal, RemoveCallback
<1>2. /\ callbacks' = [callbacks EXCEPT ![u] = NoOne]
      /\ removing' = [removing EXCEPT ![t] = NoOne]
      /\ UNCHANGED <<phase, devices, bundleBlocks, crashed, workQueue, listIq, bundleIqs,
                     lateBundles, trust, spoiled, gone>>
  BY DEF Removal, RemoveCallback, work, module, rows, history
<1> HIDE DEF u
<1>3. QueueInv'
  BY <1>2 DEF IInv, QueueInv, Once, In
<1>4. CallbackInv'
  <2> SUFFICES ASSUME NEW v \in User, callbacks'[v] # NoOne
               PROVE  /\ UserOf(callbacks'[v]) = v
                      /\ \/ phase'[callbacks'[v]] = "fetching"
                         \/ \E s \in Thread : removing'[s] = v
    BY DEF CallbackInv
  <2>1. v # u /\ callbacks'[v] = callbacks[v]
    BY <1>1, <1>2
  <2>2. \A s \in Thread : removing[s] = v => removing'[s] = v
    BY <1>1, <1>2, <2>1 DEF u
  <2>3. QED
    BY <1>2, <2>1, <2>2 DEF IInv, CallbackInv
<1>5. FetchInv'
  <2> SUFFICES ASSUME NEW p \in Preparation, phase[p] = "fetching", UserOf(p) \notin spoiled
               PROVE  /\ callbacks'[UserOf(p)] = p
                      /\ \A s \in Thread : removing'[s] # UserOf(p)
                      /\ listIq[p] = "out" \/ In(ListFailed(p), workQueue)
    BY <1>2 DEF FetchInv, In
  <2>1. /\ callbacks[UserOf(p)] = p
        /\ \A s \in Thread : removing[s] # UserOf(p)
        /\ listIq[p] = "out" \/ In(ListFailed(p), workQueue)
    BY DEF IInv, FetchInv
  <2>2. UserOf(p) # u /\ UserOf(p) \in User
    BY <2>1, PreparationType DEF u
  <2>3. QED
    BY <1>1, <1>2, <2>1, <2>2, NoOneIsNone
<1>6. BundleInv'
  BY <1>2, BlocksKept DEF IInv
<1>7. GoneInv'
  <2>1. \A p \in Preparation, d \in Device : Opens(p, d)' => Opens(p, d)
    BY <1>2 DEF Opens, In
  <2>2. QED
    BY <1>2, <2>1, GoneKept DEF IInv
<1>8. OnlyCrossingCrashes'
  BY <1>2 DEF OnlyCrossingCrashes
<1>9. QED
  BY <1>3, <1>4, <1>5, <1>6, <1>7, <1>8 DEF IInv

\* A preparation asks for the bundles it needs, and is done if it needs none.
LEMMA AskedInv ==
  ASSUME IInv, Parts', NEW p \in Preparation, NEW needed \in SUBSET Device,
         workQueue # <<>>, workQueue' = Tail(workQueue),
         Head(workQueue) \in {Prepare(p), Listed(p)},
         bundleBlocks' = bundleBlocks \cup ({p} \X needed),
         bundleIqs' = bundleIqs \cup ({p} \X needed),
         phase' = [phase EXCEPT ![p] = IF needed = {} THEN "done" ELSE "bundles"],
         UNCHANGED <<callbacks, removing, crashed, spoiled, listIq, lateBundles, trust, gone>>,
         \A q \in Preparation : q # p => devices'[q] = devices[q],
         \A d \in needed : Opens(p, d) \/ d \in Stored(UserOf(p))
  PROVE  IInv'
<1>0. /\ Parts /\ QueueInv /\ CallbackInv /\ FetchInv /\ BundleInv /\ GoneInv
      /\ OnlyCrossingCrashes
      /\ phase \in [Preparation -> Phase] /\ workQueue \in Seq(Block)
  BY DEF IInv, Parts, WorkType, QueueType
<1> DEFINE b == Head(workQueue)
<1>1. /\ \A x : In(x, workQueue') => In(x, workQueue)
      /\ \A x : In(x, workQueue) => x = b \/ In(x, workQueue')
      /\ In(b, workQueue) /\ Single(b)
  BY <1>0, AfterRun, BlockFields DEF Single
<1>2. Once(workQueue') /\ ~In(b, workQueue')
  BY <1>0, <1>1, InTail DEF QueueInv
<1>3. phase[p] \in {"queued", "listed"}
  BY <1>0, <1>1 DEF QueueInv
<1>4. \A q \in Preparation :
        /\ b # ListFailed(q) /\ \A d \in Device, ok \in BOOLEAN : b # Bundle(q, d, ok)
        /\ q # p => b # Prepare(q) /\ b # Listed(q)
        /\ Prepare(q) # Listed(p)
  BY BlockFields
<1> HIDE DEF b
<1>5. QueueInv'
  <2> SUFFICES ASSUME NEW q \in Preparation
               PROVE  /\ In(Prepare(q), workQueue') => phase'[q] = "queued"
                      /\ In(Listed(q), workQueue') <=> phase'[q] = "listed"
    BY <1>2 DEF QueueInv
  <2>1. CASE q = p
    <3>1. ~In(Prepare(p), workQueue') /\ ~In(Listed(p), workQueue')
      BY <1>0, <1>1, <1>2 DEF QueueInv, b
    <3>2. QED
      BY <1>0, <2>1, <3>1
  <2>2. CASE q # p
    BY <1>0, <1>1, <1>4, <2>2 DEF QueueInv
  <2>3. QED
    BY <2>1, <2>2
<1>6. CallbackInv' /\ FetchInv' /\ OnlyCrossingCrashes'
  <2>1. \A q \in Preparation : phase'[q] = "fetching" <=> phase[q] = "fetching"
    BY <1>0, <1>3
  <2>2. \A q \in Preparation : In(ListFailed(q), workQueue) => In(ListFailed(q), workQueue')
    BY <1>1, <1>4
  <2>3. QED
    BY <1>0, <2>1, <2>2, DictionaryKept
<1>7. BundleInv'
  <2> SUFFICES ASSUME NEW q \in Preparation
               PROVE  /\ phase'[q] = "bundles" => \E d \in Device : <<q, d>> \in bundleBlocks'
                      /\ \A d \in Device :
                           <<q, d>> \in bundleBlocks' =>
                             \/ <<q, d>> \in bundleIqs'
                             \/ \E ok \in BOOLEAN : In(Bundle(q, d, ok), workQueue')
    BY DEF BundleInv
  <2>1. phase'[q] = "bundles" => \E d \in Device : <<q, d>> \in bundleBlocks'
    BY <1>0 DEF BundleInv
  <2>2. ASSUME NEW d \in Device, <<q, d>> \in bundleBlocks'
        PROVE  <<q, d>> \in bundleIqs' \/ \E ok \in BOOLEAN : In(Bundle(q, d, ok), workQueue')
    <3>1. CASE <<q, d>> \in bundleBlocks
      BY <1>0, <1>1, <1>4, <3>1 DEF BundleInv
    <3>2. CASE <<q, d>> \in {p} \X needed
      BY <3>2
    <3>3. QED
      BY <2>2, <3>1, <3>2
  <2>3. QED
    BY <2>1, <2>2
<1>8. ASSUME NEW q \in Preparation, NEW d \in Device, Opens(q, d)'
      PROVE  Opens(q, d) \/ d \in Stored(UserOf(q))
  <2>1. CASE phase'[q] = "queued" /\ d \in {k[1] : k \in devices'[q]}
    <3>1. q # p
      BY <1>0, <2>1
    <3>2. QED
      BY <1>0, <2>1, <3>1 DEF Opens
  <2>2. CASE <<q, d>> \in {p} \X needed
    BY <2>2
  <2>3. CASE <<q, d>> \in bundleIqs \cup lateBundles \/ In(Bundle(q, d, TRUE), workQueue')
    BY <1>1, <2>3 DEF Opens
  <2>4. QED
    BY <1>8, <2>1, <2>2, <2>3 DEF Opens
<1>9. GoneInv'
  BY <1>0, <1>8, GoneKept
<1>10. QED
  BY <1>5, <1>6, <1>7, <1>9 DEF IInv

\* What the closure bundleFetch asks for.
LEMMA FetchBundlesAsks ==
  ASSUME NEW p, NEW found \in SUBSET (Device \X BOOLEAN), FetchBundles(p, found)
  PROVE  \E needed \in SUBSET Device :
           /\ needed \subseteq {k[1] : k \in found}
           /\ bundleBlocks' = bundleBlocks \cup ({p} \X needed)
           /\ bundleIqs' = bundleIqs \cup ({p} \X needed)
           /\ phase' = [phase EXCEPT ![p] = IF needed = {} THEN "done" ELSE "bundles"]
<1> DEFINE needed == {k[1] : k \in {k \in found : k[1] # Self
                                   /\ (<<UserOf(p), k[1]>> \notin sessions \/ ~k[2])}}
<1>1. needed \in SUBSET Device /\ needed \subseteq {k[1] : k \in found}
  OBVIOUS
<1>2. /\ bundleBlocks' = bundleBlocks \cup ({p} \X needed)
      /\ bundleIqs' = bundleIqs \cup ({p} \X needed)
      /\ phase' = [phase EXCEPT ![p] = IF needed = {} THEN "done" ELSE "bundles"]
  BY DEF FetchBundles
<1> HIDE DEF needed
<1>3. QED
  BY <1>1, <1>2

\* RunPrepare asks for the list, or for the bundles of the devices it has.
LEMMA RunPrepareInv ==
  ASSUME IInv, Parts', RunPrepare
  PROVE  IInv'
<1> DEFINE b == Head(workQueue)
           p == b.p
           u == UserOf(p)
<1>0. /\ Parts /\ QueueInv /\ CallbackInv /\ FetchInv /\ BundleInv /\ GoneInv
      /\ OnlyCrossingCrashes
      /\ phase \in [Preparation -> Phase] /\ listIq \in [Preparation -> {"none", "out", "late"}]
      /\ devices \in [Preparation -> SUBSET (Device \X BOOLEAN)]
      /\ callbacks \in [User -> Preparation \cup {NoOne}]
  BY DEF IInv, Parts, WorkType, ModuleType, DictionaryType
<1>1. /\ p \in Preparation /\ b = Prepare(p) /\ u \in User
      /\ workQueue # <<>> /\ workQueue' = Tail(workQueue) /\ removing["work"] = NoOne
  BY <1>0, RunningHead, BlockForms, PreparationType DEF RunPrepare
<1>2. /\ \A x : In(x, workQueue') => In(x, workQueue)
      /\ \A x : In(x, workQueue) => x = b \/ In(x, workQueue')
      /\ In(b, workQueue)
  BY <1>0, <1>1, AfterRun
<1>3. Once(workQueue') /\ ~In(b, workQueue')
  BY <1>0, <1>1, InTail, BlockFields DEF QueueInv, Parts, QueueType, Single
<1>4. phase[p] = "queued"
  BY <1>0, <1>1, <1>2 DEF QueueInv
<1>5. /\ UNCHANGED <<status, devices, removing, crashed, appended, lateBundles, rows, sessions,
                     sealedFor, gone, left>>
      /\ \/ /\ FetchList(p)
            /\ UNCHANGED <<bundleBlocks, bundleIqs>>
         \/ /\ FetchBundles(p, devices[p])
            /\ UNCHANGED <<callbacks, spoiled, listIq>>
  BY DEF RunPrepare
<1> HIDE DEF p, b, u
<1>6. CASE FetchList(p) /\ UNCHANGED <<bundleBlocks, bundleIqs>>
  <2>1. /\ callbacks' = [callbacks EXCEPT ![u] = p]
        /\ spoiled' = IF callbacks[u] # NoOne \/ removing["module"] = u
                      THEN spoiled \cup {u} ELSE spoiled
        /\ listIq' = [listIq EXCEPT ![p] = "out"]
        /\ phase' = [phase EXCEPT ![p] = "fetching"]
    BY <1>6 DEF FetchList, u
  <2>2. \A q \in Preparation :
          /\ b # ListFailed(q) /\ b # Listed(q)
          /\ q # p => b # Prepare(q)
          /\ \A d \in Device, ok \in BOOLEAN : b # Bundle(q, d, ok)
    BY <1>1, BlockFields
  <2>3. QueueInv'
    BY <1>0, <1>1, <1>2, <1>3, <1>4, <2>1, <2>2 DEF QueueInv
  <2>4. CallbackInv'
    <3> SUFFICES ASSUME ~crashed, NEW v \in User, callbacks'[v] # NoOne
                 PROVE  /\ UserOf(callbacks'[v]) = v
                        /\ \/ phase'[callbacks'[v]] = "fetching"
                           \/ \E t \in Thread : removing'[t] = v
      BY <1>5 DEF CallbackInv
    <3>1. CASE v = u
      BY <1>0, <1>1, <2>1, <3>1 DEF u
    <3>2. CASE v # u
      <4>1. callbacks'[v] = callbacks[v] /\ callbacks[v] \in Preparation
        BY <1>0, <2>1, <3>2
      <4>2. /\ UserOf(callbacks[v]) = v
            /\ phase[callbacks[v]] = "fetching" \/ \E t \in Thread : removing[t] = v
        BY <1>0, <4>1 DEF CallbackInv
      <4>3. callbacks[v] # p
        BY <3>2, <4>2 DEF u
      <4>4. QED
        BY <1>0, <1>5, <2>1, <4>1, <4>2, <4>3
    <3>3. QED
      BY <3>1, <3>2
  <2>5. FetchInv'
    <3> SUFFICES ASSUME NEW q \in Preparation, phase'[q] = "fetching",
                        UserOf(q) \notin spoiled'
                 PROVE  /\ callbacks'[UserOf(q)] = q
                        /\ \A t \in Thread : removing'[t] # UserOf(q)
                        /\ listIq'[q] = "out" \/ In(ListFailed(q), workQueue')
      BY DEF FetchInv
    <3>1. CASE q = p
      <4>1. callbacks[u] = NoOne /\ removing["module"] # u /\ u = UserOf(q)
        BY <2>1, <3>1 DEF u
      <4>2. \A t \in Thread : removing[t] # u
        BY <1>1, <4>1, NoOneIsNone DEF Thread
      <4>3. QED
        BY <1>0, <1>1, <1>5, <2>1, <3>1, <4>1, <4>2
    <3>2. CASE q # p
      <4>1. phase[q] = "fetching" /\ UserOf(q) \notin spoiled
        BY <1>0, <2>1, <3>2
      <4>2. /\ callbacks[UserOf(q)] = q
            /\ \A t \in Thread : removing[t] # UserOf(q)
            /\ listIq[q] = "out" \/ In(ListFailed(q), workQueue)
        BY <1>0, <4>1 DEF FetchInv
      <4>3. UserOf(q) # u
        BY <2>1, <4>2, NoPreparation
      <4>4. QED
        BY <1>0, <1>2, <1>5, <2>1, <2>2, <3>2, <4>2, <4>3, PreparationType
    <3>3. QED
      BY <3>1, <3>2
  <2>6. BundleInv'
    BY <1>0, <1>2, <1>6, <2>1, <2>2, BlocksKept
  <2>7. GoneInv'
    <3>1. \A q \in Preparation, d \in Device : Opens(q, d)' => Opens(q, d)
      BY <1>0, <1>1, <1>2, <1>5, <1>6, <2>1 DEF Opens
    <3>2. QED
      BY <1>0, <1>5, <3>1, GoneKept DEF rows
  <2>8. OnlyCrossingCrashes'
    BY <1>0, <1>5 DEF OnlyCrossingCrashes
  <2>9. QED
    BY <2>3, <2>4, <2>5, <2>6, <2>7, <2>8 DEF IInv
<1>7. CASE FetchBundles(p, devices[p]) /\ UNCHANGED <<callbacks, spoiled, listIq>>
  <2>1. PICK needed \in SUBSET Device :
          /\ needed \subseteq {k[1] : k \in devices[p]}
          /\ bundleBlocks' = bundleBlocks \cup ({p} \X needed)
          /\ bundleIqs' = bundleIqs \cup ({p} \X needed)
          /\ phase' = [phase EXCEPT ![p] = IF needed = {} THEN "done" ELSE "bundles"]
    BY <1>0, <1>1, <1>7, FetchBundlesAsks
  <2>2. \A d \in needed : Opens(p, d)
    BY <1>4, <2>1 DEF Opens
  <2>3. QED
    BY <1>1, <1>5, <1>7, <2>1, <2>2, AskedInv DEF rows, b
<1>8. QED
  BY <1>5, <1>6, <1>7

\* RunListed asks for the bundles of the devices that are stored by now.
LEMMA RunListedInv ==
  ASSUME IInv, Parts', RunListed
  PROVE  IInv'
<1> DEFINE p == Head(workQueue).p
           found == {<<d, <<UserOf(p), d>> \in keyed>> : d \in Stored(UserOf(p))}
<1>0. /\ Parts /\ phase \in [Preparation -> Phase]
      /\ devices \in [Preparation -> SUBSET (Device \X BOOLEAN)]
      /\ bundleBlocks \subseteq Preparation \X Device /\ bundleIqs \subseteq Preparation \X Device
  BY DEF IInv, Parts, WorkType, ModuleType
<1>1. /\ p \in Preparation /\ Head(workQueue) = Listed(p)
      /\ workQueue # <<>> /\ workQueue' = Tail(workQueue)
  BY <1>0, RunningHead, BlockForms DEF RunListed
<1>2. /\ devices' = [devices EXCEPT ![p] = found]
      /\ IF found = {} THEN RunEmpty(p) ELSE FetchBundles(p, found)
      /\ UNCHANGED <<status, dictionary, appended, listIq, lateBundles, rows, sessions, history,
                     left>>
  BY DEF RunListed
<1>3. found \in SUBSET (Device \X BOOLEAN)
  BY FoundType
<1>4. \A d \in {k[1] : k \in found} : d \in Stored(UserOf(p))
  BY FoundDevices
<1> HIDE DEF p, found
<1>5. \E needed \in SUBSET Device :
        /\ needed \subseteq {k[1] : k \in found}
        /\ bundleBlocks' = bundleBlocks \cup ({p} \X needed)
        /\ bundleIqs' = bundleIqs \cup ({p} \X needed)
        /\ phase' = [phase EXCEPT ![p] = IF needed = {} THEN "done" ELSE "bundles"]
  <2>1. CASE found = {}
    <3>1. /\ phase' = [phase EXCEPT ![p] = "done"]
          /\ bundleBlocks' = bundleBlocks \cup ({p} \X {})
          /\ bundleIqs' = bundleIqs \cup ({p} \X {})
      BY <1>2, <2>1 DEF RunEmpty
    <3>2. QED
      BY <3>1
  <2>2. CASE found # {}
    BY <1>2, <1>3, <2>2, FetchBundlesAsks
  <2>3. QED
    BY <2>1, <2>2
<1>6. QED
  BY <1>0, <1>1, <1>2, <1>4, <1>5, AskedInv DEF dictionary, history, rows

\* RunListFailed calls the callback of the user whose fetch failed.
LEMMA RunListFailedInv ==
  ASSUME IInv, Parts', ~crashed, RunListFailed
  PROVE  IInv'
<1> DEFINE p == Head(workQueue).p
           u == UserOf(p)
<1>0. Parts /\ QueueInv /\ GoneInv
  BY DEF IInv
<1>1. /\ p \in Preparation /\ Head(workQueue) = ListFailed(p) /\ u \in User
      /\ workQueue # <<>> /\ workQueue \in Seq(Block) /\ removing["work"] = NoOne
  BY <1>0, RunningHead, BlockForms, PreparationType DEF RunListFailed
<1>2. /\ CallBack("work", u, Tail(workQueue))
      /\ UNCHANGED <<status, devices, bundleBlocks, callbacks, module, rows, sessions, history,
                     left>>
  BY DEF RunListFailed
<1>3. Rest(Tail(workQueue), u)
  <2>1. /\ Tail(workQueue) \in Seq(Block) /\ Once(Tail(workQueue))
        /\ \A x : In(x, Tail(workQueue)) => In(x, workQueue)
        /\ \A x : In(x, workQueue) => x = Head(workQueue) \/ In(x, Tail(workQueue))
    BY <1>0, <1>1, InTail DEF QueueInv
  <2>2. QED
    BY <1>1, <2>1 DEF Rest
<1> HIDE DEF p, u
<1>4. /\ QueueInv' /\ CallbackInv' /\ FetchInv' /\ BundleInv' /\ OnlyCrossingCrashes'
      /\ \A q \in Preparation, d \in Device : Opens(q, d)' => Opens(q, d)
  BY <1>1, <1>2, <1>3, CallBackKeeps DEF Thread, module, history
<1>5. GoneInv'
  BY <1>0, <1>2, <1>4, GoneKept DEF rows, history
<1>6. QED
  BY <1>4, <1>5 DEF IInv

\* RunBundle calls the block of the device and removes it.
LEMMA RunBundleInv ==
  ASSUME IInv, Parts', RunBundle
  PROVE  IInv'
<1> DEFINE b == Head(workQueue)
           u == UserOf(b.p)
           blocks == bundleBlocks \ {<<b.p, b.d>>}
<1>0. /\ Parts /\ QueueInv /\ CallbackInv /\ FetchInv /\ BundleInv /\ GoneInv
      /\ OnlyCrossingCrashes
      /\ phase \in [Preparation -> Phase]
  BY DEF IInv, Parts, WorkType
<1>1. /\ b.p \in Preparation /\ b.d \in Device /\ b = Bundle(b.p, b.d, b.ok) /\ ~Single(b)
      /\ b.ok \in BOOLEAN /\ u \in User
      /\ workQueue # <<>> /\ workQueue' = Tail(workQueue)
  BY <1>0, RunningHead, BlockForms, PreparationType DEF RunBundle, Single
<1>2. /\ \A x : In(x, workQueue') => In(x, workQueue)
      /\ \A x : In(x, workQueue) => x = b \/ In(x, workQueue')
      /\ In(b, workQueue)
  BY <1>0, <1>1, AfterRun
<1>3. /\ IF b.ok THEN SaveIdentity(u, b.d) /\ sessions' = sessions \cup {<<u, b.d>>}
                 ELSE UNCHANGED <<rows, sessions>>
      /\ bundleBlocks' = blocks
      /\ phase' = IF phase[b.p] = "bundles" /\ \A d \in Device : <<b.p, d>> \notin blocks
                  THEN [phase EXCEPT ![b.p] = "done"] ELSE phase
      /\ UNCHANGED <<status, devices, dictionary, module, history, left>>
  BY DEF RunBundle
<1>4. \A q \in Preparation :
        /\ b # ListFailed(q)
        /\ \A d \in Device, ok \in BOOLEAN : b = Bundle(q, d, ok) => q = b.p /\ d = b.d
  BY <1>1, BlockFields
<1>5. /\ u = UserOf(b.p) /\ blocks = bundleBlocks \ {<<b.p, b.d>>}
      /\ b = Head(workQueue)
  OBVIOUS
<1> HIDE DEF b, u, blocks
<1>6. \A q \in Preparation :
        /\ phase'[q] = phase[q] \/ (phase[q] = "bundles" /\ phase'[q] = "done")
        /\ phase'[q] = "fetching" <=> phase[q] = "fetching"
  BY <1>0, <1>1, <1>3
<1>7. QueueInv'
  BY <1>0, <1>1, <1>5, <1>6, QueueShortened
<1>8. CallbackInv' /\ FetchInv' /\ OnlyCrossingCrashes'
  BY <1>0, <1>2, <1>3, <1>4, <1>6, DictionaryKept DEF dictionary, module, history
<1>9. BundleInv'
  <2> SUFFICES ASSUME NEW q \in Preparation
               PROVE  /\ phase'[q] = "bundles" => \E d \in Device : <<q, d>> \in bundleBlocks'
                      /\ \A d \in Device :
                           <<q, d>> \in bundleBlocks' =>
                             \/ <<q, d>> \in bundleIqs'
                             \/ \E ok \in BOOLEAN : In(Bundle(q, d, ok), workQueue')
    BY DEF BundleInv
  <2>1. ASSUME phase'[q] = "bundles" PROVE \E d \in Device : <<q, d>> \in bundleBlocks'
    <3>1. phase[q] = "bundles"
      BY <1>6, <2>1
    <3>2. CASE q = b.p
      BY <1>0, <1>1, <1>3, <2>1, <3>1, <3>2
    <3>3. CASE q # b.p
      BY <1>0, <1>3, <1>5, <3>1, <3>3 DEF BundleInv
    <3>4. QED
      BY <3>2, <3>3
  <2>2. ASSUME NEW d \in Device, <<q, d>> \in bundleBlocks'
        PROVE  <<q, d>> \in bundleIqs' \/ \E ok \in BOOLEAN : In(Bundle(q, d, ok), workQueue')
    <3>1. <<q, d>> \in bundleBlocks /\ <<q, d>> # <<b.p, b.d>>
      BY <1>3, <1>5, <2>2
    <3>2. <<q, d>> \in bundleIqs \/ \E ok \in BOOLEAN : In(Bundle(q, d, ok), workQueue)
      BY <1>0, <3>1 DEF BundleInv
    <3>3. QED
      BY <1>2, <1>3, <1>4, <3>1, <3>2 DEF module
  <2>3. QED
    BY <2>1, <2>2
<1>10. ASSUME NEW v \in User, NEW d \in Device, <<v, d>> \in gone', trust[v][d] = "none"
       PROVE  trust'[v][d] = "none"
  <2>1. CASE b.ok
    <3>1. <<v, d>> # <<u, b.d>>
      <4> SUFFICES ASSUME v = u, d = b.d PROVE FALSE
        OBVIOUS
      <4>1. In(Bundle(b.p, b.d, TRUE), workQueue)
        BY <1>1, <1>2, <2>1
      <4>2. Opens(b.p, b.d)
        BY <4>1 DEF Opens
      <4>3. QED
        BY <1>0, <1>1, <1>3, <1>5, <1>10, <4>2 DEF GoneInv, history
    <3>2. QED
      BY <1>0, <1>1, <1>3, <1>10, <2>1, <3>1, SaveIdentityType
  <2>2. CASE ~b.ok
    BY <1>3, <1>10, <2>2 DEF rows
  <2>3. QED
    BY <2>1, <2>2
<1>11. \A q \in Preparation, d \in Device : Opens(q, d)' => Opens(q, d)
  BY <1>2, <1>3, <1>6 DEF Opens, module
<1>12. GoneInv'
  BY <1>0, <1>3, <1>10, <1>11, GoneKept DEF history
<1>13. QED
  BY <1>7, <1>8, <1>9, <1>12 DEF IInv

\* RunSeal encrypts; RunRemove takes a device away.
LEMMA RunSealInv ==
  ASSUME IInv, Parts', RunSeal
  PROVE  IInv'
<1>0. /\ Parts /\ QueueInv /\ CallbackInv /\ FetchInv /\ BundleInv /\ GoneInv
      /\ OnlyCrossingCrashes
  BY DEF IInv
<1> DEFINE b == Head(workQueue)
<1>1. /\ b.m \in Message /\ b = Seal(b.m) /\ ~Single(b)
      /\ workQueue # <<>> /\ workQueue' = Tail(workQueue)
  BY <1>0, RunningHead, BlockForms DEF RunSeal, Single
<1>2. /\ \A x : In(x, workQueue') => In(x, workQueue)
      /\ \A x : In(x, workQueue) => x = b \/ In(x, workQueue')
  BY <1>0, <1>1, AfterRun
<1>3. UNCHANGED <<phase, devices, bundleBlocks, dictionary, module, rows, sessions, spoiled,
                  gone, left>>
  BY DEF RunSeal
<1>4. \A q \in Preparation :
        b # ListFailed(q) /\ \A d \in Device, ok \in BOOLEAN : b # Bundle(q, d, ok)
  BY <1>1, BlockFields
<1>5. QueueInv'
  BY <1>0, <1>1, <1>3, QueueShortened
<1> HIDE DEF b
<1>6. CallbackInv' /\ FetchInv' /\ OnlyCrossingCrashes'
  BY <1>0, <1>2, <1>3, <1>4, DictionaryKept DEF dictionary, module
<1>7. BundleInv'
  BY <1>0, <1>2, <1>3, <1>4, BlocksKept DEF module
<1>8. \A q \in Preparation, d \in Device : Opens(q, d)' => Opens(q, d)
  BY <1>2, <1>3 DEF Opens, module
<1>9. GoneInv'
  BY <1>0, <1>3, <1>8, GoneKept DEF rows
<1>10. QED
  BY <1>5, <1>6, <1>7, <1>9 DEF IInv

\* The removal of a device keeps the invariant.
LEMMA RunRemoveInv ==
  ASSUME IInv, Parts', RunRemove
  PROVE  IInv'
<1>0. /\ Parts /\ QueueInv /\ CallbackInv /\ FetchInv /\ BundleInv /\ GoneInv
      /\ OnlyCrossingCrashes
      /\ trust \in [User -> [Device -> Trust]]
  BY DEF IInv, Parts, RowsType
<1> DEFINE b == Head(workQueue)
<1>1. /\ b.u \in User /\ b.d \in Device /\ b = Remove(b.u, b.d) /\ ~Single(b)
      /\ workQueue # <<>> /\ workQueue' = Tail(workQueue)
  BY <1>0, RunningHead, BlockForms DEF RunRemove, Single
<1>2. /\ \A x : In(x, workQueue') => In(x, workQueue)
      /\ \A x : In(x, workQueue) => x = b \/ In(x, workQueue')
  BY <1>0, <1>1, AfterRun
<1>3. /\ trust' = [trust EXCEPT ![b.u][b.d] = "none"]
      /\ gone' = IF Awaited(b.u, b.d) THEN gone ELSE gone \cup {<<b.u, b.d>>}
      /\ UNCHANGED <<work, dictionary, module, spoiled>>
  BY DEF RunRemove, RemoveDevice
<1>4. \A q \in Preparation :
        b # ListFailed(q) /\ \A d \in Device, ok \in BOOLEAN : b # Bundle(q, d, ok)
  BY <1>1, BlockFields
<1>5. QueueInv'
  BY <1>0, <1>1, <1>3, QueueShortened DEF work
<1> HIDE DEF b
<1>6. CallbackInv' /\ FetchInv' /\ OnlyCrossingCrashes'
  BY <1>0, <1>2, <1>3, <1>4, DictionaryKept DEF work, dictionary, module
<1>7. BundleInv'
  BY <1>0, <1>2, <1>3, <1>4, BlocksKept DEF work, module
<1>8. \A q \in Preparation, d \in Device : Opens(q, d)' => Opens(q, d)
  BY <1>2, <1>3 DEF Opens, work, module
<1>9. \A u \in User, d \in Device :
        ~Awaited(u, d) => \A p \in Preparation : UserOf(p) = u => ~Opens(p, d)
  BY DEF Awaited, Opens, In
<1>10. GoneInv'
  <2> SUFFICES ASSUME NEW u \in User, NEW d \in Device, <<u, d>> \in gone'
               PROVE  /\ trust'[u][d] = "none"
                      /\ \A p \in Preparation : UserOf(p) = u => ~Opens(p, d)'
    BY DEF GoneInv
  <2>1. CASE <<u, d>> \in gone
    BY <1>0, <1>1, <1>3, <1>8, <2>1 DEF GoneInv
  <2>2. CASE <<u, d>> \notin gone
    <3>1. u = b.u /\ d = b.d /\ ~Awaited(u, d)
      BY <1>3, <2>2
    <3>2. QED
      BY <1>0, <1>1, <1>3, <1>8, <1>9, <3>1
  <2>3. QED
    BY <2>1, <2>2
<1>11. QED
  BY <1>5, <1>6, <1>7, <1>10 DEF IInv

\* What runs on the workQueue keeps the invariant.
LEMMA WorkQueueInv ==
  ASSUME IInv, Parts', ~crashed, WorkQueueRuns
  PROVE  IInv'
BY RunPrepareInv, RunListedInv, RunListFailedInv, RunBundleInv, RunSealInv, RunRemoveInv,
   RemovalInv
DEF WorkQueueRuns, Thread

\* A device without a row that the list does not name stays without.
LEMMA StoreDevicesSpares ==
  ASSUME Parts, NEW u \in User, NEW list \in SUBSET Device, StoreDevices(u, list),
         NEW v \in User, NEW d \in Device, trust[v][d] = "none", v # u \/ d \notin list
  PROVE  trust'[v][d] = "none"
<1>1. trust \in [User -> [Device -> Trust]]
  BY DEF Parts, RowsType
<1> DEFINE first == IF Stored(u) = {} THEN "trusted" ELSE "untrusted"
           kept == [e \in Device |->
                      CASE e \in list \ Stored(u) -> first
                        [] e \in Stored(u) \ list -> "removed"
                        [] OTHER -> trust[u][e]]
           new == IF list = {} THEN [e \in Device |-> "none"] ELSE kept
<1>2. trust' = [trust EXCEPT ![u] = new]
  BY DEF StoreDevices
<1>3. CASE v # u
  BY <1>1, <1>2, <1>3
<1>4. CASE v = u
  <2>1. d \notin list /\ d \notin Stored(u)
    BY <1>4 DEF Stored
  <2>2. kept[d] = trust[u][d]
    BY <2>1
  <2>3. new[d] = "none"
    BY <1>4, <2>2
  <2>4. QED
    BY <1>1, <1>2, <1>4, <2>3
<1>5. QED
  BY <1>3, <1>4

\* Storing a list, and calling the callback of its user.
LEMMA StoreDeviceIdsInv ==
  ASSUME IInv, Parts', ~crashed, NEW u \in User, NEW list \in SUBSET Device,
         removing["module"] = NoOne, StoreDeviceIds(u, list),
         UNCHANGED <<bundleIqs, lateBundles>>,
         \A p \in Preparation : UserOf(p) # u => listIq'[p] = listIq[p]
  PROVE  IInv'
<1>0. Parts /\ QueueInv /\ GoneInv
  BY DEF IInv
<1>1. /\ StoreDevices(u, list) /\ CallBack("module", u, workQueue)
      /\ gone' = gone \ ({u} \X list)
      /\ UNCHANGED <<status, devices, bundleBlocks, callbacks, sessions, sealedFor, spoiled>>
  BY DEF StoreDeviceIds
<1>2. Rest(workQueue, u)
  BY <1>0 DEF Rest, QueueInv, Parts, QueueType
<1>3. /\ QueueInv' /\ CallbackInv' /\ FetchInv' /\ BundleInv' /\ OnlyCrossingCrashes'
      /\ \A q \in Preparation, d \in Device : Opens(q, d)' => Opens(q, d)
  BY <1>1, <1>2, CallBackKeeps DEF Thread
<1>4. ASSUME NEW v \in User, NEW d \in Device, <<v, d>> \in gone', trust[v][d] = "none"
      PROVE  trust'[v][d] = "none"
  BY <1>0, <1>1, <1>4, StoreDevicesSpares
<1>5. GoneInv'
  BY <1>0, <1>1, <1>3, <1>4, GoneKept
<1>6. QED
  BY <1>3, <1>5 DEF IInv

\* A fetch that fails: a failure is queued, or an empty own list stored.
LEMMA ListFailsInv ==
  ASSUME IInv, Parts', ~crashed, NEW p \in Preparation, ListFails(p), ModuleIsFree,
         \A q \in Preparation : q # p => listIq'[q] = listIq[q],
         UNCHANGED <<bundleIqs, lateBundles>>
  PROVE  IInv'
<1>0. /\ Parts /\ QueueInv /\ CallbackInv /\ FetchInv /\ BundleInv /\ GoneInv
      /\ OnlyCrossingCrashes
  BY DEF IInv
<1>1. CASE UserOf(p) = Own /\ ProcessIncoming(Own, {})
  BY <1>1, StoreDeviceIdsInv DEF ProcessIncoming, ModuleIsFree, User
<1>2. CASE /\ Queue(ListFailed(p))
           /\ UNCHANGED <<work, dictionary, appended, rows, sessions, history>>
  <2>1. ListFailed(p) \in Block /\ ~Single(ListFailed(p))
    BY BlockFields DEF Single
  <2>2. \A x : In(x, workQueue') <=> In(x, workQueue) \/ x = ListFailed(p)
    BY <1>0, <1>2, <2>1, AfterQueue
  <2>3. \A q \in Preparation, d \in Device, ok \in BOOLEAN : Bundle(q, d, ok) # ListFailed(p)
    BY BlockFields
  <2>4. QueueInv'
    BY <1>0, <1>2, <2>1, QueueKept DEF work
  <2>5. CallbackInv' /\ FetchInv' /\ OnlyCrossingCrashes'
    BY <1>0, <1>2, <2>2, DictionaryKept DEF work, dictionary, history
  <2>6. BundleInv'
    BY <1>0, <1>2, <2>2, BlocksKept DEF work
  <2>7. \A q \in Preparation, d \in Device : Opens(q, d)' => Opens(q, d)
    BY <1>2, <2>2, <2>3 DEF Opens, work
  <2>8. GoneInv'
    BY <1>0, <1>2, <2>7, GoneKept DEF rows, history
  <2>9. QED
    BY <2>4, <2>5, <2>6, <2>8 DEF IInv
<1>3. QED
  BY <1>1, <1>2 DEF ListFails

\* An answer for a bundle, or its timeout, is queued.
LEMMA BundleQueuedInv ==
  ASSUME IInv, Parts', NEW p \in Preparation, NEW d \in Device, NEW ok \in BOOLEAN,
         <<p, d>> \in bundleIqs \cup lateBundles, Queue(Bundle(p, d, ok)),
         bundleIqs' = bundleIqs \ {<<p, d>>},
         lateBundles' \subseteq lateBundles \cup {<<p, d>>},
         UNCHANGED <<work, dictionary, listIq, rows, history>>
  PROVE  IInv'
<1>0. /\ Parts /\ QueueInv /\ CallbackInv /\ FetchInv /\ BundleInv /\ GoneInv
      /\ OnlyCrossingCrashes
  BY DEF IInv
<1>1. Bundle(p, d, ok) \in Block /\ ~Single(Bundle(p, d, ok))
  BY BlockFields DEF Single
<1>2. \A x : In(x, workQueue') <=> In(x, workQueue) \/ x = Bundle(p, d, ok)
  BY <1>0, <1>1, AfterQueue
<1>3. ASSUME NEW q \in Preparation, NEW e \in Device, Bundle(q, e, TRUE) = Bundle(p, d, ok)
      PROVE  <<q, e>> = <<p, d>>
  <2>1. Bundle(q, e, TRUE).p = q /\ Bundle(q, e, TRUE).d = e
    BY DEF Bundle
  <2>2. Bundle(p, d, ok).p = p /\ Bundle(p, d, ok).d = d
    BY DEF Bundle
  <2>3. QED
    BY <1>3, <2>1, <2>2
<1>4. QueueInv'
  BY <1>0, <1>1, QueueKept DEF work
<1>5. CallbackInv' /\ FetchInv' /\ OnlyCrossingCrashes'
  BY <1>0, <1>2, DictionaryKept DEF work, dictionary, history
<1>6. BundleInv'
  <2>1. ASSUME NEW q \in Preparation, NEW e \in Device, <<q, e>> \in bundleIqs
        PROVE  \/ <<q, e>> \in bundleIqs'
               \/ \E yes \in BOOLEAN : In(Bundle(q, e, yes), workQueue')
    <3>1. CASE q = p /\ e = d
      BY <1>2, <3>1
    <3>2. CASE ~(q = p /\ e = d)
      BY <2>1, <3>2
    <3>3. QED
      BY <3>1, <3>2
  <2>2. QED
    BY <1>0, <1>2, <2>1, BlocksKept DEF work
<1>7. ASSUME NEW q \in Preparation, NEW e \in Device, Opens(q, e)' PROVE Opens(q, e)
  <2>1. CASE <<q, e>> = <<p, d>>
    BY <2>1 DEF Opens
  <2>2. CASE <<q, e>> # <<p, d>>
    BY <1>2, <1>3, <1>7, <2>2 DEF Opens, work
  <2>3. QED
    BY <2>1, <2>2
<1>8. GoneInv'
  BY <1>0, <1>7, GoneKept DEF rows, history
<1>9. QED
  BY <1>4, <1>5, <1>6, <1>8 DEF IInv

\* The module's queue.
LEMMA ModuleQueueInv ==
  ASSUME IInv, Parts', ~crashed, ModuleQueueRuns
  PROVE  IInv'
<1> USE PreparationType
<1>0. /\ appended \subseteq SUBSET Device /\ listIq \in [Preparation -> {"none", "out", "late"}]
  BY DEF IInv, Parts, ModuleType
<1>1. ASSUME Removal("module") PROVE IInv'
  BY <1>1, RemovalInv DEF Thread
<1>2. ASSUME StoreAppended PROVE IInv'
  <2>1. PICK list \in appended : StoreDeviceIds(Own, list)
    BY <1>2 DEF StoreAppended
  <2>2. QED
    BY <1>0, <1>2, <2>1, StoreDeviceIdsInv DEF StoreAppended, User
<1>3. ASSUME NEW p \in Preparation, NEW list \in Lists[UserOf(p)], ListAnswered(p, list)
      PROVE  IInv'
  <2>1. list \in SUBSET Device
    BY <1>3, ListsType
  <2>2. \A q \in Preparation : UserOf(q) # UserOf(p) => listIq'[q] = listIq[q]
    BY <1>0, <1>3 DEF ListAnswered
  <2>3. QED
    BY <1>3, <2>1, <2>2, StoreDeviceIdsInv DEF ListAnswered, ProcessIncoming, ModuleIsFree
<1>4. ASSUME NEW p \in Preparation, ListRefused(p) \/ ListTimesOut(p) PROVE IInv'
  BY <1>0, <1>4, ListFailsInv DEF ListRefused, ListTimesOut
<1>5. ASSUME NEW p \in Preparation, NEW d \in Device, NEW ok \in BOOLEAN,
             BundleAnswered(p, d, ok)
      PROVE  IInv'
  BY <1>5, BundleQueuedInv DEF BundleAnswered
<1>6. ASSUME NEW p \in Preparation, NEW d \in Device, BundleTimesOut(p, d) PROVE IInv'
  BY <1>6, BundleQueuedInv DEF BundleTimesOut
<1>7. ASSUME NEW u \in User, NEW list \in Lists[u], ListPushed(u, list) PROVE IInv'
  <2>1. list \in SUBSET Device
    BY <1>7, ListsType
  <2>2. QED
    BY <1>7, <2>1, StoreDeviceIdsInv DEF ListPushed, ProcessIncoming, ModuleIsFree
<1>8. QED
  BY <1>1, <1>2, <1>3, <1>4, <1>5, <1>6, <1>7 DEF ModuleQueueRuns

\* The user and incoming messages.
LEMMA OutsideInv ==
  ASSUME IInv, Parts', NEW u \in User, NEW d \in Device,
         \/ \E level \in {"trusted", "untrusted"} : SetTrust(u, d, level)
         \/ AskToRemove(u, d) \/ ReceiveKeyData(u, d)
  PROVE  IInv'
<1>0. /\ Parts /\ QueueInv /\ CallbackInv /\ FetchInv /\ BundleInv /\ GoneInv
      /\ OnlyCrossingCrashes
      /\ trust \in [User -> [Device -> Trust]]
  BY DEF IInv, Parts, RowsType
<1>1. ASSUME AskToRemove(u, d) PROVE IInv'
  <2>1. Remove(u, d) \in Block /\ ~Single(Remove(u, d))
    BY BlockFields DEF Single
  <2>2. /\ Queue(Remove(u, d))
        /\ UNCHANGED <<work, dictionary, module, rows, sessions, history>>
    BY <1>1 DEF AskToRemove
  <2>3. \A x : In(x, workQueue') <=> In(x, workQueue) \/ x = Remove(u, d)
    BY <1>0, <2>1, <2>2, AfterQueue
  <2>4. \A q \in Preparation, e \in Device : Bundle(q, e, TRUE) # Remove(u, d)
    BY DEF Bundle, Remove
  <2>5. QueueInv'
    BY <1>0, <2>1, <2>2, QueueKept DEF work
  <2>6. CallbackInv' /\ FetchInv' /\ OnlyCrossingCrashes'
    BY <1>0, <2>2, <2>3, DictionaryKept DEF work, dictionary, module, history
  <2>7. BundleInv'
    BY <1>0, <2>2, <2>3, BlocksKept DEF work, module
  <2>8. \A q \in Preparation, e \in Device : Opens(q, e)' => Opens(q, e)
    BY <2>2, <2>3, <2>4 DEF Opens, work, module
  <2>9. GoneInv'
    BY <1>0, <2>2, <2>8, GoneKept DEF rows, history
  <2>10. QED
    BY <2>5, <2>6, <2>7, <2>9 DEF IInv
<1>2. ASSUME \/ \E level \in {"trusted", "untrusted"} : SetTrust(u, d, level)
             \/ ReceiveKeyData(u, d)
      PROVE  IInv'
  <2>1. UNCHANGED <<work, dictionary, workQueue, module, spoiled>>
    BY <1>2 DEF SetTrust, ReceiveKeyData, history
  <2>2. QueueInv'
    BY <1>0, <2>1 DEF QueueInv, Once, In, work
  <2>3. CallbackInv' /\ FetchInv' /\ OnlyCrossingCrashes'
    BY <1>0, <2>1, DictionaryKept DEF work, dictionary, module
  <2>4. BundleInv'
    BY <1>0, <2>1, BlocksKept DEF work, module
  <2>5. \A q \in Preparation, e \in Device : Opens(q, e)' => Opens(q, e)
    BY <2>1 DEF Opens, work, module
  <2>6. /\ gone' \subseteq gone
        /\ \A v \in User, e \in Device :
             <<v, e>> \in gone' /\ trust[v][e] = "none" => trust'[v][e] = "none"
    <3>1. ASSUME NEW level \in {"trusted", "untrusted"}, SetTrust(u, d, level)
          PROVE  /\ gone' \subseteq gone
                 /\ \A v \in User, e \in Device :
                      <<v, e>> \in gone' /\ trust[v][e] = "none" => trust'[v][e] = "none"
      <4>1. trust[u][d] # "none" /\ trust' = [trust EXCEPT ![u][d] = level] /\ gone' = gone
        BY <3>1 DEF SetTrust, Stored, history
      <4>2. QED
        BY <1>0, <4>1
    <3>2. ASSUME ReceiveKeyData(u, d)
          PROVE  /\ gone' \subseteq gone
                 /\ \A v \in User, e \in Device :
                      <<v, e>> \in gone' /\ trust[v][e] = "none" => trust'[v][e] = "none"
      <4>1. CASE SaveIdentity(u, d) /\ gone' = gone \ {<<u, d>>}
        BY <1>0, <4>1, SaveIdentityType
      <4>2. CASE UNCHANGED <<rows, gone>>
        BY <4>2 DEF rows
      <4>3. QED
        BY <3>2, <4>1, <4>2 DEF ReceiveKeyData
    <3>3. QED
      BY <1>2, <3>1, <3>2
  <2>7. GoneInv'
    BY <1>0, <2>5, <2>6, GoneKept
  <2>8. QED
    BY <2>2, <2>3, <2>4, <2>7 DEF IInv
<1>3. QED
  BY <1>1, <1>2

-----------------------------------------------------------------------------
(* The theorems.                                                           *)

\* The invariant holds in the beginning.
LEMMA InitInv == Init => IInv
<1> SUFFICES ASSUME Init PROVE IInv
  OBVIOUS
<1>1. Parts
  BY InitParts
<1>2. \A x : ~In(x, workQueue)
  BY DEF Init, In
<1>3. Once(workQueue)
  BY DEF Init, Once
<1>4. QueueInv /\ FetchInv
  BY <1>2, <1>3 DEF Init, QueueInv, FetchInv
<1>5. CallbackInv /\ OnlyCrossingCrashes
  BY DEF Init, CallbackInv, OnlyCrossingCrashes
<1>6. BundleInv /\ GoneInv
  BY DEF Init, BundleInv, GoneInv
<1>7. QED
  BY <1>1, <1>4, <1>5, <1>6 DEF IInv

\* Every step keeps the invariant.
LEMMA NextInv == IInv /\ [Next]_vars => IInv'
<1> SUFFICES ASSUME IInv, [Next]_vars PROVE IInv'
  OBVIOUS
<1>1. Parts'
  BY NextParts DEF IInv
<1>2. CASE UNCHANGED vars
  BY <1>1, <1>2, NothingMoves DEF vars, work, rows, history
<1>3. CASE Next
  BY <1>1, <1>3, CallerInv, WorkQueueInv, ModuleQueueInv, OutsideInv DEF Next
<1>4. QED
  BY <1>2, <1>3

\* Every step that encrypts leaves out what the user removed.
LEMMA NextSpares ==
  IInv /\ [Next]_vars =>
    \A m \in Message : sealedFor'[m] # sealedFor[m] => sealedFor'[m] \cap gone = {}
<1> SUFFICES ASSUME IInv, [Next]_vars, NEW m \in Message, sealedFor'[m] # sealedFor[m]
             PROVE  sealedFor'[m] \cap gone = {}
  OBVIOUS
<1>1. RunSeal
  <2>1. CASE RunSeal
    BY <2>1
  <2>2. CASE ~RunSeal
    <3>1. sealedFor' = sealedFor
      <4>1. CASE UNCHANGED vars
        BY <4>1 DEF vars, history
      <4>2. CASE Next
        <5>1. CASE \/ \E n \in Message : EncryptAndSend(n)
                   \/ Prepares
          BY <5>1 DEF EncryptAndSend, Prepares, Notify, PrepareSession, NoUsername, history
        <5>2. CASE WorkQueueRuns
          BY <2>2, <5>2
          DEF WorkQueueRuns, RunPrepare, RunListed, RunListFailed, RunBundle, RunRemove, Removal,
              history
        <5>3. CASE ModuleQueueRuns
          BY <5>3
          DEF ModuleQueueRuns, Removal, StoreAppended, ListAnswered, ListRefused, ListTimesOut,
              ListFails, BundleTimesOut, BundleAnswered, ListPushed, ProcessIncoming,
              StoreDeviceIds, history
        <5>4. CASE \E u \in User, d \in Device :
                     \/ \E level \in {"trusted", "untrusted"} : SetTrust(u, d, level)
                     \/ AskToRemove(u, d) \/ ReceiveKeyData(u, d)
          BY <5>4 DEF SetTrust, AskToRemove, ReceiveKeyData, history
        <5>5. QED
          BY <4>2, <5>1, <5>2, <5>3, <5>4 DEF Next
      <4>3. QED
        BY <4>1, <4>2
    <3>2. QED
      BY <3>1
  <2>3. QED
    BY <2>1, <2>2
<1> DEFINE n == Head(workQueue).m
           theirs == Usable({Recipients[n][i] : i \in 1..Len(Recipients[n])})
           ours == Usable({Own}) \ {<<Own, Self>>}
<1>2. sealedFor \in [Message -> SUBSET (User \X Device)]
  BY DEF IInv, Parts, HistoryType
<1>3. sealedFor' = [sealedFor EXCEPT ![n] = theirs \cup ours] \/ sealedFor' = sealedFor
  BY <1>1 DEF RunSeal
<1> HIDE DEF n, theirs, ours
<1>4. sealedFor'[m] = theirs \cup ours
  BY <1>2, <1>3
<1>5. \A k \in theirs \cup ours : trust[k[1]][k[2]] = "trusted"
  BY DEF theirs, ours, Usable
<1>6. ASSUME NEW k \in gone PROVE trust[k[1]][k[2]] = "none"
  <2>1. k[1] \in User /\ k[2] \in Device /\ k = <<k[1], k[2]>>
    BY DEF IInv, Parts, HistoryType
  <2>2. QED
    BY <2>1 DEF IInv, GoneInv
<1>7. QED
  BY <1>4, <1>5, <1>6

\* No preparation waits for what nobody will tell it, but for those whose
\* fetches of one list overlapped (deviceIdFetchCallbacks,
\* outstandingXMPPStanzaResponseBlocks).
THEOREM WhoeverWaitsIsCalled == Spec => []WaitingIsEnded
<1>1. IInv => WaitingIsEnded
  BY WaitingFromParts
<1>2. QED
  BY <1>1, InitInv, NextInv, PTL DEF Spec

\* A dispatch group is left too often only while workQueue and the module's
\* queue are both between the call of one callback and its removal.
THEOREM CrossingCrashes == Spec => []OnlyCrossingCrashes
<1>1. IInv => OnlyCrossingCrashes
  BY DEF IInv
<1>2. QED
  BY <1>1, InitInv, NextInv, PTL DEF Spec

\* No message is encrypted for a device that the user removed and that
\* nothing on the way named again.
THEOREM RemovedDevicesGetNothing == Spec => RemovedGetsNothing
<1>1. IInv /\ [Next]_vars =>
        [\A m \in Message : sealedFor'[m] # sealedFor[m] => sealedFor'[m] \cap gone = {}]_vars
  BY NextSpares
<1>2. QED
  BY <1>1, InitInv, NextInv, PTL DEF Spec, RemovedGetsNothing
=============================================================================
