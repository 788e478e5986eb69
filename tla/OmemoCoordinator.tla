-------------------------- MODULE OmemoCoordinator --------------------------
(***************************************************************************)
(* How the OMEMO coordinator gets a message ready and sends it             *)
(* (OTROMEMOSignalCoordinator.swift, OTROMEMOStorageManager.swift), with   *)
(* the requests of OMEMOModule.m and their tracker (XMPPIDTracker.m).      *)
(*                                                                         *)
(* For each buddy the message goes to, and for the own account, the        *)
(* coordinator prepares sessions: where no device is stored it fetches the *)
(* list of devices, then the bundle of each device it has no session with. *)
(* A dispatch group per preparation and one per message wait for all that. *)
(* Its blocks run on workQueue; the module has a queue of its own and      *)
(* stores the lists from there, calling the same dictionary of callbacks.  *)
(*                                                                         *)
(* Operations of a dictionary are atomic here, though Swift's are not, and *)
(* a write of the coordinator's database connection counts as done when it *)
(* is queued, as every read of that connection comes behind it.  That a    *)
(* device expires is left out: it is not trusted then, as when the user    *)
(* says so.                                                                *)
(***************************************************************************)
EXTENDS Integers, Sequences, FiniteSets

CONSTANTS
  Buddy,       \* buddies, some of them occupants of rooms
  Own,         \* the own account
  NoOne,
  Device,      \* device ids
  Self,        \* the own registrationId
  Message,     \* messages given to encryptAndSendMessage
  Recipients,  \* buddyKeys: the buddy, or the occupants of the room one by one
  Lists,       \* lists of devices the server may send
  Held,        \* devices that may be known at first, trusted and with a session
  Budget       \* bounds on late answers, on what server and users do,
               \* and on all of it

User == Buddy \cup {Own}
EnvStep == {"list", "late", "trust", "remove", "incoming", "any"}

ASSUME OwnIsNoBuddy == Own \notin Buddy
ASSUME NoOneIsNone == NoOne \notin User
ASSUME SelfType == Self \in Device
ASSUME RecipientsType == Recipients \in [Message -> Seq(Buddy)]
ASSUME ListsType == Lists \in [User -> SUBSET SUBSET Device]
ASSUME HeldType == Held \subseteq [User -> SUBSET Device]
ASSUME BudgetType == Budget \in [EnvStep -> Nat]

Addressees(m) == Append(Recipients[m], Own)
Preparation == UNION {{m} \X (1..Len(Addressees(m))) : m \in Message}
UserOf(p) == Addressees(p[1])[p[2]]

ASSUME NoPreparation == NoOne \notin Preparation

VARIABLES
  status,       \* of each message: see Status
  phase,        \* of each preparation: see Phase
  devices,      \* devices of each preparation, each with whether its key is known
  callbacks,    \* deviceIdFetchCallbacks: the preparation to be told, per user
  bundleBlocks, \* outstandingXMPPStanzaResponseBlocks, each the device of a preparation
  workQueue,
  removing,     \* who is between the call of a callback and its removal, for which user
  appended,     \* the own list with the own device, about to be stored
  listIq,       \* the request for a list each preparation made: "none", "out", "late"
  bundleIqs,    \* requests for bundles, by device of a preparation
  lateBundles,  \* those that timed out: the tracker keeps them
  trust,        \* OMEMODevice rows: trustLevel, or "none" where there is no row
  keyed,        \* rows with publicIdentityKeyData
  sessions,     \* session records of the Signal store
  sealedFor,    \* history: devices each message was encrypted for
  spoiled,      \* history: users whose callback was replaced or removed by mistake
  gone,         \* history: devices the user removed, see Remove
  crashed,      \* a dispatch group was left more often than entered
  left          \* of the Budget

work == <<status, phase, devices, bundleBlocks>>
dictionary == <<callbacks, removing, crashed>>
module == <<appended, listIq, bundleIqs, lateBundles>>
rows == <<trust, keyed>>
history == <<sealedFor, spoiled, gone>>
vars == <<work, dictionary, workQueue, module, rows, sessions, history, left>>

Status == {"new", "preparing", "ready", "sent", "failed", "dropped"}
Phase == {"new", "queued", "fetching", "listed", "bundles", "done"}
Trust == {"none", "trusted", "untrusted", "removed"}
Thread == {"work", "module"}

\* Blocks of workQueue.
Prepare(p) == [op |-> "prepare", p |-> p]
Listed(p) == [op |-> "listed", p |-> p]
ListFailed(p) == [op |-> "listFailed", p |-> p]
Bundle(p, d, ok) == [op |-> "bundle", p |-> p, d |-> d, ok |-> ok]
Seal(m) == [op |-> "seal", m |-> m]
Remove(u, d) == [op |-> "remove", u |-> u, d |-> d]
Block ==
  {Prepare(p) : p \in Preparation} \cup {Listed(p) : p \in Preparation}
  \cup {ListFailed(p) : p \in Preparation}
  \cup {Bundle(p, d, ok) : p \in Preparation, d \in Device, ok \in BOOLEAN}
  \cup {Seal(m) : m \in Message} \cup {Remove(u, d) : u \in User, d \in Device}

Stored(u) == {d \in Device : trust[u][d] # "none"}
Queue(block) == workQueue' = Append(workQueue, block)
Spend(steps) ==
  /\ \A step \in steps : left[step] > 0
  /\ left' = [step \in EnvStep |-> IF step \in steps THEN left[step] - 1 ELSE left[step]]

Init ==
  /\ status = [m \in Message |-> "new"]
  /\ phase = [p \in Preparation |-> "new"]
  /\ devices = [p \in Preparation |-> {}]
  /\ callbacks = [u \in User |-> NoOne]
  /\ bundleBlocks = {}
  /\ workQueue = <<>>
  /\ removing = [t \in Thread |-> NoOne]
  /\ appended = {}
  /\ listIq = [p \in Preparation |-> "none"]
  /\ bundleIqs = {} /\ lateBundles = {}
  /\ \E held \in Held :
       /\ trust = [u \in User |-> [d \in Device |-> IF d \in held[u] THEN "trusted" ELSE "none"]]
       /\ keyed = {k \in User \X Device : k[2] \in held[k[1]]}
  /\ sessions = keyed
  /\ sealedFor = [m \in Message |-> {}]
  /\ spoiled = {} /\ gone = {}
  /\ crashed = FALSE
  /\ left = Budget

-----------------------------------------------------------------------------
(* Rows of devices.                                                        *)

\* The first devices of a user are trusted, later ones are not until the
\* user says so.  Those that the list no longer names stay as removed, but
\* for an empty list, which removes the rows.
StoreDevices(u, list) ==
  LET first == IF Stored(u) = {} THEN "trusted" ELSE "untrusted"
      kept == [d \in Device |->
                 CASE d \in list \ Stored(u) -> first
                   [] d \in Stored(u) \ list -> "removed"
                   [] OTHER -> trust[u][d]]
  IN /\ trust' = [trust EXCEPT ![u] = IF list = {} THEN [d \in Device |-> "none"] ELSE kept]
     /\ keyed' = IF list = {} THEN {k \in keyed : k[1] # u} ELSE keyed

SaveIdentity(u, d) ==
  /\ trust' = IF d \in Stored(u) THEN trust
              ELSE [trust EXCEPT ![u][d] = IF Stored(u) = {} THEN "trusted" ELSE "untrusted"]
  /\ keyed' = keyed \cup {<<u, d>>}

-----------------------------------------------------------------------------
(* The dictionary of callbacks.  callAndRemoveOutstandingDeviceIdFetch     *)
(* runs on workQueue when a fetch failed and on the module's queue when a  *)
(* list comes in; queue is what is left of workQueue.                      *)

\* Leaving the group queues what waits for it.
CallBack(t, u, queue) ==
  LET p == callbacks[u]
      waits == p # NoOne /\ phase[p] = "fetching"
  IN /\ removing' = [removing EXCEPT ![t] = IF p = NoOne THEN NoOne ELSE u]
     /\ phase' = IF waits THEN [phase EXCEPT ![p] = "listed"] ELSE phase
     /\ workQueue' = IF waits THEN Append(queue, Listed(p)) ELSE queue
     /\ crashed' = (p # NoOne /\ ~waits)

\* Fault: the callback stays.
KeepCallback(t) ==
  /\ removing[t] # NoOne
  /\ removing' = [removing EXCEPT ![t] = NoOne]
  /\ UNCHANGED callbacks

RemoveCallback(t) ==
  /\ removing[t] # NoOne
  /\ callbacks' = [callbacks EXCEPT ![removing[t]] = NoOne]
  /\ removing' = [removing EXCEPT ![t] = NoOne]

Removal(t) ==
  /\ RemoveCallback(t)
  /\ UNCHANGED <<work, crashed, workQueue, module, rows, sessions, history, left>>

-----------------------------------------------------------------------------
(* encryptAndSendMessage and prepareSession, on the caller's thread.       *)

EncryptAndSend(m) ==
  /\ status[m] = "new"
  /\ status' = [status EXCEPT ![m] = IF Recipients[m] = <<>> THEN "failed" ELSE "preparing"]
  /\ UNCHANGED <<phase, devices, bundleBlocks, dictionary, workQueue, module, rows, sessions,
                 history, left>>

IsNext(p) ==
  /\ status[p[1]] = "preparing"
  /\ phase[p] = "new"
  /\ \A i \in 1..(p[2] - 1) : phase[<<p[1], i>>] # "new"

PrepareSession(p) ==
  /\ IsNext(p)
  /\ devices' = [devices EXCEPT ![p] =
                   {<<d, <<UserOf(p), d>> \in keyed>> : d \in Stored(UserOf(p))}]
  /\ phase' = [phase EXCEPT ![p] = "queued"]
  /\ Queue(Prepare(p))
  /\ UNCHANGED <<status, bundleBlocks, dictionary, module, rows, sessions, history, left>>

\* The buddy is no longer stored, and so are no devices of it.
NoUsername(p) ==
  /\ IsNext(p)
  /\ UserOf(p) # Own
  /\ Stored(UserOf(p)) = {}
  /\ phase' = [phase EXCEPT ![p] = "done"]
  /\ UNCHANGED <<status, devices, bundleBlocks, dictionary, workQueue, module, rows, sessions,
                 history, left>>

\* The group of the message notifies workQueue.
Notify(m) ==
  /\ status[m] = "preparing"
  /\ \A i \in 1..Len(Addressees(m)) : phase[<<m, i>>] = "done"
  /\ status' = [status EXCEPT ![m] = "ready"]
  /\ Queue(Seal(m))
  /\ UNCHANGED <<phase, devices, bundleBlocks, dictionary, module, rows, sessions, history, left>>

-----------------------------------------------------------------------------
(* Blocks on workQueue.                                                    *)

Running(op) == workQueue # <<>> /\ Head(workQueue).op = op /\ removing["work"] = NoOne

\* The closure bundleFetch: those without a session, or without a key when
\* the devices were read.
FetchBundles(p, found) ==
  LET u == UserOf(p)
      needed == {k[1] : k \in {k \in found : k[1] # Self
                                   /\ (<<u, k[1]>> \notin sessions \/ ~k[2])}}
  IN /\ bundleBlocks' = bundleBlocks \cup ({p} \X needed)
     /\ bundleIqs' = bundleIqs \cup ({p} \X needed)
     /\ phase' = [phase EXCEPT ![p] = IF needed = {} THEN "done" ELSE "bundles"]

\* The closure deviceFetch.
FetchList(p) ==
  LET u == UserOf(p)
  IN /\ callbacks' = [callbacks EXCEPT ![u] = p]
     /\ spoiled' = IF callbacks[u] # NoOne \/ removing["module"] = u
                   THEN spoiled \cup {u} ELSE spoiled
     /\ listIq' = [listIq EXCEPT ![p] = "out"]
     /\ phase' = [phase EXCEPT ![p] = "fetching"]

RunPrepare ==
  /\ Running("prepare")
  /\ LET p == Head(workQueue).p
     IN \/ /\ devices[p] = {}
           /\ FetchList(p)
           /\ UNCHANGED <<bundleBlocks, bundleIqs>>
        \/ /\ devices[p] # {}
           /\ FetchBundles(p, devices[p])
           /\ UNCHANGED <<callbacks, spoiled, listIq>>
  /\ workQueue' = Tail(workQueue)
  /\ UNCHANGED <<status, devices, removing, crashed, appended, lateBundles, rows, sessions,
                 sealedFor, gone, left>>

\* Fault: with no devices the preparation does not end.
NeverDone(p) == UNCHANGED <<phase, bundleBlocks, bundleIqs>>

RunEmpty(p) ==
  /\ phase' = [phase EXCEPT ![p] = "done"]
  /\ UNCHANGED <<bundleBlocks, bundleIqs>>

RunListed ==
  /\ Running("listed")
  /\ LET p == Head(workQueue).p
         u == UserOf(p)
         found == {<<d, <<u, d>> \in keyed>> : d \in Stored(u)}
     IN /\ devices' = [devices EXCEPT ![p] = found]
        /\ IF found = {} THEN RunEmpty(p) ELSE FetchBundles(p, found)
  /\ workQueue' = Tail(workQueue)
  /\ UNCHANGED <<status, dictionary, appended, listIq, lateBundles, rows, sessions, history, left>>

RunListFailed ==
  /\ Running("listFailed")
  /\ CallBack("work", UserOf(Head(workQueue).p), Tail(workQueue))
  /\ UNCHANGED <<status, devices, bundleBlocks, callbacks, module, rows, sessions, history, left>>

\* A bundle that could be used makes a session.  Whatever came, the block
\* of the device is called and removed.
RunBundle ==
  /\ Running("bundle")
  /\ LET b == Head(workQueue)
         u == UserOf(b.p)
         blocks == bundleBlocks \ {<<b.p, b.d>>}
     IN /\ IF b.ok
           THEN SaveIdentity(u, b.d) /\ sessions' = sessions \cup {<<u, b.d>>}
           ELSE UNCHANGED <<rows, sessions>>
        /\ bundleBlocks' = blocks
        /\ phase' = IF phase[b.p] = "bundles" /\ \A d \in Device : <<b.p, d>> \notin blocks
                    THEN [phase EXCEPT ![b.p] = "done"] ELSE phase
  /\ workQueue' = Tail(workQueue)
  /\ UNCHANGED <<status, devices, dictionary, module, history, left>>

\* Trusted devices that there is a session with.
Usable(users) ==
  {k \in users \X Device : trust[k[1]][k[2]] = "trusted" /\ k \in sessions}

\* Without a device of a buddy the message fails.  Without text or key
\* material the block returns and nobody is told.
RunSeal ==
  /\ Running("seal")
  /\ LET m == Head(workQueue).m
         theirs == Usable({Recipients[m][i] : i \in 1..Len(Recipients[m])})
         ours == Usable({Own}) \ {<<Own, Self>>}
     IN \/ /\ theirs # {}
           /\ sealedFor' = [sealedFor EXCEPT ![m] = theirs \cup ours]
           /\ status' = [status EXCEPT ![m] = "sent"]
        \/ /\ theirs = {}
           /\ status' = [status EXCEPT ![m] = "failed"]
           /\ UNCHANGED sealedFor
        \/ /\ status' = [status EXCEPT ![m] = "dropped"]
           /\ UNCHANGED sealedFor
  /\ workQueue' = Tail(workQueue)
  /\ UNCHANGED <<phase, devices, bundleBlocks, dictionary, module, rows, sessions, spoiled, gone,
                 left>>

\* A bundle of the device may still come in: it was asked for, or will be by
\* a preparation that has read the device.
Awaited(u, d) ==
  \E p \in Preparation :
    /\ UserOf(p) = u
    /\ \/ phase[p] = "queued" /\ d \in {k[1] : k \in devices[p]}
       \/ <<p, d>> \in bundleIqs \cup lateBundles
       \/ \E i \in 1..Len(workQueue) : workQueue[i] = Bundle(p, d, TRUE)

\* Fault: only the session is removed.
RemoveSession(u, d) ==
  /\ sessions' = sessions \ {<<u, d>>}
  /\ UNCHANGED rows

\* Fault: the key is kept.
RemoveRow(u, d) ==
  /\ trust' = [trust EXCEPT ![u][d] = "none"]
  /\ sessions' = sessions \ {<<u, d>>}
  /\ UNCHANGED keyed

RemoveDevice(u, d) ==
  /\ trust' = [trust EXCEPT ![u][d] = "none"]
  /\ keyed' = keyed \ {<<u, d>>}
  /\ sessions' = sessions \ {<<u, d>>}

\* What the server is then asked to do with an own device shows in the lists
\* it sends.
RunRemove ==
  /\ Running("remove")
  /\ LET b == Head(workQueue)
     IN /\ RemoveDevice(b.u, b.d)
        /\ gone' = IF Awaited(b.u, b.d) THEN gone ELSE gone \cup {<<b.u, b.d>>}
  /\ workQueue' = Tail(workQueue)
  /\ UNCHANGED <<work, dictionary, module, sealedFor, spoiled, left>>

WorkQueueRuns ==
  \/ RunPrepare \/ RunListed \/ RunListFailed \/ RunBundle \/ RunSeal \/ RunRemove
  \/ Removal("work")

-----------------------------------------------------------------------------
(* The module's queue: answers, timeouts, and lists pushed by the server.  *)

ModuleIsFree == removing["module"] = NoOne /\ appended = {}

\* storeDeviceIds, which calls the callback for the user.
StoreDeviceIds(u, list) ==
  /\ StoreDevices(u, list)
  /\ CallBack("module", u, workQueue)
  /\ gone' = gone \ ({u} \X list)
  /\ UNCHANGED <<status, devices, bundleBlocks, callbacks, sessions, sealedFor, spoiled>>

\* An own list without the own device is stored, then published and stored
\* again with it.
ProcessIncoming(u, list) ==
  /\ StoreDeviceIds(u, list)
  /\ appended' = IF u = Own /\ Self \notin list THEN {list \cup {Self}} ELSE {}

StoreAppended ==
  /\ removing["module"] = NoOne
  /\ \E list \in appended : StoreDeviceIds(Own, list)
  /\ appended' = {}
  /\ UNCHANGED <<listIq, bundleIqs, lateBundles, left>>

\* The answer to a request may come after its timeout: it is processed again.
SpendIf(late) == IF late THEN Spend({"late", "any"}) ELSE UNCHANGED left

ListAnswered(p, list) ==
  /\ ModuleIsFree
  /\ listIq[p] \in {"out", "late"}
  /\ SpendIf(listIq[p] = "late")
  /\ listIq' = [listIq EXCEPT ![p] = "none"]
  /\ ProcessIncoming(UserOf(p), list)
  /\ UNCHANGED <<bundleIqs, lateBundles>>

\* Fault: a timeout is not reported.
ForgetList(p) == UNCHANGED <<work, dictionary, workQueue, appended, rows, sessions, history>>

\* An error or a timeout counts as an empty list if it is the own one.
ListFails(p) ==
  \/ /\ UserOf(p) = Own
     /\ ProcessIncoming(Own, {})
  \/ /\ UserOf(p) # Own
     /\ Queue(ListFailed(p))
     /\ UNCHANGED <<work, dictionary, appended, rows, sessions, history>>

ListRefused(p) ==
  /\ ModuleIsFree
  /\ listIq[p] \in {"out", "late"}
  /\ SpendIf(listIq[p] = "late")
  /\ listIq' = [listIq EXCEPT ![p] = "none"]
  /\ ListFails(p)
  /\ UNCHANGED <<bundleIqs, lateBundles>>

ListTimesOut(p) ==
  /\ ModuleIsFree
  /\ listIq[p] = "out"
  /\ listIq' = [listIq EXCEPT ![p] = "late"]
  /\ ListFails(p)
  /\ UNCHANGED <<bundleIqs, lateBundles, left>>

\* A bundle that cannot be used, or an error, is answered with FALSE.
BundleAnswered(p, d, ok) ==
  /\ ModuleIsFree
  /\ <<p, d>> \in bundleIqs \cup lateBundles
  /\ SpendIf(<<p, d>> \in lateBundles)
  /\ bundleIqs' = bundleIqs \ {<<p, d>>}
  /\ lateBundles' = lateBundles \ {<<p, d>>}
  /\ Queue(Bundle(p, d, ok))
  /\ UNCHANGED <<work, dictionary, appended, listIq, rows, sessions, history>>

BundleTimesOut(p, d) ==
  /\ ModuleIsFree
  /\ <<p, d>> \in bundleIqs
  /\ bundleIqs' = bundleIqs \ {<<p, d>>}
  /\ lateBundles' = lateBundles \cup {<<p, d>>}
  /\ Queue(Bundle(p, d, FALSE))
  /\ UNCHANGED <<work, dictionary, appended, listIq, rows, sessions, history, left>>

ListPushed(u, list) ==
  /\ Spend({"list", "any"})
  /\ ModuleIsFree
  /\ ProcessIncoming(u, list)
  /\ UNCHANGED <<listIq, bundleIqs, lateBundles>>

-----------------------------------------------------------------------------
(* The user, and messages that come in.                                    *)

SetTrust(u, d, level) ==
  /\ Spend({"trust", "any"})
  /\ d \in Stored(u)
  /\ trust' = [trust EXCEPT ![u][d] = level]
  /\ UNCHANGED <<work, dictionary, workQueue, module, keyed, sessions, history>>

\* The own device cannot be removed.
AskToRemove(u, d) ==
  /\ <<u, d>> # <<Own, Self>>
  /\ Spend({"remove", "any"})
  /\ d \in Stored(u)
  /\ Queue(Remove(u, d))
  /\ UNCHANGED <<work, dictionary, module, rows, sessions, history>>

\* processKeyData with the first message of a session, or one that does not
\* fit its session.
ReceiveKeyData(u, d) ==
  /\ <<u, d>> # <<Own, Self>>
  /\ Spend({"incoming", "any"})
  /\ \/ /\ sessions' = sessions \cup {<<u, d>>}
        /\ SaveIdentity(u, d)
        /\ gone' = gone \ {<<u, d>>}
     \/ /\ sessions' = sessions \ {<<u, d>>}
        /\ UNCHANGED <<rows, gone>>
  /\ UNCHANGED <<work, dictionary, workQueue, module, sealedFor, spoiled>>

-----------------------------------------------------------------------------

ModuleQueueRuns ==
  \/ Removal("module")
  \/ StoreAppended
  \/ \E p \in Preparation :
       \/ \E list \in Lists[UserOf(p)] : ListAnswered(p, list)
       \/ ListRefused(p) \/ ListTimesOut(p)
       \/ \E d \in Device : BundleTimesOut(p, d) \/ \E ok \in BOOLEAN : BundleAnswered(p, d, ok)
  \/ \E u \in User : \E list \in Lists[u] : ListPushed(u, list)

Prepares ==
  \/ \E m \in Message : Notify(m)
  \/ \E p \in Preparation : PrepareSession(p) \/ NoUsername(p)

\* A crash ends everything.
Next ==
  /\ ~crashed
  /\ \/ \E m \in Message : EncryptAndSend(m)
     \/ Prepares
     \/ WorkQueueRuns
     \/ ModuleQueueRuns
     \/ \E u \in User, d \in Device :
          \/ \E level \in {"trusted", "untrusted"} : SetTrust(u, d, level)
          \/ AskToRemove(u, d) \/ ReceiveKeyData(u, d)

Spec == Init /\ [][Next]_vars

\* Blocks that are queued run, requests time out, and the thread that called
\* goes on.  Nobody has to answer.
Fairness ==
  /\ WF_vars(~crashed /\ Prepares)
  /\ WF_vars(~crashed /\ WorkQueueRuns)
  /\ WF_vars(~crashed /\ (Removal("module") \/ StoreAppended))
  /\ \A p \in Preparation :
       /\ WF_vars(~crashed /\ ListTimesOut(p))
       /\ \A d \in Device : WF_vars(~crashed /\ BundleTimesOut(p, d))

FairSpec == Spec /\ Fairness

-----------------------------------------------------------------------------
(* Properties.                                                             *)

TypeOK ==
  /\ status \in [Message -> Status]
  /\ phase \in [Preparation -> Phase]
  /\ devices \in [Preparation -> SUBSET (Device \X BOOLEAN)]
  /\ callbacks \in [User -> Preparation \cup {NoOne}]
  /\ bundleBlocks \subseteq Preparation \X Device
  /\ workQueue \in Seq(Block)
  /\ removing \in [Thread -> User \cup {NoOne}]
  /\ appended \subseteq SUBSET Device
  /\ listIq \in [Preparation -> {"none", "out", "late"}]
  /\ bundleIqs \subseteq Preparation \X Device
  /\ lateBundles \subseteq Preparation \X Device
  /\ trust \in [User -> [Device -> Trust]]
  /\ keyed \subseteq {k \in User \X Device : trust[k[1]][k[2]] # "none"}
  /\ sessions \subseteq User \X Device
  /\ sealedFor \in [Message -> SUBSET (User \X Device)]
  /\ spoiled \subseteq User
  /\ gone \subseteq User \X Device
  /\ crashed \in BOOLEAN
  /\ left \in [EnvStep -> Nat]

IsQueued(block) == \E i \in 1..Len(workQueue) : workQueue[i] = block

\* A preparation that waits is waited for: its callback is in the dictionary
\* and its request will time out or has failed; each bundle it needs has a
\* block to be called, and an answer due or queued.  Only where two fetches
\* of one user's list overlapped is a callback lost (lines 180 and 755 of
\* the coordinator).
WaitingIsEnded ==
  \A p \in Preparation :
    /\ phase[p] = "fetching" /\ UserOf(p) \notin spoiled =>
         /\ callbacks[UserOf(p)] = p
         /\ listIq[p] = "out" \/ IsQueued(ListFailed(p))
    /\ phase[p] = "bundles" =>
         \E d \in Device :
           /\ <<p, d>> \in bundleBlocks
           /\ <<p, d>> \in bundleIqs \/ \E ok \in BOOLEAN : IsQueued(Bundle(p, d, ok))
    /\ phase[p] = "listed" => IsQueued(Listed(p))

\* A group is left more often than it was entered, which ends the process,
\* only when a fetch of a list failed while a list of the same user came in
\* and both queues called its callback before either removed it.  Timeouts
\* with late answers, and lists pushed meanwhile, do not suffice.
OnlyCrossingCrashes ==
  crashed => \E u \in User : \A t \in Thread : removing[t] = u

\* No message is encrypted for a device the user removed, unless a list or a
\* message of the device named it since, or its bundle was still under way,
\* which brings the device back.
RemovedGetsNothing ==
  [][\A m \in Message : sealedFor'[m] # sealedFor[m] => sealedFor'[m] \cap gone = {}]_vars

\* Each message is sent, reported as failed, or dropped for want of text or
\* key material, whatever the server leaves unanswered, but for the users
\* whose fetches overlapped.
EventuallyCompleted ==
  \A m \in Message :
    status[m] = "preparing" ~>
      \/ status[m] \in {"sent", "failed", "dropped"}
      \/ crashed
      \/ \E i \in 1..Len(Addressees(m)) : Addressees(m)[i] \in spoiled
=============================================================================
