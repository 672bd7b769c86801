---------------------------- MODULE BeliefStore ----------------------------
(* The belief store of one expert: beliefs.json, a snapshot that is always *)
(* written as a whole from somebody's memory, and events.jsonl, to which   *)
(* every change is appended before the snapshot.  Processes load both,     *)
(* work on their memory and write it back; a lock per (expert, verb) keeps *)
(* a verb from running twice, and nothing keeps two verbs apart.           *)
EXTENDS Naturals, FiniteSets

CONSTANTS
  Users,        \* processes that open the store for writing
  VerbOf,       \* the verb each of them runs
  MaxChanges,   \* changes that are attempted
  MaxClock,     \* readings of the clock, which may go back, but not to an old store's last change
  Apart,        \* whether verbs that nothing keeps apart are run one at a time
  MaxStoreFaults \* appends and saves that raise, processes that die

\* "chat" only counts retrievals and takes no lock; "sync" goes on after a
\* commit that raised; "learning-apply" restores the files it found
OldTime == 1  \* of the last change of an old store

ASSUME StoreAssumption ==
  /\ DOMAIN VerbOf = Users
  /\ {MaxChanges, MaxClock, MaxStoreFaults} \subseteq Nat
  /\ MaxClock > OldTime
  /\ Apart \in BOOLEAN

VARIABLES
  log,       \* events.jsonl: the changes it holds, the last time, a torn line
  snap,      \* beliefs.json: the changes it shows, the time of its last change record,
             \* contradictions still without edges
  mem,       \* per process: the next call, the store object, and for a learning-apply
             \* what it found in both files
  clock, made, storeFaults,
  unlogged   \* changes whose append raised in a process that went on

storeVars == <<log, snap, mem, clock, made, storeFaults, unlogged>>

Legacy == 0  \* the change an old store already has
Changes == 0 .. MaxChanges
Times == Nat
Logs == [events : SUBSET Changes, last : Times, torn : BOOLEAN]
Snaps == [has : SUBSET Changes, latest : Times, bare : BOOLEAN]
Places == {"away", "opened", "ready", "saving", "restoreSnap", "restoreLog"}
Memories == [at : Places, has : SUBSET Changes, latest : Times, refused : BOOLEAN,
             found : [log : Logs, snap : Snaps]]

NoLog == [events |-> {}, last |-> 0, torn |-> FALSE]
NoSnap == [has |-> {}, latest |-> 0, bare |-> FALSE]
OldSnap == [has |-> {Legacy}, latest |-> OldTime, bare |-> TRUE]
NoStore == [at |-> "away", has |-> {}, latest |-> 0, refused |-> FALSE,
            found |-> [log |-> NoLog, snap |-> NoSnap]]

Records(u) == VerbOf[u] # "chat"
Restores(u) == VerbOf[u] = "learning-apply"
GoesOn(u) == VerbOf[u] = "sync"
IsOpen(u) == mem[u].at # "away"

StoreTypeOK ==
  /\ log \in Logs /\ snap \in Snaps
  /\ mem \in [Users -> Memories]
  /\ clock \in OldTime + 1 .. MaxClock /\ made \in 0 .. MaxChanges /\ storeFaults \in 0 .. MaxStoreFaults
  /\ unlogged \subseteq Changes

\* A new expert, or one from before there were edges and events.
StoreInit ==
  /\ log = NoLog /\ snap \in {NoSnap, OldSnap}
  /\ mem = [u \in Users |-> NoStore]
  /\ clock = OldTime + 1 /\ made = 0 /\ storeFaults = 0
  /\ unlogged = {}

-----------------------------------------------------------------------------
\* Deliberately wrong: a load that only looks whether events.jsonl can be parsed.
EventLogIsOnlyParsed == log.torn

\* What can be told from the files: times only, never which changes.
EventLogConflictsWithSnapshot == log.torn \/ log.last > snap.latest

VerbIsFree(u) == Records(u) => \A v \in Users : VerbOf[v] = VerbOf[u] => ~IsOpen(v)

\* Two verbs that both record, or one that restores files under the other.
Mixes(u, v) ==
  /\ IsOpen(v) /\ VerbOf[u] # VerbOf[v]
  /\ (Records(u) /\ Records(v)) \/ Restores(u) \/ Restores(v)

\* Edges for the contradictions of an old store are saved in the middle of the
\* load, when the object has no change records yet.
Migrated == IF snap.bare THEN [snap EXCEPT !.bare = FALSE, !.latest = 0] ELSE snap

Open(u) ==
  /\ ~IsOpen(u) /\ VerbIsFree(u)
  /\ Apart => \A v \in Users : ~Mixes(u, v)
  /\ mem' = [mem EXCEPT ![u] = [@ EXCEPT !.at = IF Restores(u) THEN "opened" ELSE "ready", !.has = snap.has,
                                !.latest = snap.latest, !.refused = EventLogConflictsWithSnapshot]]
  /\ snap' = Migrated
  /\ UNCHANGED <<log, clock, made, storeFaults, unlogged>>

TakeSnapshot(u) ==
  /\ mem[u].at = "opened"
  /\ mem' = [mem EXCEPT ![u] = [@ EXCEPT !.at = "ready", !.found = [log |-> log, snap |-> snap]]]
  /\ UNCHANGED <<log, snap, clock, made, storeFaults, unlogged>>

ChangeTime(u) == IF clock > mem[u].latest THEN clock ELSE mem[u].latest + 1

Changed(u, next) ==
  [mem EXCEPT ![u] = [@ EXCEPT !.at = next, !.has = mem[u].has \cup {made + 1}, !.latest = ChangeTime(u)]]

MayChange(u) ==
  /\ Records(u) /\ mem[u].at = "ready" /\ ~mem[u].refused
  /\ made < MaxChanges

Appended(u) ==
  IF log.torn THEN [log EXCEPT !.last = ChangeTime(u)]
  ELSE [events |-> log.events \cup {made + 1}, last |-> ChangeTime(u), torn |-> FALSE]

\* add_belief, revise_belief, archive_belief, ...: memory, then the event.
RecordChange(u) ==
  /\ MayChange(u)
  /\ log' = Appended(u)
  /\ mem' = Changed(u, "saving")
  /\ made' = made + 1
  /\ unlogged' = IF log.torn THEN unlogged \cup {made + 1} ELSE unlogged
  /\ UNCHANGED <<snap, clock, storeFaults>>

\* Where a process is after a change that raised.
AfterRaise(u) ==
  CASE GoesOn(u) -> "ready"
    [] Restores(u) -> "restoreSnap"
    [] OTHER -> "away"

Fault ==
  /\ storeFaults < MaxStoreFaults
  /\ storeFaults' = storeFaults + 1

\* The append raises with nothing, half a line or all of it on disk.
RecordRaises(u) ==
  /\ MayChange(u) /\ Fault
  /\ log' \in {log, [log EXCEPT !.torn = TRUE], Appended(u)}
  /\ mem' = IF AfterRaise(u) = "away" THEN [mem EXCEPT ![u] = NoStore] ELSE Changed(u, AfterRaise(u))
  /\ made' = made + 1
  /\ unlogged' = IF GoesOn(u) /\ made + 1 \notin log'.events THEN unlogged \cup {made + 1} ELSE unlogged
  /\ UNCHANGED <<snap, clock>>

Memory(u) == [has |-> mem[u].has, latest |-> mem[u].latest, bare |-> FALSE]

Save(u) ==
  /\ mem[u].at = "saving"
  /\ snap' = Memory(u)
  /\ mem' = [mem EXCEPT ![u].at = "ready"]
  /\ UNCHANGED <<log, clock, made, storeFaults, unlogged>>

\* The snapshot is replaced by a rename: it is the old one or the new one.
SaveRaises(u) ==
  /\ mem[u].at = "saving" /\ Fault
  /\ mem' = IF AfterRaise(u) = "away" THEN [mem EXCEPT ![u] = NoStore]
            ELSE [mem EXCEPT ![u].at = AfterRaise(u)]
  /\ UNCHANGED <<log, snap, clock, made, unlogged>>

\* Retrievals and edges: a save without an event.
SaveWithoutEvent(u) ==
  /\ mem[u].at = "ready" /\ ~mem[u].refused /\ mem[u].has # {}
  /\ snap' = Memory(u)
  /\ UNCHANGED <<log, mem, clock, made, storeFaults, unlogged>>

Close(u) ==
  /\ mem[u].at \in {"opened", "ready"}
  /\ mem' = [mem EXCEPT ![u] = NoStore]
  /\ UNCHANGED <<log, snap, clock, made, storeFaults, unlogged>>

\* A later envelope of the same apply is blocked, or the store refuses it.
HaltApply(u) ==
  /\ Restores(u) /\ mem[u].at = "ready"
  /\ mem' = [mem EXCEPT ![u].at = "restoreSnap"]
  /\ UNCHANGED <<log, snap, clock, made, storeFaults, unlogged>>

RestoreSnapshot(u) ==
  /\ mem[u].at = "restoreSnap"
  /\ snap' = mem[u].found.snap
  /\ mem' = [mem EXCEPT ![u].at = "restoreLog"]
  /\ UNCHANGED <<log, clock, made, storeFaults, unlogged>>

RestoreLog(u) ==
  /\ mem[u].at = "restoreLog"
  /\ log' = mem[u].found.log
  /\ mem' = [mem EXCEPT ![u] = NoStore]
  /\ UNCHANGED <<snap, clock, made, storeFaults, unlogged>>

StoreCrash(u) ==
  /\ IsOpen(u) /\ Fault
  /\ mem' = [mem EXCEPT ![u] = NoStore]
  /\ UNCHANGED <<log, snap, clock, made, unlogged>>

SetClock ==
  /\ clock' \in OldTime + 1 .. MaxClock
  /\ UNCHANGED <<log, snap, mem, made, storeFaults, unlogged>>

StoreNext ==
  \/ \E u \in Users :
       \/ Open(u) \/ TakeSnapshot(u)
       \/ RecordChange(u) \/ RecordRaises(u)
       \/ Save(u) \/ SaveRaises(u) \/ SaveWithoutEvent(u)
       \/ Close(u) \/ StoreCrash(u)
       \/ HaltApply(u) \/ RestoreSnapshot(u) \/ RestoreLog(u)
  \/ SetClock

StoreSpec == StoreInit /\ [][StoreNext]_storeVars

-----------------------------------------------------------------------------
(* A durable event is never ignored and a snapshot shows no change of which *)
(* there is no event: whoever records has, unless the load refused it, all  *)
(* events that are on disk, though processes died between event and         *)
(* snapshot or between two restored files, appends and saves raised, a      *)
(* chat wrote an older snapshot over a newer one, and the clock went back.  *)
(* Nothing is said once a sync has gone on after its append raised.         *)
LogAndSnapshotAgree ==
  unlogged = {} =>
    /\ \A u \in Users :
         Records(u) /\ mem[u].at \in {"opened", "ready", "saving"} /\ ~mem[u].refused
           => log.events \subseteq mem[u].has
    /\ snap.has \subseteq log.events \cup {Legacy}
=============================================================================
