----------------------------- MODULE LeaseMutex -----------------------------
(***************************************************************************)
(* The directory mutex of the scope-lease registry                          *)
(* (src/core/scope-lease-registry.ts), one action per file-system call that *)
(* another process can observe.  Every call of acquire runs withLock with   *)
(* an owner id of its own, reads the lease file, writes a temporary file    *)
(* INSIDE the lock directory and renames it over the lease file, so that a  *)
(* recovery, which moves the whole directory away, fences a paused owner.   *)
(*                                                                         *)
(* Abstractions.  A lease is the call that asked for it; expiry and the     *)
(* other operations on leases are LeaseRegistry's.  Ages are bits that may  *)
(* be set at any time: a process can be paused for longer than mutexStaleMs *)
(* anywhere.  Two snapshots of one unchanged file are one look at it.       *)
(***************************************************************************)
EXTENDS Naturals, FiniteSets

CONSTANTS
  Calls,         \* calls of acquire
  Clashes,       \* pairs {c, d} whose scopes conflict
  Retries,       \* mutexRetries of each call's registry
  MaxCrashes,    \* bound: processes that die
  CreatorAlone,  \* nobody re-creates the directory before its creator marked it
  None           \* no owner, no quarantine

ASSUME MutexAssumption ==
  /\ Retries \in [Calls -> Nat] /\ MaxCrashes \in Nat /\ CreatorAlone \in BOOLEAN
  /\ None \notin Calls

VARIABLES
  lockDir,     \* lockPath exists
  dirOld,      \* it is empty and has been for longer than mutexStaleMs
  markers,     \* the calls whose owner file is in lockPath
  temps,       \* the calls whose temporary file is in lockPath
  blank,       \* owner files created and not written yet
  stale,       \* owner files in lockPath older than mutexStaleMs
  quarantine,  \* directories lockPath was moved to
  file,        \* the leases of scope-leases.json
  pc,          \* what each call does next
  tries,       \* its attempt
  seen,        \* the leases it loaded
  look,        \* the stale owner it decided to recover
  job,         \* the quarantine it is deleting
  reply        \* the answer it is about to return

directory == <<lockDir, dirOld, markers, temps>>
marks == <<blank, stale>>
local == <<pc, tries, seen, look, job, reply>>
vars == <<directory, marks, quarantine, file, local>>

Labels == {"mkdir", "open", "write", "scan", "enter", "read", "temp", "check", "commit", "drop",
           "unlink", "rmdir", "unlinkBack", "rmdirBack", "rmdirNew", "look", "rmdirStale",
           "rename", "sweep", "done", "crashed"}

Init ==
  /\ lockDir = FALSE /\ dirOld = FALSE /\ markers = {} /\ temps = {}
  /\ blank = {} /\ stale = {} /\ quarantine = {} /\ file = {}
  /\ pc = [c \in Calls |-> "mkdir"] /\ tries = [c \in Calls |-> 0]
  /\ seen = [c \in Calls |-> {}] /\ look = [c \in Calls |-> None]
  /\ job = [c \in Calls |-> None] /\ reply = [c \in Calls |-> "pending"]

-----------------------------------------------------------------------------
Goto(c, label) == pc' = [pc EXCEPT ![c] = label]
\* The same, with a lasting answer.
Settle(c, a, label) == Goto(c, label) /\ reply' = [reply EXCEPT ![c] = a]

\* Another attempt, or lock-timeout.
Retry(c) ==
  IF tries[c] = Retries[c]
  THEN Settle(c, "failed", "done") /\ UNCHANGED tries
  ELSE Goto(c, "mkdir") /\ tries' = [tries EXCEPT ![c] = @ + 1] /\ UNCHANGED reply

\* Variant: any owner file in the directory will do.
HeldByAnyone(c) == markers # {}
\* The owner file is there and names its owner (assertMutexHeld, removeOwnedMutex).
Held(c) == c \in markers /\ c \notin blank

Clash(c, S) == \E d \in S : {c, d} \in Clashes

\* Variant: a recursive removal.
RemoveRecursive ==
  /\ lockDir' = FALSE /\ dirOld' = FALSE
  /\ markers' = {} /\ temps' = {}

\* rmdir succeeds on an empty directory only.
RemoveEmpty ==
  /\ lockDir' = (lockDir /\ markers \cup temps # {})
  /\ dirOld' = FALSE
  /\ UNCHANGED <<markers, temps>>

\* What quarantineSnapshot accepts: the owner it is named after and no other, with
\* its name written in it (it may be writing a newer file for a later attempt).
Cleanable(q) ==
  q.markers = {q.name} /\ (q.name \in blank => q.round # tries[q.name])

-----------------------------------------------------------------------------
(* Taking the mutex: withLock *)

\* Variant: an existing directory does not stop the caller (a recursive mkdir).
MkdirRecursive(c) ==
  /\ pc[c] = "mkdir"
  /\ Goto(c, "open") /\ lockDir' = TRUE
  /\ dirOld' = FALSE
  /\ UNCHANGED <<markers, temps, marks, quarantine, file, tries, seen, look, job, reply>>

Mkdir(c) ==
  /\ pc[c] = "mkdir"
  /\ CreatorAlone => \A d \in Calls \ {c} : pc[d] # "open"
  /\ IF lockDir THEN Goto(c, "look") /\ UNCHANGED <<lockDir, dirOld>>
     ELSE Goto(c, "open") /\ lockDir' = TRUE /\ dirOld' = FALSE
  /\ UNCHANGED <<markers, temps, marks, quarantine, file, tries, seen, look, job, reply>>

\* Exclusive creation of the owner file in the directory just made.
Open(c) ==
  /\ pc[c] = "open"
  /\ IF lockDir /\ c \notin markers
     THEN /\ Goto(c, "write")
          /\ markers' = markers \cup {c} /\ blank' = blank \cup {c} /\ dirOld' = FALSE
     ELSE Goto(c, "rmdirNew") /\ UNCHANGED <<markers, blank, dirOld>>
  /\ UNCHANGED <<lockDir, temps, stale, quarantine, file, tries, seen, look, job, reply>>

\* The handle survives a rename of the directory, and writing renews the age.
Write(c) ==
  /\ pc[c] = "write"
  /\ blank' = blank \ {c} /\ stale' = stale \ {c}
  /\ Goto(c, "scan")
  /\ UNCHANGED <<directory, quarantine, file, tries, seen, look, job, reply>>

\* cleanupQuarantine: an old quarantine with the owner it is named after is
\* emptied and removed; sweep is the one the recoverer made itself.
CleanStart(c, q) ==
  /\ \/ pc[c] = "scan"
     \/ pc[c] = "sweep" /\ q.by = <<c, tries[c]>>
  /\ job[c] = None
  /\ q.old /\ Cleanable(q)
  /\ LET emptied == [q EXCEPT !.markers = {}, !.temps = {}] IN
       /\ quarantine' = (quarantine \ {q}) \cup {emptied}
       /\ job' = [job EXCEPT ![c] = emptied]
  /\ UNCHANGED <<directory, marks, file, pc, tries, seen, look, reply>>

CleanEnd(c) ==
  /\ job[c] # None /\ pc[c] # "crashed"
  /\ quarantine' = quarantine \ {job[c]}
  /\ job' = [job EXCEPT ![c] = None]
  /\ UNCHANGED <<directory, marks, file, pc, tries, seen, look, reply>>

\* hasQuarantine: any quarantine left makes the new owner give way.
ScanDone(c) ==
  /\ pc[c] = "scan" /\ job[c] = None
  /\ Goto(c, IF quarantine = {} THEN "enter" ELSE "unlinkBack")
  /\ UNCHANGED <<directory, marks, quarantine, file, tries, seen, look, job, reply>>

-----------------------------------------------------------------------------
(* Inside the mutex: acquire, load and save *)

\* Every assertMutexHeld that fails ends the call with lock-lost.
Lose(c) ==
  /\ pc[c] \in {"enter", "read", "temp", "check"} /\ ~Held(c)
  /\ Settle(c, "failed", IF pc[c] = "check" THEN "drop" ELSE "unlink")
  /\ UNCHANGED <<directory, marks, quarantine, file, tries, seen, look, job>>

Enter(c) ==
  /\ pc[c] = "enter" /\ Held(c)
  /\ stale' = stale \ {c}
  /\ Goto(c, "read")
  /\ UNCHANGED <<directory, blank, quarantine, file, tries, seen, look, job, reply>>

\* Reads after its assertion, so the mutex may be gone already.
Read(c) ==
  /\ pc[c] = "read"
  /\ seen' = [seen EXCEPT ![c] = file]
  /\ IF Clash(c, file) THEN Settle(c, "refused", "unlink")
     ELSE Goto(c, "temp") /\ UNCHANGED reply
  /\ UNCHANGED <<directory, marks, quarantine, file, tries, look, job>>

\* lockPath may by now be another owner's directory.
Temp(c) ==
  /\ pc[c] = "temp"
  /\ IF lockDir
     THEN Goto(c, "check") /\ temps' = temps \cup {c} /\ dirOld' = FALSE /\ UNCHANGED reply
     ELSE Settle(c, "failed", "unlink") /\ UNCHANGED <<temps, dirOld>>
  /\ UNCHANGED <<lockDir, markers, marks, quarantine, file, tries, seen, look, job>>

\* Variant: no assertion between the write and the rename.
CheckNothing(c) ==
  /\ pc[c] = "check"
  /\ Goto(c, "commit")
  /\ UNCHANGED <<directory, marks, quarantine, file, tries, seen, look, job, reply>>

Check(c) ==
  /\ pc[c] = "check" /\ Held(c)
  /\ stale' = stale \ {c}
  /\ Goto(c, "commit")
  /\ UNCHANGED <<directory, blank, quarantine, file, tries, seen, look, job, reply>>

\* Variant: the temporary file is beside the lease file, where no recovery moves it.
CommitUnfenced(c) ==
  /\ pc[c] = "commit"
  /\ file' = seen[c] \cup {c} /\ temps' = temps \ {c}
  /\ Settle(c, "granted", "unlink")
  /\ UNCHANGED <<lockDir, dirOld, markers, marks, quarantine, tries, seen, look, job>>

\* rename(temp, statePath): the commit point.
Commit(c) ==
  /\ pc[c] = "commit"
  /\ IF c \in temps
     THEN /\ file' = seen[c] \cup {c} /\ temps' = temps \ {c}
          /\ Settle(c, "granted", "unlink")
     ELSE Settle(c, "failed", "unlink") /\ UNCHANGED <<file, temps>>
  /\ UNCHANGED <<lockDir, dirOld, markers, marks, quarantine, tries, seen, look, job>>

\* A lost owner removes its temporary file, wherever it went.
Drop(c) ==
  /\ pc[c] = "drop"
  /\ temps' = temps \ {c}
  /\ Goto(c, "unlink")
  /\ UNCHANGED <<lockDir, dirOld, markers, marks, quarantine, file, tries, seen, look, job, reply>>

-----------------------------------------------------------------------------
(* Letting go: removeOwnedMutex, and the rmdir of a failed creator *)

Unlink(c) ==
  /\ pc[c] \in {"unlink", "unlinkBack"}
  /\ IF Held(c)
     THEN markers' = markers \ {c} /\ stale' = stale \ {c} /\ dirOld' = FALSE
          /\ Goto(c, IF pc[c] = "unlink" THEN "rmdir" ELSE "rmdirBack")
     ELSE UNCHANGED <<markers, stale, dirOld>>
          /\ Goto(c, IF pc[c] = "unlink" THEN "done" ELSE "rmdirNew")
  /\ UNCHANGED <<lockDir, temps, blank, quarantine, file, tries, seen, look, job, reply>>

\* After giving way the creator calls rmdir a second time.
Rmdir(c) ==
  /\ pc[c] \in {"rmdir", "rmdirBack", "rmdirNew"}
  /\ RemoveEmpty
  /\ Goto(c, CASE pc[c] = "rmdir" -> "done" [] pc[c] = "rmdirBack" -> "rmdirNew" [] OTHER -> "look")
  /\ UNCHANGED <<marks, quarantine, file, tries, seen, look, job, reply>>

-----------------------------------------------------------------------------
(* Recovering a stale mutex: recoverStaleLock *)

StaleOwner(o) == markers = {o} /\ o \in stale /\ o \notin blank

Look(c) ==
  /\ pc[c] = "look"
  /\ IF dirOld THEN Goto(c, "rmdirStale") /\ UNCHANGED <<look, tries, reply>>
     ELSE IF \E o \in Calls : StaleOwner(o)
     THEN Goto(c, "rename") /\ look' = [look EXCEPT ![c] = CHOOSE o \in Calls : StaleOwner(o)]
          /\ UNCHANGED <<tries, reply>>
     ELSE Retry(c) /\ UNCHANGED look
  /\ UNCHANGED <<directory, marks, quarantine, file, seen, job>>

RmdirStale(c) ==
  /\ pc[c] = "rmdirStale"
  /\ RemoveEmpty /\ Retry(c)
  /\ UNCHANGED <<marks, quarantine, file, seen, look, job>>

\* The directory that is moved need not be the one that was looked at.
Rename(c) ==
  /\ pc[c] = "rename"
  /\ look' = [look EXCEPT ![c] = None]
  /\ IF lockDir
     THEN /\ quarantine' = quarantine \cup
               {[name |-> look[c], round |-> tries[look[c]], by |-> <<c, tries[c]>>,
                 markers |-> markers, temps |-> temps, old |-> FALSE]}
          /\ lockDir' = FALSE /\ dirOld' = FALSE /\ markers' = {} /\ temps' = {} /\ stale' = {}
     ELSE UNCHANGED <<quarantine, directory, stale>>
  /\ IF lockDir /\ look[c] \in stale THEN Goto(c, "sweep") /\ UNCHANGED <<tries, reply>> ELSE Retry(c)
  /\ UNCHANGED <<blank, file, seen, job>>

SweepDone(c) ==
  /\ pc[c] = "sweep" /\ job[c] = None
  /\ Retry(c)
  /\ UNCHANGED <<directory, marks, quarantine, file, seen, look, job>>

-----------------------------------------------------------------------------
(* Time, heartbeats and crashes *)

AgeMarker(c) ==
  /\ c \in markers \ stale
  /\ stale' = stale \cup {c}
  /\ UNCHANGED <<directory, blank, quarantine, file, local>>

AgeDirectory ==
  /\ lockDir /\ markers \cup temps = {} /\ ~dirOld
  /\ dirOld' = TRUE
  /\ UNCHANGED <<lockDir, markers, temps, marks, quarantine, file, local>>

AgeQuarantine(q) ==
  /\ ~q.old
  /\ quarantine' = (quarantine \ {q}) \cup {[q EXCEPT !.old = TRUE]}
  /\ UNCHANGED <<directory, marks, file, local>>

\* The heartbeat timer of a running owner.
Refresh(c) ==
  /\ pc[c] \in {"enter", "read", "temp", "check", "commit", "drop"} /\ Held(c) /\ c \in stale
  /\ stale' = stale \ {c}
  /\ UNCHANGED <<directory, blank, quarantine, file, local>>

Crash(c) ==
  /\ pc[c] \notin {"done", "crashed"}
  /\ Cardinality({d \in Calls : pc[d] = "crashed"}) < MaxCrashes
  /\ Goto(c, "crashed")
  /\ UNCHANGED <<directory, marks, quarantine, file, tries, seen, look, job, reply>>

Step(c) ==
  \/ Mkdir(c) \/ Open(c) \/ Write(c) \/ ScanDone(c)
  \/ \E q \in quarantine : CleanStart(c, q)
  \/ CleanEnd(c)
  \/ Lose(c) \/ Enter(c) \/ Read(c) \/ Temp(c) \/ Check(c) \/ Commit(c) \/ Drop(c)
  \/ Unlink(c) \/ Rmdir(c) \/ Look(c) \/ RmdirStale(c) \/ Rename(c) \/ SweepDone(c)

Next ==
  \/ \E c \in Calls : Step(c) \/ AgeMarker(c) \/ Refresh(c) \/ Crash(c)
  \/ AgeDirectory
  \/ \E q \in quarantine : AgeQuarantine(q)

Spec == Init /\ [][Next]_vars

-----------------------------------------------------------------------------
(* Properties *)

Quarantine == [name : Calls, round : Nat, by : Calls \X Nat, markers : SUBSET Calls,
               temps : SUBSET Calls, old : BOOLEAN]

TreeOK ==
  /\ lockDir \in BOOLEAN /\ dirOld \in BOOLEAN
  /\ markers \subseteq Calls /\ temps \subseteq Calls
  /\ ~lockDir => markers \cup temps = {}
  /\ dirOld => lockDir /\ markers \cup temps = {}
  /\ blank \subseteq Calls /\ stale \subseteq markers /\ file \subseteq Calls
QuarantineOK == quarantine \subseteq Quarantine /\ job \in [Calls -> Quarantine \cup {None}]
CallsOK ==
  /\ pc \in [Calls -> Labels]
  /\ tries \in [Calls -> Nat] /\ \A c \in Calls : tries[c] <= Retries[c]
  /\ seen \in [Calls -> SUBSET Calls] /\ look \in [Calls -> Calls \cup {None}]
  /\ \A c \in Calls : pc[c] = "rename" => look[c] # None
  /\ reply \in [Calls -> {"pending", "granted", "refused", "failed"}]

\* The shape of the directory tree and of the calls' local state.
TypeOK == TreeOK /\ QuarantineOK /\ CallsOK

\* The directory never carries two owners: recoveries, releases and creations
\* of different processes overlap, and still only one finds its marker there.
OneOwner == \A c, d \in markers : c = d

\* A call that can still commit holds the mutex it loaded under: recovery moves
\* its temporary file away together with its marker.
CommitFenced == \A c \in Calls : pc[c] = "commit" /\ c \in temps => c \in markers

\* What such a call loaded is still the file's content, however long it paused.
LoadedIsCurrent ==
  \A c \in Calls : pc[c] \in {"temp", "check", "commit"} /\ c \in markers => seen[c] = file

\* A quarantine can be deleted by a later recheck, so it does not block every
\* later owner for good.
QuarantineTemporary == \A q \in quarantine : Cleanable(q) \/ \E c \in Calls : job[c] = q

\* Against the file system, acquire is the atomic table of LeaseTable.
answered ==
  [c \in Calls |-> CASE pc[c] = "done" -> reply[c] [] pc[c] = "crashed" -> "crashed"
                     [] OTHER -> "pending"]
Table == INSTANCE LeaseTable WITH table <- file, answer <- answered
TableSpec == Table!TableSpec
=============================================================================
