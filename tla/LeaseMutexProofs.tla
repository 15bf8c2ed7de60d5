-------------------------- MODULE LeaseMutexProofs --------------------------
(***************************************************************************)
(* Mutual exclusion and fencing of the scope-lease mutex, for any number of *)
(* processes, retries and crashes, as long as nobody re-creates the lock    *)
(* directory before its creator has marked it.                              *)
(***************************************************************************)
EXTENDS LeaseMutex, TLAPS

USE MutexAssumption

-----------------------------------------------------------------------------
(* Type correctness *)

\* The label and the answer a call moves to are well typed.
LEMMA SettleTyped ==
  ASSUME NEW c \in Calls, CallsOK, NEW l \in Labels,
         NEW a \in {"pending", "granted", "refused", "failed"},
         Goto(c, l), reply' = reply \/ reply' = [reply EXCEPT ![c] = a]
  PROVE  /\ pc' \in [Calls -> Labels]
         /\ reply' \in [Calls -> {"pending", "granted", "refused", "failed"}]
BY DEF CallsOK, Goto

\* A step that ends an attempt keeps the local state well typed.
LEMMA RetryTyped ==
  ASSUME NEW c \in Calls, CallsOK, Retry(c), seen' = seen, look' \in [Calls -> Calls \cup {None}],
         \A d \in Calls \ {c} : look'[d] = look[d]
  PROVE  CallsOK'
<1>1. tries \in [Calls -> Nat] /\ tries[c] \in Nat /\ Retries[c] \in Nat /\ tries[c] <= Retries[c]
  BY DEF CallsOK
<1>2. CASE tries[c] = Retries[c]
  <2>1. Goto(c, "done") /\ reply' = [reply EXCEPT ![c] = "failed"] /\ tries' = tries
    BY <1>2 DEF Retry, Settle
  <2> QED
    BY <2>1, SettleTyped DEF CallsOK, Labels, Goto
<1>3. CASE tries[c] # Retries[c]
  <2>1. Goto(c, "mkdir") /\ reply' = reply /\ tries' = [tries EXCEPT ![c] = @ + 1]
    BY <1>3 DEF Retry
  <2>2. \A d \in Calls : tries'[d] \in Nat /\ tries'[d] <= Retries[d]
    BY <1>1, <1>3, <2>1 DEF CallsOK
  <2>3. tries' \in [Calls -> Nat]
    BY <1>1, <2>1
  <2> QED
    BY <2>1, <2>2, <2>3, SettleTyped DEF CallsOK, Labels, Goto
<1> QED
  BY <1>2, <1>3

\* The initial tree is empty and no call has started.
LEMMA InitTyped == Init => TypeOK
<1> SUFFICES ASSUME Init PROVE TypeOK
  OBVIOUS
<1>1. TreeOK
  BY DEF Init, TreeOK
<1>2. QuarantineOK
  BY DEF Init, QuarantineOK
<1>3. CallsOK
  BY DEF Init, CallsOK, Labels
<1> QED
  BY <1>1, <1>2, <1>3 DEF TypeOK

\* Every file-system call and every pause keeps the directory tree well typed.
LEMMA TreeNext == TypeOK /\ [Next]_vars => TreeOK'
<1> SUFFICES ASSUME TypeOK, [Next]_vars PROVE TreeOK'
  OBVIOUS
<1> USE DEF TypeOK, TreeOK, marks, directory
<1>1. CASE UNCHANGED <<directory, marks, file>>
  BY <1>1
<1>2. ASSUME NEW c \in Calls, Mkdir(c) \/ Open(c) \/ Write(c) PROVE TreeOK'
  <2>1. CASE Mkdir(c)
    BY <2>1 DEF Mkdir
  <2>2. CASE Open(c)
    BY <2>2 DEF Open
  <2>3. CASE Write(c)
    BY <2>3 DEF Write
  <2> QED
    BY <1>2, <2>1, <2>2, <2>3
<1>3. ASSUME NEW c \in Calls, Enter(c) \/ Temp(c) \/ Check(c) \/ Drop(c) PROVE TreeOK'
  <2>1. CASE Enter(c) \/ Check(c)
    BY <2>1 DEF Enter, Check
  <2>2. CASE Temp(c)
    BY <2>2 DEF Temp
  <2>3. CASE Drop(c)
    BY <2>3 DEF Drop
  <2> QED
    BY <1>3, <2>1, <2>2, <2>3
<1>4. ASSUME NEW c \in Calls, Commit(c) PROVE TreeOK'
  BY <1>4 DEF Commit, CallsOK
<1>5. ASSUME NEW c \in Calls, Unlink(c) \/ Rename(c) PROVE TreeOK'
  BY <1>5 DEF Unlink, Rename
<1>6. ASSUME NEW c \in Calls, Rmdir(c) \/ RmdirStale(c) PROVE TreeOK'
  BY <1>6 DEF Rmdir, RmdirStale, RemoveEmpty
<1>7. ASSUME NEW c \in Calls, AgeMarker(c) \/ Refresh(c) PROVE TreeOK'
  BY <1>7 DEF AgeMarker, Refresh
<1>8. CASE AgeDirectory
  BY <1>8 DEF AgeDirectory
<1>9. ASSUME NEW c \in Calls, NEW q \in quarantine, CleanStart(c, q) PROVE TreeOK'
  BY <1>1, <1>9 DEF CleanStart
<1>10. ASSUME NEW c \in Calls,
              CleanEnd(c) \/ ScanDone(c) \/ Lose(c) \/ Read(c) \/ Look(c) \/ SweepDone(c) \/ Crash(c)
       PROVE  TreeOK'
  BY <1>1, <1>10 DEF CleanEnd, ScanDone, Lose, Read, Look, SweepDone, Crash
<1>11. ASSUME NEW q \in quarantine, AgeQuarantine(q) PROVE TreeOK'
  BY <1>1, <1>11 DEF AgeQuarantine
<1>12. CASE UNCHANGED vars
  BY <1>1, <1>12 DEF vars
<1> QED
  BY <1>2, <1>3, <1>4, <1>5, <1>6, <1>7, <1>8, <1>9, <1>10, <1>11, <1>12 DEF Next, Step

\* Quarantined directories keep their shape.
LEMMA QuarantineNext == TypeOK /\ [Next]_vars => QuarantineOK'
<1> SUFFICES ASSUME TypeOK, [Next]_vars PROVE QuarantineOK'
  OBVIOUS
<1> USE DEF TypeOK, QuarantineOK
<1>1. CASE UNCHANGED <<quarantine, job>>
  BY <1>1
<1>2. ASSUME NEW c \in Calls, NEW q \in quarantine, CleanStart(c, q) PROVE QuarantineOK'
  <2>1. [q EXCEPT !.markers = {}, !.temps = {}] \in Quarantine
    BY DEF Quarantine
  <2> QED
    BY <1>2, <2>1 DEF CleanStart
<1>3. ASSUME NEW c \in Calls, CleanEnd(c) PROVE QuarantineOK'
  BY <1>3 DEF CleanEnd
<1>4. ASSUME NEW c \in Calls, Rename(c) PROVE QuarantineOK'
  <2>1. [name |-> look[c], round |-> tries[look[c]], by |-> <<c, tries[c]>>,
         markers |-> markers, temps |-> temps, old |-> FALSE] \in Quarantine
    BY <1>4 DEF Rename, Quarantine, TreeOK, CallsOK
  <2> QED
    BY <1>4, <2>1 DEF Rename
<1>5. ASSUME NEW q \in quarantine, AgeQuarantine(q) PROVE QuarantineOK'
  <2>1. q \in Quarantine
    OBVIOUS
  <2>2. [q EXCEPT !.old = TRUE] \in Quarantine
    BY <2>1 DEF Quarantine
  <2>3. quarantine' = (quarantine \ {q}) \cup {[q EXCEPT !.old = TRUE]} /\ job' = job
    BY <1>5 DEF AgeQuarantine, local
  <2> QED
    BY <2>2, <2>3
<1>6. ASSUME NEW c \in Calls,
             \/ Mkdir(c) \/ Open(c) \/ Write(c) \/ ScanDone(c) \/ Lose(c) \/ Enter(c)
             \/ Read(c) \/ Temp(c) \/ Check(c) \/ Commit(c)
      PROVE  QuarantineOK'
  BY <1>1, <1>6 DEF Mkdir, Open, Write, ScanDone, Lose, Enter, Read, Temp, Check, Commit
<1>7. ASSUME NEW c \in Calls,
             \/ Drop(c) \/ Unlink(c) \/ Rmdir(c) \/ Look(c) \/ RmdirStale(c) \/ SweepDone(c)
             \/ AgeMarker(c) \/ Refresh(c) \/ Crash(c)
      PROVE  QuarantineOK'
  BY <1>1, <1>7 DEF Drop, Unlink, Rmdir, Look, RmdirStale, SweepDone, AgeMarker, Refresh, Crash, local
<1>8. CASE AgeDirectory \/ UNCHANGED vars
  BY <1>1, <1>8 DEF AgeDirectory, vars, local
<1> HIDE DEF QuarantineOK
<1> QED
  BY <1>2, <1>3, <1>4, <1>5, <1>6, <1>7, <1>8, Zenon DEF Next, Step

\* A call that goes to a label other than rename, with any answer it may give.
LEMMA CallsMove ==
  ASSUME NEW c \in Calls, CallsOK, NEW l \in Labels \ {"rename"},
         NEW a \in {"pending", "granted", "refused", "failed"},
         Goto(c, l), reply' = reply \/ reply' = [reply EXCEPT ![c] = a],
         UNCHANGED <<tries, seen, look>>
  PROVE  CallsOK'
BY SettleTyped DEF CallsOK, Goto

\* The calls keep a label, an attempt, a view and an answer of their own.
LEMMA CallsNext == TypeOK /\ [Next]_vars => CallsOK'
<1> SUFFICES ASSUME TypeOK, [Next]_vars PROVE CallsOK'
  OBVIOUS
<1>0. CallsOK
  BY DEF TypeOK
<1>1. CASE UNCHANGED <<pc, tries, seen, look, reply>>
  BY <1>0, <1>1 DEF CallsOK
<1>2. ASSUME NEW c \in Calls, UNCHANGED <<tries, seen, look>>,
             NEW a \in {"pending", "granted", "refused", "failed"}, NEW l \in Labels \ {"rename"},
             Goto(c, l), reply' = reply \/ reply' = [reply EXCEPT ![c] = a]
      PROVE  CallsOK'
  BY <1>0, <1>2, CallsMove
<1>3. ASSUME NEW c \in Calls, Mkdir(c) \/ Open(c) \/ Write(c) \/ ScanDone(c) PROVE CallsOK'
  BY <1>2, <1>3 DEF Mkdir, Open, Write, ScanDone, Labels
<1>4. ASSUME NEW c \in Calls, Lose(c) \/ Enter(c) \/ Temp(c) PROVE CallsOK'
  BY <1>2, <1>4 DEF Lose, Enter, Temp, Settle, Labels
<1>5. ASSUME NEW c \in Calls, Check(c) \/ Commit(c) \/ Drop(c) PROVE CallsOK'
  BY <1>2, <1>5 DEF Check, Commit, Drop, Settle, Labels
<1>6. ASSUME NEW c \in Calls, Unlink(c) \/ Crash(c) PROVE CallsOK'
  BY <1>2, <1>6 DEF Unlink, Crash, Labels
<1>7. ASSUME NEW c \in Calls, Rmdir(c) PROVE CallsOK'
  BY <1>2, <1>7 DEF Rmdir, Labels
<1>8. ASSUME NEW c \in Calls, Read(c) PROVE CallsOK'
  BY <1>0, <1>8 DEF Read, Settle, Goto, CallsOK, TypeOK, TreeOK, Labels
<1>9. ASSUME NEW c \in Calls, Look(c) PROVE CallsOK'
  <2>1. CASE Goto(c, "rmdirStale") /\ UNCHANGED <<look, tries, reply>>
    BY <1>2, <1>9, <2>1 DEF Look, Labels
  <2>2. ASSUME NEW o \in Calls, Goto(c, "rename"), look' = [look EXCEPT ![c] = o],
               UNCHANGED <<tries, reply, seen>>
        PROVE  CallsOK'
    BY <1>0, <2>2 DEF CallsOK, Goto, Labels
  <2>3. CASE Retry(c) /\ UNCHANGED look
    BY <1>0, <1>9, <2>3, RetryTyped DEF Look, CallsOK
  <2>4. (\E o \in Calls : StaleOwner(o)) => (CHOOSE o \in Calls : StaleOwner(o)) \in Calls
    OBVIOUS
  <2> QED
    BY <1>9, <2>1, <2>2, <2>3, <2>4 DEF Look
<1>10. ASSUME NEW c \in Calls, RmdirStale(c) PROVE CallsOK'
  BY <1>0, <1>10, RetryTyped DEF RmdirStale, CallsOK
<1>11. ASSUME NEW c \in Calls, Rename(c) PROVE CallsOK'
  <2>1. look' \in [Calls -> Calls \cup {None}] /\ (\A d \in Calls \ {c} : look'[d] = look[d]) /\ seen' = seen
    BY <1>0, <1>11 DEF Rename, CallsOK
  <2>2. CASE Goto(c, "sweep") /\ UNCHANGED <<tries, reply>>
    BY <1>0, <2>1, <2>2, SettleTyped DEF CallsOK, Goto, Labels
  <2>3. CASE Retry(c)
    BY <1>0, <2>1, <2>3, RetryTyped
  <2> QED
    BY <1>11, <2>2, <2>3 DEF Rename
<1>12. ASSUME NEW c \in Calls, SweepDone(c) PROVE CallsOK'
  BY <1>0, <1>12, RetryTyped DEF SweepDone, CallsOK
<1> QED
  BY <1>1, <1>3, <1>4, <1>5, <1>6, <1>7, <1>8, <1>9, <1>10, <1>11, <1>12 DEF Next, Step, vars, local,
     CleanStart, CleanEnd, AgeMarker, AgeDirectory, AgeQuarantine, Refresh

\* Every step keeps the whole state well typed.
LEMMA NextTyped == TypeOK /\ [Next]_vars => TypeOK'
BY TreeNext, QuarantineNext, CallsNext DEF TypeOK

\* The directory tree and the calls' state always have their type.
THEOREM LeaseMutexTyped == Spec => []TypeOK
BY InitTyped, NextTyped, PTL DEF Spec

-----------------------------------------------------------------------------
(* Mutual exclusion *)

\* At most one call is between making the directory and marking it, and while
\* one is, the directory has no owner: nobody but that call can add one.
CreatorInv ==
  /\ OneOwner
  /\ \A c \in Calls : pc[c] = "open" => markers = {}
  /\ \A c, d \in Calls : pc[c] = "open" /\ pc[d] = "open" => c = d

\* Only a creator adds an owner file.
LEMMA CreatorNext == CreatorAlone /\ TypeOK /\ CreatorInv /\ [Next]_vars => CreatorInv'
<1> SUFFICES ASSUME CreatorAlone, TypeOK, CreatorInv, [Next]_vars PROVE CreatorInv'
  OBVIOUS
<1> USE DEF CreatorInv, OneOwner, Goto, Settle, directory, marks
<1>0. pc \in [Calls -> Labels]
  BY DEF TypeOK, CallsOK
<1>1. ASSUME NEW c \in Calls, NEW l, l # "open", Goto(c, l), markers' \subseteq markers PROVE CreatorInv'
  BY <1>0, <1>1
<1>2. ASSUME UNCHANGED pc, markers' \subseteq markers PROVE CreatorInv'
  BY <1>2
<1>3. ASSUME NEW c \in Calls, Retry(c), markers' \subseteq markers PROVE CreatorInv'
  BY <1>1, <1>3 DEF Retry
<1>4. ASSUME NEW c \in Calls, Mkdir(c) PROVE CreatorInv'
  <2>1. CASE lockDir
    BY <1>1, <1>4, <2>1 DEF Mkdir
  <2>2. CASE ~lockDir
    BY <1>0, <1>4, <2>2 DEF Mkdir, TypeOK, TreeOK
  <2> QED
    BY <2>1, <2>2
<1>5. ASSUME NEW c \in Calls, Open(c) PROVE CreatorInv'
  BY <1>0, <1>5 DEF Open
<1>6. ASSUME NEW c \in Calls,
             \/ Write(c) \/ ScanDone(c) \/ Lose(c) \/ Enter(c) \/ Read(c) \/ Temp(c) \/ Check(c)
             \/ Commit(c) \/ Drop(c) \/ Crash(c)
      PROVE  CreatorInv'
  BY <1>1, <1>6 DEF Write, ScanDone, Lose, Enter, Read, Temp, Check, Commit, Drop, Crash
<1>7. ASSUME NEW c \in Calls, Unlink(c) \/ Rmdir(c) PROVE CreatorInv'
  BY <1>1, <1>7 DEF Unlink, Rmdir, RemoveEmpty
<1>8. ASSUME NEW c \in Calls, Look(c) \/ RmdirStale(c) \/ Rename(c) \/ SweepDone(c) PROVE CreatorInv'
  BY <1>1, <1>3, <1>8 DEF Look, RmdirStale, Rename, SweepDone, RemoveEmpty
<1> QED
  BY <1>2, <1>4, <1>5, <1>6, <1>7, <1>8 DEF Next, Step, vars, local, CleanStart, CleanEnd, AgeMarker,
     AgeDirectory, AgeQuarantine, Refresh

\* The lock directory never carries two owners.
THEOREM MutexOneOwner == CreatorAlone => (Spec => []OneOwner)
<1> SUFFICES ASSUME CreatorAlone PROVE Spec => []OneOwner
  OBVIOUS
<1>1. Init => CreatorInv
  BY DEF Init, CreatorInv, OneOwner
<1>2. TypeOK /\ CreatorInv /\ [Next]_vars => CreatorInv'
  BY CreatorNext
<1>3. CreatorInv => OneOwner
  BY DEF CreatorInv
<1> QED
  BY <1>1, <1>2, <1>3, InitTyped, NextTyped, PTL DEF Spec

-----------------------------------------------------------------------------
(* Fencing *)

\* A recovery moves the temporary file away together with the owner file.
LEMMA FenceNext == TypeOK /\ CommitFenced /\ [Next]_vars => CommitFenced'
<1> SUFFICES ASSUME TypeOK, CommitFenced, [Next]_vars PROVE CommitFenced'
  OBVIOUS
<1> USE DEF CommitFenced, Goto, Settle, directory, marks
<1>0. pc \in [Calls -> Labels]
  BY DEF TypeOK, CallsOK
<1>1. ASSUME NEW c \in Calls, NEW l, l # "commit", Goto(c, l), temps' \subseteq temps \cup {c},
             markers \subseteq markers' \cup {c}
      PROVE  CommitFenced'
  BY <1>0, <1>1
<1>2. CASE UNCHANGED <<pc, temps, markers>>
  BY <1>2
<1>3. ASSUME NEW c \in Calls, Retry(c), UNCHANGED <<temps, markers>> PROVE CommitFenced'
  BY <1>1, <1>3 DEF Retry
<1>4. ASSUME NEW c \in Calls, Check(c) PROVE CommitFenced'
  BY <1>0, <1>4 DEF Check, Held
<1>5. ASSUME NEW c \in Calls, Rename(c) PROVE CommitFenced'
  <2>1. CASE lockDir
    BY <1>5, <2>1 DEF Rename
  <2>2. CASE ~lockDir
    BY <1>3, <1>5, <2>2 DEF Rename
  <2> QED
    BY <2>1, <2>2
<1>6. ASSUME NEW c \in Calls,
             \/ Mkdir(c) \/ Open(c) \/ Write(c) \/ ScanDone(c) \/ Lose(c) \/ Enter(c) \/ Read(c)
             \/ Temp(c) \/ Commit(c) \/ Drop(c) \/ Crash(c)
      PROVE  CommitFenced'
  <2>1. CASE Mkdir(c) \/ Open(c) \/ Write(c) \/ ScanDone(c)
    BY <1>1, <2>1 DEF Mkdir, Open, Write, ScanDone
  <2>2. CASE Lose(c) \/ Enter(c) \/ Read(c) \/ Crash(c)
    BY <1>1, <2>2 DEF Lose, Enter, Read, Crash
  <2>3. CASE Temp(c) \/ Commit(c) \/ Drop(c)
    BY <1>1, <2>3 DEF Temp, Commit, Drop
  <2> QED
    BY <1>6, <2>1, <2>2, <2>3
<1>7. ASSUME NEW c \in Calls, Unlink(c) \/ Rmdir(c) PROVE CommitFenced'
  BY <1>1, <1>7 DEF Unlink, Rmdir, RemoveEmpty
<1>8. ASSUME NEW c \in Calls, Look(c) \/ RmdirStale(c) \/ SweepDone(c) PROVE CommitFenced'
  BY <1>1, <1>3, <1>8 DEF Look, RmdirStale, SweepDone, RemoveEmpty
<1> QED
  BY <1>2, <1>4, <1>5, <1>6, <1>7, <1>8 DEF Next, Step, vars, local, CleanStart, CleanEnd, AgeMarker,
     AgeDirectory, AgeQuarantine, Refresh

\* A call whose owner file was moved away can no longer commit.
THEOREM MutexFenced == Spec => []CommitFenced
<1>1. Init => CommitFenced
  BY DEF Init, CommitFenced
<1> QED
  BY <1>1, InitTyped, NextTyped, FenceNext, PTL DEF Spec

-----------------------------------------------------------------------------
(* What is loaded is what is extended *)

\* While a fenced call still owns the directory no other call can commit.
LEMMA LoadNext ==
  TypeOK /\ OneOwner /\ CommitFenced /\ LoadedIsCurrent /\ [Next]_vars => LoadedIsCurrent'
<1> SUFFICES ASSUME TypeOK, OneOwner, CommitFenced, LoadedIsCurrent, [Next]_vars
             PROVE  LoadedIsCurrent'
  OBVIOUS
<1> USE DEF LoadedIsCurrent, Goto, Settle, directory, marks
<1>0. pc \in [Calls -> Labels] /\ seen \in [Calls -> SUBSET Calls]
  BY DEF TypeOK, CallsOK
<1>1. ASSUME NEW c \in Calls, NEW l, Goto(c, l), l \in {"check", "commit"} => pc[c] \in {"temp", "check"},
             l # "temp", UNCHANGED <<seen, file>>, markers' \subseteq markers \cup {c},
             c \in markers \/ l \notin {"check", "commit"} \/ markers' \subseteq markers
      PROVE  LoadedIsCurrent'
  BY <1>0, <1>1
<1>2. ASSUME UNCHANGED <<pc, seen, file>>, markers' \subseteq markers PROVE LoadedIsCurrent'
  BY <1>2
<1>3. ASSUME NEW c \in Calls, Retry(c), UNCHANGED <<seen, file>>, markers' \subseteq markers
      PROVE  LoadedIsCurrent'
  BY <1>1, <1>3 DEF Retry
<1>4. ASSUME NEW c \in Calls, Read(c) PROVE LoadedIsCurrent'
  <2>1. UNCHANGED <<file, markers>> /\ seen' = [seen EXCEPT ![c] = file]
    BY <1>4 DEF Read
  <2>2. \A d \in Calls \ {c} : pc'[d] = pc[d] /\ seen'[d] = seen[d]
    BY <1>0, <1>4 DEF Read
  <2>3. seen'[c] = file
    BY <1>0, <2>1
  <2> QED
    BY <2>1, <2>2, <2>3
<1>5. ASSUME NEW c \in Calls, Commit(c) PROVE LoadedIsCurrent'
  <2>1. CASE c \in temps
    <3>1. c \in markers
      BY <1>5, <2>1 DEF Commit, CommitFenced
    <3>2. \A d \in markers : d = c
      BY <3>1 DEF OneOwner
    <3>3. markers' = markers /\ pc'[c] = "unlink"
      BY <1>0, <1>5, <2>1 DEF Commit
    <3> QED
      BY <3>2, <3>3
  <2>2. CASE c \notin temps
    BY <1>1, <1>5, <2>2 DEF Commit
  <2> QED
    BY <2>1, <2>2
<1>6. ASSUME NEW c \in Calls, Mkdir(c) \/ Open(c) \/ Write(c) \/ ScanDone(c) \/ Lose(c) \/ Enter(c)
      PROVE  LoadedIsCurrent'
  <2>1. CASE Mkdir(c) \/ Write(c) \/ ScanDone(c)
    BY <1>1, <2>1 DEF Mkdir, Write, ScanDone
  <2>2. CASE Lose(c) \/ Enter(c)
    BY <1>1, <2>2 DEF Lose, Enter
  <2>3. CASE Open(c)
    BY <1>1, <2>3 DEF Open
  <2> QED
    BY <1>6, <2>1, <2>2, <2>3
<1>7. ASSUME NEW c \in Calls, Temp(c) \/ Check(c) \/ Drop(c) \/ Crash(c) PROVE LoadedIsCurrent'
  BY <1>1, <1>7 DEF Temp, Check, Drop, Crash
<1>8. ASSUME NEW c \in Calls, Unlink(c) \/ Rmdir(c) PROVE LoadedIsCurrent'
  <2>1. CASE Unlink(c)
    BY <1>1, <2>1 DEF Unlink
  <2>2. CASE Rmdir(c)
    BY <1>1, <2>2 DEF Rmdir, RemoveEmpty
  <2> QED
    BY <1>8, <2>1, <2>2
<1>9. ASSUME NEW c \in Calls, Look(c) \/ RmdirStale(c) \/ Rename(c) \/ SweepDone(c)
      PROVE  LoadedIsCurrent'
  <2>1. CASE Look(c)
    BY <1>1, <1>3, <2>1 DEF Look
  <2>2. CASE RmdirStale(c) \/ SweepDone(c)
    BY <1>3, <2>2 DEF RmdirStale, SweepDone, RemoveEmpty
  <2>3. CASE Rename(c)
    BY <1>1, <1>3, <2>3 DEF Rename
  <2> QED
    BY <1>9, <2>1, <2>2, <2>3
<1> QED
  BY <1>2, <1>4, <1>5, <1>6, <1>7, <1>8, <1>9 DEF Next, Step, vars, local, CleanStart, CleanEnd,
     AgeMarker, AgeDirectory, AgeQuarantine, Refresh

\* A paused owner never commits over leases it did not load.
THEOREM MutexLoadsCurrent == CreatorAlone => (Spec => []LoadedIsCurrent)
<1> SUFFICES ASSUME CreatorAlone PROVE Spec => []LoadedIsCurrent
  OBVIOUS
<1>1. Init => CommitFenced /\ LoadedIsCurrent
  BY DEF Init, CommitFenced, LoadedIsCurrent
<1>2. Spec => []OneOwner
  BY MutexOneOwner
<1> QED
  BY <1>1, <1>2, InitTyped, NextTyped, FenceNext, LoadNext, PTL DEF Spec

-----------------------------------------------------------------------------
(* The atomic table *)

\* A call is in the file exactly when it has been granted; a call that is about
\* to write saw no conflict, and a refused one did.
AnswerInv ==
  \A c \in Calls :
    /\ c \in file <=> reply[c] = "granted"
    /\ pc[c] \in {"temp", "check", "commit"} =>
         reply[c] = "pending" /\ ~Clash(c, seen[c])
    /\ reply[c] = "refused" => Clash(c, file)
    /\ reply[c] # "pending" => pc[c] \in {"drop", "unlink", "rmdir", "done", "crashed"}
    /\ reply[c] = "pending" => pc[c] \notin {"drop", "unlink", "rmdir", "done"}

\* A file that only grows keeps the conflicts a call has seen.
LEMMA ClashGrows ==
  ASSUME NEW c, NEW S, NEW T, S \subseteq T, Clash(c, S)
  PROVE  Clash(c, T)
BY DEF Clash

\* A commit adds exactly the committing call to the file.
LEMMA CommitAdds ==
  ASSUME TypeOK, CommitFenced, LoadedIsCurrent, NEW c \in Calls, Commit(c), c \in temps
  PROVE  seen[c] = file /\ file' = file \cup {c}
BY DEF Commit, CommitFenced, LoadedIsCurrent

\* Answers and the file stay in step.
LEMMA AnswerNext ==
  TypeOK /\ CommitFenced /\ LoadedIsCurrent /\ AnswerInv /\ [Next]_vars => AnswerInv'
<1> SUFFICES ASSUME TypeOK, CommitFenced, LoadedIsCurrent, AnswerInv, [Next]_vars
             PROVE  AnswerInv'
  OBVIOUS
<1> USE DEF AnswerInv, Goto, Settle
<1>0. /\ pc \in [Calls -> Labels] /\ seen \in [Calls -> SUBSET Calls]
      /\ reply \in [Calls -> {"pending", "granted", "refused", "failed"}]
  BY DEF TypeOK, CallsOK
<1>1. ASSUME UNCHANGED <<pc, seen, file, reply>> PROVE AnswerInv'
  BY <1>1 DEF Clash
<1>2. ASSUME NEW c \in Calls, NEW l, Goto(c, l), UNCHANGED <<seen, file, reply>>,
             l \in {"temp", "check", "commit"} => pc[c] \in {"temp", "check"},
             reply[c] # "pending" => l \in {"drop", "unlink", "rmdir", "done", "crashed"},
             reply[c] = "pending" => l \notin {"drop", "unlink", "rmdir", "done"}
      PROVE  AnswerInv'
  BY <1>0, <1>2 DEF Clash
<1>3. ASSUME NEW c \in Calls, NEW l \in {"drop", "unlink", "done"}, Settle(c, "failed", l),
             reply[c] = "pending", UNCHANGED <<seen, file>>
      PROVE  AnswerInv'
  BY <1>0, <1>3 DEF Clash
<1>4. ASSUME NEW c \in Calls, Retry(c), reply[c] = "pending", UNCHANGED <<seen, file>>
      PROVE  AnswerInv'
  BY <1>2, <1>3, <1>4 DEF Retry
<1>5. ASSUME NEW c \in Calls, Read(c) PROVE AnswerInv'
  <2>1. /\ seen' = [seen EXCEPT ![c] = file] /\ file' = file /\ reply[c] = "pending"
        /\ \A d \in Calls \ {c} : pc'[d] = pc[d] /\ reply'[d] = reply[d] /\ seen'[d] = seen[d]
    BY <1>0, <1>5 DEF Read
  <2>2. \/ Clash(c, file) /\ pc'[c] = "unlink" /\ reply'[c] = "refused"
        \/ ~Clash(c, file) /\ pc'[c] = "temp" /\ reply'[c] = "pending"
    BY <1>0, <1>5, <2>1 DEF Read
  <2>3. seen'[c] = file
    BY <1>0, <2>1
  <2>4. Clash(c, file) <=> Clash(c, seen'[c])
    BY <2>3
  <2>5. \A d \in Calls : Clash(d, file') <=> Clash(d, file)
    BY <2>1
  <2>6. \A d \in Calls \ {c} : Clash(d, seen'[d]) <=> Clash(d, seen[d])
    BY <2>1
  <2> QED
    BY <2>1, <2>2, <2>4, <2>5, <2>6
<1>6. ASSUME NEW c \in Calls, Commit(c) PROVE AnswerInv'
  <2>1. CASE c \in temps
    <3>1. /\ file' = file \cup {c} /\ seen' = seen /\ reply'[c] = "granted" /\ pc'[c] = "unlink"
          /\ \A d \in Calls \ {c} : pc'[d] = pc[d] /\ reply'[d] = reply[d]
      BY <1>0, <1>6, <2>1, CommitAdds DEF Commit
    <3>2. \A d \in Calls : Clash(d, file) => Clash(d, file')
      BY <3>1, ClashGrows
    <3>3. \A d \in Calls : Clash(d, seen'[d]) <=> Clash(d, seen[d])
      BY <3>1
    <3> QED
      BY <3>1, <3>2, <3>3
  <2>2. CASE c \notin temps
    BY <1>3, <1>6, <2>2 DEF Commit
  <2> QED
    BY <2>1, <2>2
<1>7. ASSUME NEW c \in Calls, Lose(c) \/ Temp(c) PROVE AnswerInv'
  <2>1. CASE Lose(c)
    BY <1>0, <1>3, <2>1 DEF Lose
  <2>2. CASE Temp(c) /\ lockDir
    BY <1>2, <2>2 DEF Temp
  <2>3. CASE Temp(c) /\ ~lockDir
    BY <1>3, <2>3 DEF Temp
  <2> QED
    BY <1>7, <2>1, <2>2, <2>3
<1>8. ASSUME NEW c \in Calls,
             Mkdir(c) \/ Open(c) \/ Write(c) \/ ScanDone(c) \/ Enter(c) \/ Check(c) \/ Drop(c)
      PROVE  AnswerInv'
  <2>1. CASE Mkdir(c) \/ Open(c) \/ Write(c) \/ ScanDone(c)
    BY <1>2, <2>1 DEF Mkdir, Open, Write, ScanDone
  <2>2. CASE Enter(c)
    <3>1. reply[c] = "pending"
      BY <1>0, <2>2 DEF Enter
    <3>2. Goto(c, "read") /\ UNCHANGED <<seen, file, reply>>
      BY <2>2 DEF Enter
    <3> QED
      BY <1>2, <3>1, <3>2
  <2>3. CASE Check(c) \/ Drop(c)
    BY <1>2, <2>3 DEF Check, Drop
  <2> QED
    BY <1>8, <2>1, <2>2, <2>3
<1>9. ASSUME NEW c \in Calls, Unlink(c) \/ Rmdir(c) \/ Crash(c) PROVE AnswerInv'
  <2>1. CASE Unlink(c)
    BY <1>0, <1>2, <2>1 DEF Unlink
  <2>2. CASE Rmdir(c)
    BY <1>0, <1>2, <2>2 DEF Rmdir
  <2>3. CASE Crash(c)
    BY <1>0, <1>2, <2>3 DEF Crash
  <2> QED
    BY <1>9, <2>1, <2>2, <2>3
<1>10. ASSUME NEW c \in Calls, Look(c) \/ RmdirStale(c) \/ Rename(c) \/ SweepDone(c)
       PROVE  AnswerInv'
  <2>1. reply[c] = "pending"
    BY <1>0, <1>10 DEF Look, RmdirStale, Rename, SweepDone
  <2>2. CASE Look(c)
    BY <1>2, <1>4, <2>1, <2>2 DEF Look
  <2>3. CASE RmdirStale(c) \/ SweepDone(c)
    BY <1>4, <2>1, <2>3 DEF RmdirStale, SweepDone
  <2>4. CASE Rename(c)
    BY <1>2, <1>4, <2>1, <2>4 DEF Rename
  <2> QED
    BY <1>10, <2>2, <2>3, <2>4
<1> QED
  BY <1>1, <1>5, <1>6, <1>7, <1>8, <1>9, <1>10 DEF Next, Step, vars, local, CleanStart, CleanEnd,
     AgeMarker, AgeDirectory, AgeQuarantine, Refresh

\* Every step of the mutex is a step of the table or invisible in it.
LEMMA TableStep ==
  TypeOK /\ CommitFenced /\ LoadedIsCurrent /\ AnswerInv /\ [Next]_vars =>
    [Table!TableNext]_(Table!tableVars)
<1> SUFFICES ASSUME TypeOK, CommitFenced, LoadedIsCurrent, AnswerInv, [Next]_vars
             PROVE  Table!TableNext \/ (file' = file /\ answered' = answered)
  BY DEF Table!tableVars
<1> DEFINE Stutter == file' = file /\ answered' = answered
<1> USE DEF Goto, Settle
<1>0. /\ pc \in [Calls -> Labels] /\ seen \in [Calls -> SUBSET Calls]
      /\ reply \in [Calls -> {"pending", "granted", "refused", "failed"}]
  BY DEF TypeOK, CallsOK
<1>1. ASSUME UNCHANGED <<pc, file, reply>> PROVE Stutter
  BY <1>1 DEF answered
<1>2. ASSUME NEW c \in Calls, NEW l, Goto(c, l), l \notin {"done", "crashed"},
             pc[c] \notin {"done", "crashed"}, file' = file,
             \A d \in Calls \ {c} : reply'[d] = reply[d]
      PROVE  Stutter
  <2>1. \A d \in Calls \ {c} : pc'[d] = pc[d]
    BY <1>0, <1>2
  <2>2. pc'[c] = l
    BY <1>0, <1>2
  <2> QED
    BY <1>2, <2>1, <2>2 DEF answered
<1>3. ASSUME NEW c \in Calls, Goto(c, "done"), reply'[c] # "pending",
             pc[c] \notin {"done", "crashed"}, file' = file,
             \A d \in Calls \ {c} : reply'[d] = reply[d],
             reply' \in [Calls -> {"pending", "granted", "refused", "failed"}],
             c \in file <=> reply'[c] = "granted",
             reply'[c] = "refused" => Clash(c, file)
      PROVE  Table!TableNext
  <2>1. (\A d \in Calls \ {c} : pc'[d] = pc[d]) /\ pc'[c] = "done"
    BY <1>0, <1>3
  <2>2. answered' = [answered EXCEPT ![c] = reply'[c]] /\ answered[c] = "pending"
    BY <1>3, <2>1 DEF answered
  <2>3. Table!Answer(c, reply'[c])
    BY <1>3, <2>2 DEF Table!Answer
  <2>4. CASE reply'[c] = "granted"
    BY <1>3, <2>3, <2>4 DEF Table!TableNext, Table!Grant
  <2>5. CASE reply'[c] = "refused"
    BY <1>3, <2>3, <2>5 DEF Table!TableNext, Table!Refuse, Table!Clash, Clash
  <2>6. CASE reply'[c] = "failed"
    BY <1>3, <2>3, <2>6 DEF Table!TableNext, Table!Fail
  <2> QED
    BY <1>3, <2>4, <2>5, <2>6
<1>4. ASSUME NEW c \in Calls, Retry(c), pc[c] \in {"look", "rmdirStale", "rename", "sweep"}, file' = file
      PROVE  Table!TableNext \/ Stutter
  <2>1. reply[c] = "pending" /\ c \notin file
    BY <1>4 DEF AnswerInv
  <2>2. CASE tries[c] = Retries[c]
    <3>1. Goto(c, "done") /\ reply' = [reply EXCEPT ![c] = "failed"]
      BY <1>4, <2>2 DEF Retry
    <3>2. /\ reply'[c] = "failed" /\ \A d \in Calls \ {c} : reply'[d] = reply[d]
          /\ reply' \in [Calls -> {"pending", "granted", "refused", "failed"}]
      BY <1>0, <3>1
    <3> QED
      BY <1>3, <1>4, <2>1, <3>1, <3>2
  <2>3. CASE tries[c] # Retries[c]
    <3>1. Goto(c, "mkdir") /\ reply' = reply
      BY <1>4, <2>3 DEF Retry
    <3>2. \A d \in Calls \ {c} : reply'[d] = reply[d]
      BY <3>1
    <3>3. pc[c] \notin {"done", "crashed"} /\ file' = file
      BY <1>4
    <3> QED
      BY <1>2, <3>1, <3>2, <3>3
  <2> QED
    BY <2>2, <2>3
<1>5. ASSUME NEW c \in Calls, Commit(c) PROVE Table!TableNext \/ Stutter
  <2>1. CASE c \in temps
    <3>1. file' = file \cup {c} /\ seen[c] = file
      BY <1>5, <2>1, CommitAdds
    <3>2. /\ c \notin file /\ ~Clash(c, file) /\ pc[c] = "commit"
      BY <1>5, <3>1 DEF Commit, AnswerInv
    <3>3. (\A d \in Calls \ {c} : pc'[d] = pc[d] /\ reply'[d] = reply[d]) /\ pc'[c] = "unlink"
      BY <1>0, <1>5, <2>1 DEF Commit
    <3>4. answered' = answered /\ answered[c] = "pending"
      BY <3>2, <3>3 DEF answered
    <3> QED
      BY <3>1, <3>2, <3>4 DEF Table!TableNext, Table!Record, Table!Clash, Clash
  <2>2. CASE c \notin temps
    <3>1. /\ Goto(c, "unlink") /\ file' = file /\ pc[c] = "commit"
          /\ \A d \in Calls \ {c} : reply'[d] = reply[d]
      BY <1>0, <1>5, <2>2 DEF Commit
    <3> QED
      BY <1>2, <3>1
  <2> QED
    BY <2>1, <2>2
<1>6. ASSUME NEW c \in Calls, Lose(c) \/ Read(c) \/ Temp(c) PROVE Stutter
  <2>1. \A d \in Calls \ {c} : reply'[d] = reply[d]
    BY <1>0, <1>6 DEF Lose, Read, Temp
  <2>2. CASE Lose(c)
    <3>1. Goto(c, "drop") \/ Goto(c, "unlink")
      BY <2>2 DEF Lose
    <3> QED
      BY <1>2, <2>1, <2>2, <3>1 DEF Lose
  <2>3. CASE Read(c)
    BY <1>2, <2>1, <2>3 DEF Read
  <2>4. CASE Temp(c)
    BY <1>2, <2>1, <2>4 DEF Temp
  <2> QED
    BY <1>6, <2>2, <2>3, <2>4
<1>7. ASSUME NEW c \in Calls,
             \/ Mkdir(c) \/ Open(c) \/ Write(c) \/ ScanDone(c) \/ Enter(c) \/ Check(c) \/ Drop(c)
      PROVE  Stutter
  <2>1. CASE Mkdir(c)
    BY <1>2, <2>1 DEF Mkdir
  <2>2. CASE Open(c) \/ Write(c)
    BY <1>2, <2>2 DEF Open, Write
  <2>3. CASE ScanDone(c)
    BY <1>2, <2>3 DEF ScanDone
  <2>4. CASE Enter(c) \/ Check(c) \/ Drop(c)
    BY <1>2, <2>4 DEF Enter, Check, Drop
  <2> QED
    BY <1>7, <2>1, <2>2, <2>3, <2>4
<1>8. ASSUME NEW c \in Calls, Unlink(c) PROVE Table!TableNext \/ Stutter
  <2>1. file' = file /\ reply' = reply /\ pc[c] \in {"unlink", "unlinkBack"}
    BY <1>8 DEF Unlink
  <2>2. CASE Held(c) \/ pc[c] = "unlinkBack"
    BY <1>2, <1>8, <2>1, <2>2 DEF Unlink
  <2>3. CASE ~Held(c) /\ pc[c] = "unlink"
    <3>1. Goto(c, "done")
      BY <1>8, <2>3 DEF Unlink
    <3> QED
      BY <1>0, <1>3, <2>1, <2>3, <3>1 DEF AnswerInv
  <2> QED
    BY <2>1, <2>2, <2>3
<1>9. ASSUME NEW c \in Calls, Rmdir(c) PROVE Table!TableNext \/ Stutter
  <2>1. file' = file /\ reply' = reply
    BY <1>9 DEF Rmdir
  <2>2. CASE pc[c] = "rmdir"
    <3>1. Goto(c, "done")
      BY <1>9, <2>2 DEF Rmdir
    <3> QED
      BY <1>0, <1>3, <2>1, <2>2, <3>1 DEF AnswerInv
  <2>3. CASE pc[c] # "rmdir"
    <3>1. /\ pc[c] \in {"rmdirBack", "rmdirNew"}
          /\ Goto(c, IF pc[c] = "rmdirBack" THEN "rmdirNew" ELSE "look")
      BY <1>9, <2>3 DEF Rmdir
    <3>2. \/ pc[c] = "rmdirBack" /\ Goto(c, "rmdirNew")
          \/ pc[c] = "rmdirNew" /\ Goto(c, "look")
      BY <3>1
    <3> QED
      BY <1>2, <2>1, <3>2
  <2> QED
    BY <2>2, <2>3
<1>10. ASSUME NEW c \in Calls, Crash(c) PROVE Table!TableNext
  <2>1. /\ file' = file /\ reply' = reply /\ pc'[c] = "crashed" /\ pc[c] \notin {"done", "crashed"}
        /\ \A d \in Calls \ {c} : pc'[d] = pc[d]
    BY <1>0, <1>10 DEF Crash
  <2>2. answered' = [answered EXCEPT ![c] = "crashed"] /\ answered[c] = "pending"
    BY <2>1 DEF answered
  <2> QED
    BY <2>1, <2>2 DEF Table!TableNext, Table!Die, Table!Answer
<1>11. ASSUME NEW c \in Calls, Look(c) \/ RmdirStale(c) \/ Rename(c) \/ SweepDone(c)
       PROVE  Table!TableNext \/ Stutter
  <2>1. CASE Look(c)
    BY <1>2, <1>4, <2>1 DEF Look
  <2>2. CASE RmdirStale(c) \/ SweepDone(c)
    BY <1>4, <2>2 DEF RmdirStale, SweepDone
  <2>3. CASE Rename(c)
    BY <1>2, <1>4, <2>3 DEF Rename
  <2> QED
    BY <1>11, <2>1, <2>2, <2>3
<1> QED
  BY <1>1, <1>5, <1>6, <1>7, <1>8, <1>9, <1>10, <1>11 DEF Next, Step, vars, local, CleanStart,
     CleanEnd, AgeMarker, AgeDirectory, AgeQuarantine, Refresh

\* With concurrent processes, pauses, recoveries and crashes, acquire is the
\* atomic table: no lost lease, no conflicting lease, no lying answer.
THEOREM MutexImplementsTable == CreatorAlone => (Spec => TableSpec)
<1> SUFFICES ASSUME CreatorAlone PROVE Spec => TableSpec
  OBVIOUS
<1>1. Init => Table!TableInit
  BY DEF Init, Table!TableInit, answered
<1>2. Init => CommitFenced /\ AnswerInv
  BY DEF Init, CommitFenced, AnswerInv
<1>3. Spec => []LoadedIsCurrent
  BY MutexLoadsCurrent
<1> QED
  BY <1>1, <1>2, <1>3, InitTyped, NextTyped, FenceNext, AnswerNext, TableStep, PTL
     DEF Spec, TableSpec, Table!TableSpec
=============================================================================
