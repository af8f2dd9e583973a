------------------------- MODULE StandBackup_proofs -------------------------
(***************************************************************************)
(* Safety of StandBackup for any items, any number of backups and of kinds  *)
(* of fault.                                                               *)
(*                                                                         *)
(* The invariants follow the data: from the stand into the parts of a set   *)
(* while backup.sh takes them, along with a set as long as it has a dump,   *)
(* and out of the set again while restore.sh puts it in place.              *)
(***************************************************************************)
EXTENDS StandBackup, TLAPS

-----------------------------------------------------------------------------
(* The inductive invariant.                                                *)

\* The scripts keep out of each other's way as far as they look.
ScriptsInv ==
    /\ backup.at # "idle" => backup.id \in Ids /\ service /\ restore.at = "idle"
    /\ deletion.at # "idle" =>
           deletion.id \in Ids /\ deletion.id < backup.id /\ restore.at = "idle"
    /\ restore.at # "idle" => restore.id \in Ids /\ Restored.dump # "none"
    /\ restore.at \in {"list", "indices", "engine", "start"} => ~service
    /\ restore.at = "rows" => service
    /\ ~service => written = {}

\* How far the parts of the set are that backup.sh is at.
ProgressInv ==
    /\ \A id \in Ids : id > backup.id => set[id] = NoSet
    /\ \A id \in Ids : set[id].dump # "none" => "running" \notin {set[id].web, set[id].zeebe}
    /\ backup.at # "idle" => Taking.dump = "none"
    /\ backup.at \in {"sync", "pause", "history"} => Taking.web = "none"
    /\ backup.at \in {"sync", "pause", "history", "history-wait", "dated", "runtime"} =>
           Taking.zeebe = "none" /\ Taking.engine = Empty
    /\ backup.at \in {"dated", "runtime", "runtime-wait", "resume", "dump"} => Taking.web = "there"
    /\ backup.at \in {"resume", "dump"} => Taking.zeebe = "there"

\* The exporter is behind the engine, in the stand and in every set.
Behind(a, b)        == a = "absent" \/ b = "done" \/ a = b
AllBehind(as, bs)   == \A i \in Items : Behind(as[i], bs[i])
OrderInv ==
    /\ AllBehind(acked, engine)
    /\ \A id \in Ids : AllBehind(set[id].acked, set[id].engine)

\* Between its pause and its resume the script has the exporter paused, and
\* but for some faults nothing else has.
InPause   == Paused \ {"trap"}
PauseInv ==
    /\ backup.at \in InPause => exporting = "paused"
    /\ Never({"pause unanswered", "resume failed", "killed"}) =>
           exporting = "running" \/ (backup.at \in Paused /\ backup.paused)

\* A dump is the sign of a whole set.
Whole(part)  == part.web = "there" /\ part.zeebe = "there"
Deleting(id) == deletion.at # "idle" /\ deletion.id = id
WholeInv ==
    Never({"deletion failed", "killed"}) =>
        \A id \in Ids : set[id].dump # "none" => Whole(set[id]) \/ Deleting(id)

\* What was acknowledged is in the index: in the stand, between the two parts
\* of the set that is taken, in every set with a dump, and in a restored stand.
Indexed(as, es, xs) == \A i \in Items : as[i] = es[i] => xs[i] = es[i]
IndexInv ==
    Never({"snapshot not restored", "deletion failed", "killed"}) =>
        /\ service \/ restore.at = "start" => Indexed(acked, engine, index)
        /\ backup.at \in InPause /\ Taking.web = "there" /\ Taking.zeebe # "there" =>
               Indexed(acked, engine, Taking.index)
        /\ backup.at \in InPause \cup {"dump"} /\ Whole(Taking) =>
               Indexed(Taking.acked, Taking.engine, Taking.index)
        /\ \A id \in Ids : set[id].dump # "none" =>
               Indexed(set[id].acked, set[id].engine, set[id].index) \/ Deleting(id)
        /\ restore.at = "engine" => index = Restored.index

\* What is done has its row: in the stand, in the parts of the set that is
\* taken beside the rows there will be, in every set with a dump; and in a
\* stand that waits for its rows, what is done has one in the dump or since.
Covered(es, rs) == \A i \in Items : es[i] = "done" => i \in rs \cup dropped
RowsInv ==
    Never({"dump not restored", "killed"}) =>
        /\ service /\ restore.at = "idle" => Covered(engine, rows)
        /\ written \subseteq rows \cup dropped
        /\ backup.at # "idle" => Covered(Taking.engine, rows)
        /\ \A id \in Ids : set[id].dump = "there" => Covered(set[id].engine, set[id].rows)
        /\ restore.at = "rows" => written \subseteq restore.late
        /\ restore.at \in {"start", "rows"} /\ Restored.dump = "there" =>
               Covered(engine, Restored.rows \cup restore.late)

-----------------------------------------------------------------------------
(* Types.                                                                  *)

\* The conjuncts of TypeOK by the variables they are about.
StandTypes ==
    /\ engine \in Stages /\ acked \in Stages /\ index \in Stages
    /\ rows \subseteq Items /\ written \subseteq Items /\ dropped \subseteq Items
    /\ exporting \in {"running", "paused"} /\ service \in BOOLEAN
ScriptTypes ==
    /\ backup \in [at : Paused \cup {"idle", "sync", "pause", "dump"},
                   id : 0 .. MaxId, paused : BOOLEAN]
    /\ backup.paused => backup.at \in Paused
    /\ deletion \in [at : {"idle", "web", "dated", "zeebe", "dump"}, id : 0 .. MaxId]
    /\ restore \in [at : {"idle", "wipe", "list", "indices", "engine", "start", "rows"},
                    id : 0 .. MaxId, late : SUBSET Items]

LEMMA TypeParts ==
    TypeOK <=> StandTypes /\ ScriptTypes /\ set \in [Ids -> Sets] /\ faults \subseteq Kinds
BY DEF TypeOK, StandTypes, ScriptTypes

LEMMA EmptyType == Empty \in Stages /\ NoSet \in Sets
BY DEF Empty, Stages, NoSet, Sets, Parts

LEMMA FaultIs ==
    ASSUME NEW kind \in Kinds, faults \subseteq Kinds, Fault(kind)
    PROVE  faults' = faults \cup {kind} /\ faults' \subseteq Kinds
BY DEF Fault

\* A part of a set is replaced.
LEMMA SetWith ==
    ASSUME set \in [Ids -> Sets], NEW id \in Ids, NEW part, set' = [set EXCEPT ![id] = part]
    PROVE  /\ set'[id] = part
           /\ \A other \in Ids \ {id} : set'[other] = set[other]
           /\ part \in Sets => set' \in [Ids -> Sets]
OBVIOUS

LEMMA WorkTypes ==
    ASSUME TypeOK, ScriptsInv, Work
    PROVE  TypeOK'
<1>1. StandTypes /\ ScriptTypes BY TypeParts
<1>2. UNCHANGED <<set, backup, deletion, faults, exporting, service>>
  BY DEF Work, Begin, WriteRow, Finish, Export, scripts
<1>3. PICK i \in Items : Begin(i) \/ WriteRow(i) \/ Finish(i) \/ Export(i) BY DEF Work
<1>4. StandTypes'
  <2>1. CASE Begin(i) BY <1>1, <2>1 DEF Begin, StandTypes, Stages, scripts
  <2>2. CASE WriteRow(i) BY <1>1, <2>2 DEF WriteRow, StandTypes, Stages, scripts
  <2>3. CASE Finish(i) BY <1>1, <2>3 DEF Finish, StandTypes, Stages, scripts
  <2>4. CASE Export(i) BY <1>1, <2>4 DEF Export, StandTypes, Stages, scripts
  <2>5. QED BY <1>3, <2>1, <2>2, <2>3, <2>4
<1>5. ScriptTypes'
  <2>1. restore' = restore \/ restore' = [restore EXCEPT !.late = @ \cup {i}]
    BY <1>3 DEF Begin, WriteRow, Finish, Export
  <2>2. QED BY <1>1, <1>2, <2>1 DEF ScriptTypes
<1>6. QED BY <1>1, <1>2, <1>4, <1>5, TypeParts DEF TypeOK, StandTypes, ScriptTypes

LEMMA BackupTypes ==
    ASSUME TypeOK, ScriptsInv, BackupScript
    PROVE  TypeOK'
<1>1. /\ StandTypes /\ ScriptTypes /\ set \in [Ids -> Sets] /\ faults \subseteq Kinds
  BY TypeParts
<1>2. UNCHANGED <<stand, deletion, restore, dropped>>
  BY DEF BackupScript, BackupBegins, Synced, SyncTimesOut, Pause, PauseUnanswered,
         RequestHistory, TakeDated, RequestRuntime, Polled, PollFails, Resume, ResumeFails,
         Trap, TrapFails, Dump, DumpFails, BesidesBackup
<1>3. exporting' \in {exporting, "running", "paused"}
  BY DEF BackupScript, BackupBegins, Synced, SyncTimesOut, Pause, PauseUnanswered,
         RequestHistory, TakeDated, RequestRuntime, Polled, PollFails, Resume, ResumeFails,
         Trap, TrapFails, Dump, DumpFails
<1>4. StandTypes' BY <1>1, <1>2, <1>3 DEF StandTypes, stand
<1>5. faults' \subseteq Kinds
  BY <1>1, FaultIs DEF BackupScript, BackupBegins, Synced, SyncTimesOut, Pause, PauseUnanswered,
         RequestHistory, TakeDated, RequestRuntime, Polled, PollFails, Resume, ResumeFails,
         Trap, TrapFails, Dump, DumpFails, Undisturbed, Kinds
<1>6. ScriptTypes'
  <2>1. ASSUME BackupBegins PROVE ScriptTypes'
    BY <1>1, <1>2, <2>1, BackupAssumption DEF ScriptTypes, BackupBegins, Paused
  <2>2. ASSUME ~BackupBegins
        PROVE  \E step \in Paused \cup {"idle", "sync", "pause", "dump"}, noted \in BOOLEAN :
                   /\ noted => step \in Paused
                   /\ backup' = [backup EXCEPT !.at = step, !.paused = noted]
    <3>1. backup.paused \in BOOLEAN /\ (backup.paused => backup.at \in Paused)
      BY <1>1 DEF ScriptTypes
    <3>2. backup' = [backup EXCEPT !.at = backup'.at, !.paused = backup'.paused]
      BY <1>1, <2>2
         DEF ScriptTypes, BackupScript, Synced, SyncTimesOut, Pause, PauseUnanswered,
             RequestHistory, TakeDated, RequestRuntime, Polled, PollFails, Resume, ResumeFails,
             Trap, TrapFails, Dump, DumpFails, BackupTo
    <3>3. /\ backup'.at \in Paused \cup {"idle", "sync", "pause", "dump"}
          /\ backup'.paused \in BOOLEAN /\ (backup'.paused => backup'.at \in Paused)
      BY <1>1, <2>2, <3>1
         DEF ScriptTypes, BackupScript, Synced, SyncTimesOut, Pause, PauseUnanswered,
             RequestHistory, TakeDated, RequestRuntime, Polled, PollFails, Resume, ResumeFails,
             Trap, TrapFails, Dump, DumpFails, BackupTo, BackupAt, Paused
    <3>4. QED BY <3>2, <3>3
  <2>3. QED BY <1>1, <1>2, <2>1, <2>2 DEF ScriptTypes
<1>7. set' \in [Ids -> Sets]
  <2>1. CASE UNCHANGED set BY <1>1, <2>1
  <2>2. ASSUME ~UNCHANGED set
        PROVE  \E part \in Sets : backup.id \in Ids /\ set' = [set EXCEPT ![backup.id] = part]
    <3>1. RequestHistory \/ TakeDated \/ RequestRuntime \/ Dump \/ DumpFails
      BY <2>2 DEF BackupScript, BackupBegins, Synced, SyncTimesOut, Pause, PauseUnanswered,
         Polled, PollFails, Resume, ResumeFails, Trap, TrapFails
    <3>2. backup.id \in Ids
      BY <3>1 DEF ScriptsInv, RequestHistory, TakeDated, RequestRuntime, Dump, DumpFails, BackupAt
    <3>3. Taking \in Sets BY <1>1, <3>2 DEF Taking
    <3>4. /\ \A p \in Parts : [Taking EXCEPT !.web = p] \in Sets /\ [Taking EXCEPT !.zeebe = p] \in Sets
                              /\ [Taking EXCEPT !.dump = p] \in Sets
          /\ \A b \in BOOLEAN : [Taking EXCEPT !.dated = b] \in Sets
          /\ [Taking EXCEPT !.dump = "there", !.rows = rows] \in Sets
      BY <1>1, <3>3 DEF Sets, StandTypes, Parts
    <3>5. QED
      BY <3>1, <3>2, <3>4 DEF RequestHistory, TakeDated, RequestRuntime, Dump, DumpFails, Take, Parts
  <2>3. QED BY <1>1, <2>1, <2>2, SetWith
<1>8. QED BY <1>4, <1>5, <1>6, <1>7, TypeParts DEF TypeOK, StandTypes, ScriptTypes

\* What the cluster has taken, or has failed to take.
Took(id, part) ==
    \/ part = [set[id] EXCEPT !.web = "there", !.index = index]
    \/ part = [set[id] EXCEPT !.zeebe = "there", !.engine = engine, !.acked = acked]
    \/ part = [set[id] EXCEPT !.web = "failed"]
    \/ part = [set[id] EXCEPT !.zeebe = "failed"]

LEMMA ClusterTakes ==
    ASSUME TypeOK, NEW id \in Ids, TakeHistory(id) \/ TakeRuntime(id)
    PROVE  /\ \E part : Took(id, part) /\ set' = [set EXCEPT ![id] = part]
           /\ faults' = faults \/ faults' = faults \cup {"backup failed"}
           /\ UNCHANGED <<stand, exporting, backup, deletion, restore, dropped>>
<1>1. set \in [Ids -> Sets] /\ faults \subseteq Kinds BY DEF TypeOK
<1>2. CASE TakeHistory(id)
  <2>1. \/ set' = [set EXCEPT ![id] = [set[id] EXCEPT !.web = "there", !.index = index]]
        \/ set' = [set EXCEPT ![id] = [set[id] EXCEPT !.web = "failed"]]
    BY <1>1, <1>2 DEF TakeHistory, Sets
  <2>2. QED BY <1>2, <2>1 DEF TakeHistory, Took, Fault
<1>3. CASE TakeRuntime(id)
  <2>1. \/ set' = [set EXCEPT ![id] = [set[id] EXCEPT !.zeebe = "there", !.engine = engine,
                                                       !.acked = acked]]
        \/ set' = [set EXCEPT ![id] = [set[id] EXCEPT !.zeebe = "failed"]]
    BY <1>1, <1>3 DEF TakeRuntime, Sets
  <2>2. QED BY <1>3, <2>1 DEF TakeRuntime, Took, Fault
<1>4. QED BY <1>2, <1>3

LEMMA ClusterTypes ==
    ASSUME TypeOK, Cluster
    PROVE  TypeOK'
<1>1. /\ StandTypes /\ ScriptTypes /\ set \in [Ids -> Sets] /\ faults \subseteq Kinds
  BY TypeParts
<1>2. PICK id \in Ids : TakeHistory(id) \/ TakeRuntime(id) BY DEF Cluster
<1>3. PICK part : Took(id, part) /\ set' = [set EXCEPT ![id] = part] BY <1>2, ClusterTakes
<1>4. part \in Sets
  <2>1. set[id] \in Sets BY <1>1
  <2>2. {"there", "failed"} \subseteq Parts /\ {engine, acked, index} \subseteq Stages
    BY <1>1 DEF Parts, StandTypes
  <2>3. [set[id] EXCEPT !.web = "there", !.index = index] \in Sets BY <2>1, <2>2 DEF Sets
  <2>4. [set[id] EXCEPT !.zeebe = "there", !.engine = engine, !.acked = acked] \in Sets
    BY <2>1, <2>2 DEF Sets
  <2>5. [set[id] EXCEPT !.web = "failed"] \in Sets /\ [set[id] EXCEPT !.zeebe = "failed"] \in Sets
    BY <2>1, <2>2 DEF Sets
  <2>6. QED BY <1>3, <2>3, <2>4, <2>5 DEF Took
<1>5. set' \in [Ids -> Sets] BY <1>1, <1>3, <1>4
<1>6. faults' \subseteq Kinds BY <1>1, <1>2, ClusterTakes DEF Kinds
<1>7. UNCHANGED <<stand, exporting, backup, deletion, restore, dropped>>
  BY <1>2, ClusterTakes
<1>8. QED BY <1>1, <1>5, <1>6, <1>7 DEF TypeOK, StandTypes, ScriptTypes, stand

\* A part that is deleted, and the step of the script that goes with it.
DeletedTo(part, step) ==
    \/ part = [set[deletion.id] EXCEPT !.web = "none", !.index = Empty] /\ step = "dated"
    \/ part = [set[deletion.id] EXCEPT !.dated = FALSE] /\ step = "zeebe"
    \/ /\ part = [set[deletion.id] EXCEPT !.zeebe = "none", !.engine = Empty, !.acked = Empty]
       /\ step = "dump"
    \/ part = [set[deletion.id] EXCEPT !.dump = "none", !.rows = {}] /\ step = "idle"

LEMMA DeletionDoes ==
    ASSUME DeletionScript
    PROVE  /\ UNCHANGED <<stand, exporting, backup, restore, dropped>>
           /\ \/ \E id \in Ids : DeletionBegins(id)
              \/ /\ deletion.at # "idle"
                 /\ UNCHANGED faults
                 /\ \E part, step :
                        /\ DeletedTo(part, step)
                        /\ set' = [set EXCEPT ![deletion.id] = part]
                        /\ deletion' = [deletion EXCEPT !.at = step]
              \/ DeletionFails
<1>1. CASE \E id \in Ids : DeletionBegins(id) BY <1>1 DEF DeletionBegins, BesidesDeletion
<1>2. CASE DeleteWeb
  BY <1>2 DEF DeleteWeb, Delete, DeletionTo, DeletedTo, Undisturbed, BesidesDeletion
<1>3. CASE DeleteDated
  BY <1>3 DEF DeleteDated, Delete, DeletionTo, DeletedTo, Undisturbed, BesidesDeletion
<1>4. CASE DeleteZeebe
  BY <1>4 DEF DeleteZeebe, Delete, DeletionTo, DeletedTo, Undisturbed, BesidesDeletion
<1>5. CASE DeleteDump
  BY <1>5 DEF DeleteDump, Delete, DeletionTo, DeletedTo, Undisturbed, BesidesDeletion
<1>6. CASE DeletionFails BY <1>6 DEF DeletionFails, BesidesDeletion
<1>7. QED BY <1>1, <1>2, <1>3, <1>4, <1>5, <1>6 DEF DeletionScript

LEMMA DeletionTypes ==
    ASSUME TypeOK, ScriptsInv, DeletionScript
    PROVE  TypeOK'
<1>1. /\ StandTypes /\ ScriptTypes /\ set \in [Ids -> Sets] /\ faults \subseteq Kinds
  BY TypeParts
<1>2. UNCHANGED <<stand, exporting, backup, restore, dropped>> BY DeletionDoes
<1>3. ScriptTypes' /\ set' \in [Ids -> Sets] /\ faults' \subseteq Kinds
  <2>1. CASE \E id \in Ids : DeletionBegins(id)
    BY <1>1, <1>2, <2>1, BackupAssumption DEF DeletionBegins, ScriptTypes, Ids, Undisturbed
  <2>2. CASE DeletionFails
    <3>1. faults' \subseteq Kinds BY <1>1, <2>2, FaultIs DEF DeletionFails, Kinds
    <3>2. QED BY <1>1, <1>2, <2>2, <3>1 DEF DeletionFails, DeletionTo, ScriptTypes
  <2>3. ASSUME deletion.at # "idle", UNCHANGED faults, NEW part, NEW step, DeletedTo(part, step),
               set' = [set EXCEPT ![deletion.id] = part],
               deletion' = [deletion EXCEPT !.at = step]
        PROVE  ScriptTypes' /\ set' \in [Ids -> Sets] /\ faults' \subseteq Kinds
    <3>1. deletion.id \in Ids BY <2>3 DEF ScriptsInv
    <3>2. part \in Sets
      <4>1. set[deletion.id] \in Sets /\ "none" \in Parts /\ Empty \in Stages
        BY <1>1, <3>1, EmptyType DEF Parts
      <4>2. /\ [set[deletion.id] EXCEPT !.web = "none", !.index = Empty] \in Sets
            /\ [set[deletion.id] EXCEPT !.dated = FALSE] \in Sets
        BY <4>1 DEF Sets
      <4>3. [set[deletion.id] EXCEPT !.zeebe = "none", !.engine = Empty, !.acked = Empty] \in Sets
        BY <4>1 DEF Sets
      <4>4. [set[deletion.id] EXCEPT !.dump = "none", !.rows = {}] \in Sets
        BY <4>1 DEF Sets
      <4>5. QED BY <2>3, <4>2, <4>3, <4>4 DEF DeletedTo
    <3>3. step \in {"idle", "dated", "zeebe", "dump"} BY <2>3 DEF DeletedTo
    <3>4. QED BY <1>1, <1>2, <2>3, <3>1, <3>2, <3>3 DEF ScriptTypes
  <2>4. QED BY <2>1, <2>2, <2>3, DeletionDoes
<1>4. QED BY <1>1, <1>2, <1>3 DEF TypeOK, StandTypes, ScriptTypes, stand

\* What the wipe leaves of a set whose parts the cluster was taking.
Lost(part) ==
    [part EXCEPT !.web = IF @ = "running" THEN "failed" ELSE @,
                 !.zeebe = IF @ = "running" THEN "failed" ELSE @]

LEMMA WipeTypes ==
    ASSUME TypeOK, Wipe
    PROVE  /\ TypeOK'
           /\ \A id \in Ids : set'[id] = Lost(set[id])
<1>1. /\ StandTypes /\ ScriptTypes /\ set \in [Ids -> Sets] /\ faults \subseteq Kinds
  BY TypeParts
<1>2. set' = [id \in Ids |-> Lost(set[id])] BY <1>1 DEF Wipe, Lost, Sets
<1>3. \A id \in Ids : Lost(set[id]) \in Sets
  <2>1. TAKE id \in Ids
  <2>2. set[id] \in Sets BY <1>1
  <2>3. QED BY <2>2 DEF Lost, Sets, Parts
<1>4. StandTypes' BY <1>1, EmptyType DEF Wipe, StandTypes
<1>5. ScriptTypes' BY <1>1 DEF Wipe, ScriptTypes, RestoreTo, BesidesRestore
<1>6. set' \in [Ids -> Sets] BY <1>2, <1>3
<1>7. faults' \subseteq Kinds BY <1>1 DEF Wipe, Undisturbed
<1>8. QED BY <1>2, <1>4, <1>5, <1>6, <1>7 DEF TypeOK, StandTypes, ScriptTypes

LEMMA RestoreTypes ==
    ASSUME TypeOK, ScriptsInv, RestoreScript
    PROVE  TypeOK'
<1>1. /\ StandTypes /\ ScriptTypes /\ set \in [Ids -> Sets] /\ faults \subseteq Kinds
  BY TypeParts
<1>2. CASE Wipe BY <1>2, WipeTypes
<1>3. ASSUME RestoreScript, ~Wipe PROVE TypeOK'
  <2>1. UNCHANGED <<backup, deletion, set>>
    BY <1>3 DEF RestoreScript, RestoreBegins, Starting, ListSnapshots, RestoreIndices, RestoreEngine,
           StartAll, RestoreRows, RowsNotRestored, RestoreFails, BesidesRestore, StandStays
  <2>2. restore.at # "idle" => Restored \in Sets BY <1>1 DEF ScriptsInv, Restored
  <2>3. engine' \in Stages /\ acked' \in Stages /\ index' \in Stages
    <3>1. restore.at # "idle" =>
              Restored.index \in Stages /\ Restored.engine \in Stages /\ Restored.acked \in Stages
      BY <2>2 DEF Sets
    <3>2. engine \in Stages /\ acked \in Stages /\ index \in Stages BY <1>1 DEF StandTypes
    <3>3. CASE RestoreIndices
      BY <3>1, <3>2, <3>3, EmptyType DEF RestoreIndices, RestoreAt
    <3>4. CASE RestoreEngine
      BY <3>1, <3>2, <3>4 DEF RestoreEngine, RestoreAt
    <3>5. CASE ~RestoreIndices /\ ~RestoreEngine
      BY <1>3, <3>2, <3>5
         DEF RestoreScript, RestoreBegins, Starting, ListSnapshots, StartAll, RestoreRows,
             RowsNotRestored, RestoreFails, StandStays, stand
    <3>6. QED BY <3>3, <3>4, <3>5
  <2>4. rows' \subseteq Items /\ written' \subseteq Items /\ dropped' \subseteq Items
    BY <1>1, <1>3, <2>2
       DEF RestoreScript, RestoreBegins, Starting, ListSnapshots, RestoreIndices, RestoreEngine,
           StartAll, RestoreRows, RowsNotRestored, RestoreFails, RestoreAt, StandStays, stand,
           StandTypes, ScriptTypes, Sets
  <2>5. exporting' = exporting /\ service' \in BOOLEAN
    BY <1>1, <1>3
       DEF RestoreScript, RestoreBegins, Starting, ListSnapshots, RestoreIndices, RestoreEngine,
           StartAll, RestoreRows, RowsNotRestored, RestoreFails, StandStays, stand, StandTypes
  <2>6. restore' \in [at : {"idle", "wipe", "list", "indices", "engine", "start", "rows"},
                      id : 0 .. MaxId, late : SUBSET Items]
    <3>1. ASSUME NEW id \in Ids, RestoreBegins(id)
          PROVE  restore' \in [at : {"idle", "wipe", "list", "indices", "engine", "start", "rows"},
                               id : 0 .. MaxId, late : SUBSET Items]
      <4>1. restore' = [at |-> "wipe", id |-> id, late |-> {}]
        BY <3>1 DEF RestoreBegins, Starting
      <4>2. id \in 0 .. MaxId BY BackupAssumption DEF Ids
      <4>3. QED BY <4>1, <4>2
    <3>2. ASSUME ~\E id \in Ids : RestoreBegins(id)
          PROVE  \E step \in {"idle", "wipe", "list", "indices", "engine", "start", "rows"} :
                     \/ restore' = [restore EXCEPT !.at = step]
                     \/ restore' = [restore EXCEPT !.at = step, !.late = {}]
      BY <1>3, <3>2
         DEF RestoreScript, ListSnapshots, RestoreIndices, RestoreEngine, StartAll, RestoreRows,
             RowsNotRestored, RestoreFails, RestoreTo
    <3>3. QED BY <1>1, <3>1, <3>2 DEF ScriptTypes
  <2>7. faults' \subseteq Kinds
    BY <1>1, <1>3, FaultIs
       DEF RestoreScript, RestoreBegins, Starting, ListSnapshots, RestoreIndices, RestoreEngine,
           StartAll, RestoreRows, RowsNotRestored, RestoreFails, Undisturbed, Kinds
  <2>8. QED BY <1>1, <2>1, <2>3, <2>4, <2>5, <2>6, <2>7 DEF TypeOK, StandTypes, ScriptTypes
<1>4. QED BY <1>2, <1>3

LEMMA KilledTypes ==
    ASSUME TypeOK, Killed
    PROVE  TypeOK'
<1>1. /\ StandTypes /\ ScriptTypes /\ set \in [Ids -> Sets] /\ faults \subseteq Kinds
  BY TypeParts
<1>2. StandTypes' /\ set' = set BY <1>1 DEF Killed, StandStays, stand, StandTypes
<1>3. ScriptTypes' BY <1>1 DEF Killed, DeletionTo, BackupAt, RestoreAt, ScriptTypes
<1>4. faults' \subseteq Kinds BY <1>1, FaultIs DEF Killed, Kinds
<1>5. QED BY <1>1, <1>2, <1>3, <1>4 DEF TypeOK, StandTypes, ScriptTypes

LEMMA TypeStep ==
    ASSUME TypeOK, ScriptsInv, [Next]_vars
    PROVE  TypeOK'
<1>1. CASE Next
  BY <1>1, WorkTypes, BackupTypes, ClusterTypes, DeletionTypes, RestoreTypes, KilledTypes DEF Next
<1>2. CASE UNCHANGED vars BY <1>2 DEF vars, stand, TypeOK
<1>3. QED BY <1>1, <1>2

-----------------------------------------------------------------------------
(* What the steps of a script leave alone.                                 *)

LEMMA WorkDoes ==
    ASSUME TypeOK, Work
    PROVE  /\ service
           /\ UNCHANGED <<set, backup, deletion, dropped, faults, exporting, service>>
           /\ restore'.at = restore.at /\ restore'.id = restore.id
           /\ restore.at # "rows" => restore' = restore
<1>1. PICK i \in Items : Begin(i) \/ WriteRow(i) \/ Finish(i) \/ Export(i) BY DEF Work
<1>2. restore' = restore \/ (restore.at = "rows" /\ restore' = [restore EXCEPT !.late = @ \cup {i}])
  BY <1>1 DEF Begin, WriteRow, Finish, Export
<1>3. QED BY <1>1, <1>2 DEF Begin, WriteRow, Finish, Export, scripts, TypeOK

LEMMA BackupDoes ==
    ASSUME TypeOK, ScriptsInv, BackupScript
    PROVE  /\ UNCHANGED <<stand, deletion, restore, dropped>>
           /\ restore.at = "idle" /\ service
           /\ \/ BackupBegins
              \/ backup.at # "idle" /\ backup.id \in Ids /\ backup'.id = backup.id
           /\ \A id \in Ids : id # backup.id => set'[id] = set[id]
<1>1. UNCHANGED <<stand, deletion, restore, dropped>>
  BY DEF BackupScript, BackupBegins, Synced, SyncTimesOut, Pause, PauseUnanswered,
         RequestHistory, TakeDated, RequestRuntime, Polled, PollFails, Resume, ResumeFails,
         Trap, TrapFails, Dump, DumpFails, BesidesBackup
<1>2. CASE BackupBegins BY <1>1, <1>2 DEF BackupBegins, ScriptsInv
<1>3. ASSUME ~BackupBegins
      PROVE  /\ backup.at # "idle" /\ backup'.id = backup.id
             /\ set' = set \/ \E part : Take(part)
  BY <1>3 DEF BackupScript, Synced, SyncTimesOut, Pause, PauseUnanswered,
         RequestHistory, TakeDated, RequestRuntime, Polled, PollFails, Resume, ResumeFails,
         Trap, TrapFails, Dump, DumpFails, BackupAt, BackupTo, TypeOK
<1>4. ASSUME ~BackupBegins
      PROVE  \A id \in Ids : id # backup.id => set'[id] = set[id]
  BY <1>3, <1>4 DEF Take, TypeOK
<1>5. QED BY <1>1, <1>2, <1>3, <1>4 DEF ScriptsInv, BackupBegins

LEMMA ClusterParts ==
    ASSUME TypeOK, NEW id \in Ids, TakeHistory(id) \/ TakeRuntime(id)
    PROVE  /\ \A other \in Ids : other # id => set'[other] = set[other]
           /\ set'[id].dump = set[id].dump /\ set'[id].rows = set[id].rows
           /\ \/ /\ set[id].web = "running"
                 /\ set'[id].zeebe = set[id].zeebe
                 /\ set'[id].engine = set[id].engine /\ set'[id].acked = set[id].acked
                 /\ \/ set'[id].web = "there" /\ set'[id].index = index
                    \/ set'[id].web = "failed" /\ set'[id].index = set[id].index
              \/ /\ set[id].zeebe = "running"
                 /\ set'[id].web = set[id].web /\ set'[id].index = set[id].index
                 /\ \/ set'[id].zeebe = "there" /\ set'[id].engine = engine /\ set'[id].acked = acked
                    \/ /\ set'[id].zeebe = "failed"
                       /\ set'[id].engine = set[id].engine /\ set'[id].acked = set[id].acked
<1>1. set \in [Ids -> Sets] /\ set[id] \in Sets BY DEF TypeOK
<1>2. CASE TakeHistory(id)
  <2>1. \/ set' = [set EXCEPT ![id] = [set[id] EXCEPT !.web = "there", !.index = index]]
        \/ set' = [set EXCEPT ![id] = [set[id] EXCEPT !.web = "failed"]]
    BY <1>1, <1>2 DEF TakeHistory, Sets
  <2>2. set[id].web = "running" BY <1>2 DEF TakeHistory
  <2>3. CASE set' = [set EXCEPT ![id] = [set[id] EXCEPT !.web = "there", !.index = index]]
    BY <1>1, <2>2, <2>3 DEF Sets
  <2>4. CASE set' = [set EXCEPT ![id] = [set[id] EXCEPT !.web = "failed"]]
    BY <1>1, <2>2, <2>4 DEF Sets
  <2>5. QED BY <2>1, <2>3, <2>4
<1>3. CASE TakeRuntime(id)
  <2>1. \/ set' = [set EXCEPT ![id] = [set[id] EXCEPT !.zeebe = "there", !.engine = engine,
                                                       !.acked = acked]]
        \/ set' = [set EXCEPT ![id] = [set[id] EXCEPT !.zeebe = "failed"]]
    BY <1>1, <1>3 DEF TakeRuntime, Sets
  <2>2. set[id].zeebe = "running" BY <1>3 DEF TakeRuntime
  <2>3. CASE set' = [set EXCEPT ![id] = [set[id] EXCEPT !.zeebe = "there", !.engine = engine,
                                                         !.acked = acked]]
    BY <1>1, <2>2, <2>3 DEF Sets
  <2>4. CASE set' = [set EXCEPT ![id] = [set[id] EXCEPT !.zeebe = "failed"]]
    BY <1>1, <2>2, <2>4 DEF Sets
  <2>5. QED BY <2>1, <2>3, <2>4
<1>4. QED BY <1>2, <1>3

LEMMA DeletionTouches ==
    ASSUME TypeOK, ScriptsInv, DeletionScript
    PROVE  /\ UNCHANGED <<stand, exporting, backup, restore, dropped>>
           /\ restore.at = "idle"
           /\ \A id \in Ids : id # deletion.id \/ deletion.at = "idle" => set'[id] = set[id]
<1>1. UNCHANGED <<stand, exporting, backup, restore, dropped>> BY DeletionDoes
<1>2. CASE \E id \in Ids : DeletionBegins(id) BY <1>1, <1>2 DEF DeletionBegins
<1>3. CASE DeletionFails
  BY <1>1, <1>3 DEF DeletionFails, ScriptsInv
<1>4. ASSUME deletion.at # "idle", NEW part, set' = [set EXCEPT ![deletion.id] = part]
      PROVE  restore.at = "idle" /\ \A id \in Ids : id # deletion.id => set'[id] = set[id]
  BY <1>4 DEF ScriptsInv, TypeOK
<1>5. QED BY <1>1, <1>2, <1>3, <1>4, DeletionDoes

LEMMA RestoreStarts ==
    ASSUME NEW id, RestoreBegins(id)
    PROVE  /\ set[id].dump # "none"
           /\ backup.at = "idle" /\ deletion.at = "idle" /\ restore.at = "idle"
           /\ UNCHANGED <<backup, deletion, exporting, set, dropped>> /\ UNCHANGED stand
           /\ restore'.at = "wipe" /\ restore'.id = id
BY DEF RestoreBegins, Starting, RestoreAt, BesidesRestore, StandStays, stand

LEMMA RestoreDoes ==
    ASSUME TypeOK, ScriptsInv, RestoreScript
    PROVE  /\ UNCHANGED <<backup, deletion>> /\ backup.at = "idle" /\ deletion.at = "idle"
           /\ Wipe \/ set' = set
           /\ restore.at # "idle" => restore'.id = restore.id
<1>1. CASE \E id \in Ids : RestoreBegins(id)
  BY <1>1, RestoreStarts
<1>2. CASE ~\E id \in Ids : RestoreBegins(id)
  BY <1>2
     DEF RestoreScript, Wipe, ListSnapshots, RestoreIndices, RestoreEngine, StartAll, RestoreRows,
         RowsNotRestored, RestoreFails, RestoreTo, RestoreAt, BesidesRestore, StandStays, ScriptsInv,
         TypeOK
<1>3. QED BY <1>1, <1>2

LEMMA KilledDoes ==
    ASSUME TypeOK, Killed
    PROVE  /\ UNCHANGED <<stand, exporting, set, dropped>>
           /\ "killed" \in faults'
           /\ \/ backup' = [backup EXCEPT !.at = "idle", !.paused = FALSE] /\ UNCHANGED <<deletion, restore>>
              \/ deletion' = [deletion EXCEPT !.at = "idle"] /\ UNCHANGED <<backup, restore>>
              \/ restore' = [restore EXCEPT !.at = "idle", !.late = {}] /\ UNCHANGED <<backup, deletion>>
BY DEF Killed, StandStays, Fault, DeletionTo

\* A fault that has occurred has occurred.
LEMMA FaultsGrow ==
    ASSUME [Next]_vars
    PROVE  faults \subseteq faults'
<1>1. CASE Work
  BY <1>1 DEF Work, Begin, WriteRow, Finish, Export, scripts
<1>2. CASE BackupScript
  BY <1>2 DEF BackupScript, BackupBegins, Synced, SyncTimesOut, Pause, PauseUnanswered,
         RequestHistory, TakeDated, RequestRuntime, Polled, PollFails, Resume, ResumeFails,
         Trap, TrapFails, Dump, DumpFails, Undisturbed, Fault
<1>3. CASE Cluster BY <1>3 DEF Cluster, TakeHistory, TakeRuntime, Fault
<1>4. CASE DeletionScript
  BY <1>4, DeletionDoes DEF DeletionBegins, DeletionFails, Undisturbed, Fault
<1>5. CASE RestoreScript
  BY <1>5 DEF RestoreScript, RestoreBegins, Starting, Wipe, ListSnapshots, RestoreIndices,
         RestoreEngine, StartAll, RestoreRows, RowsNotRestored, RestoreFails, Undisturbed, Fault
<1>6. CASE Killed BY <1>6 DEF Killed, Fault
<1>7. CASE UNCHANGED vars BY <1>7 DEF vars
<1>8. QED BY <1>1, <1>2, <1>3, <1>4, <1>5, <1>6, <1>7 DEF Next

LEMMA NeverBefore ==
    ASSUME [Next]_vars, NEW kinds, Never(kinds)'
    PROVE  Never(kinds)
BY FaultsGrow DEF Never

-----------------------------------------------------------------------------
(* The scripts and the progress of a backup.                               *)

LEMMA ScriptsStep ==
    ASSUME TypeOK, ScriptsInv, ProgressInv, [Next]_vars
    PROVE  ScriptsInv'
<1>1. set \in [Ids -> Sets] /\ MaxId \in Nat BY BackupAssumption DEF TypeOK
<1>2. CASE Work
  BY <1>2, WorkDoes DEF ScriptsInv, Restored
<1>3. CASE BackupScript
  <2>1. UNCHANGED <<stand, deletion, restore, dropped>> /\ restore.at = "idle" /\ service
    BY <1>3, BackupDoes
  <2>2. backup'.id \in Ids /\ backup'.id >= backup.id
    BY <1>1, <1>3, BackupDoes DEF BackupBegins, Ids, TypeOK
  <2>3. QED BY <1>1, <2>1, <2>2 DEF ScriptsInv, stand, TypeOK, Ids
<1>4. CASE Cluster
  <2>1. PICK id \in Ids : TakeHistory(id) \/ TakeRuntime(id) BY <1>4 DEF Cluster
  <2>2. UNCHANGED <<stand, exporting, backup, deletion, restore, dropped>>
    BY <2>1, ClusterTakes
  <2>3. \A other \in Ids : set'[other].dump = set[other].dump
    BY <2>1, ClusterParts
  <2>4. QED BY <2>2, <2>3 DEF ScriptsInv, stand, Restored
<1>5. CASE DeletionScript
  <2>1. UNCHANGED <<stand, exporting, backup, restore, dropped>> /\ restore.at = "idle"
    BY <1>5, DeletionTouches
  <2>2. deletion'.at # "idle" => deletion'.id \in Ids /\ deletion'.id < backup.id
    <3>1. ASSUME NEW id \in Ids, DeletionBegins(id) PROVE id < backup.id
      <4>1. PICK newer \in Ids : newer > id /\ Known(newer) BY <3>1 DEF DeletionBegins
      <4>2. newer <= backup.id
        BY <4>1, <1>1 DEF ProgressInv, Known, NoSet, Ids, TypeOK
      <4>3. QED BY <1>1, <4>1, <4>2 DEF Ids, TypeOK
    <3>2. CASE \E id \in Ids : DeletionBegins(id) BY <3>1, <3>2 DEF DeletionBegins
    <3>3. CASE ~\E id \in Ids : DeletionBegins(id)
      BY <1>5, <3>3, DeletionDoes DEF DeletionFails, DeletionTo, ScriptsInv, TypeOK
    <3>4. QED BY <3>2, <3>3
  <2>3. QED BY <2>1, <2>2 DEF ScriptsInv, stand
<1>6. CASE RestoreScript
  <2>1. UNCHANGED <<backup, deletion>> /\ backup.at = "idle" /\ deletion.at = "idle"
    BY <1>6, RestoreDoes
  <2>2. restore'.at # "idle" => restore'.id \in Ids /\ Restored'.dump # "none"
    <3>1. ASSUME NEW id \in Ids, RestoreBegins(id)
          PROVE  restore'.id \in Ids /\ Restored'.dump # "none"
      <4>1. restore'.id = id /\ set' = set /\ set[id].dump # "none"
        BY <3>1, RestoreStarts
      <4>2. QED BY <4>1 DEF Restored
    <3>2. ASSUME Wipe PROVE restore'.id \in Ids /\ Restored'.dump # "none"
      <4>1. restore.id \in Ids /\ set[restore.id].dump # "none"
        BY <3>2 DEF ScriptsInv, Restored, Wipe, RestoreAt
      <4>2. restore'.id = restore.id BY <3>2 DEF Wipe, RestoreTo, TypeOK
      <4>3. set'[restore.id] = Lost(set[restore.id]) /\ set[restore.id] \in Sets
        BY <1>1, <3>2, <4>1, WipeTypes
      <4>4. set'[restore.id].dump = set[restore.id].dump BY <4>3 DEF Lost, Sets
      <4>5. QED BY <4>1, <4>2, <4>4 DEF Restored
    <3>3. CASE ~Wipe /\ ~\E id \in Ids : RestoreBegins(id)
      BY <1>6, <3>3, RestoreDoes
         DEF ScriptsInv, Restored, RestoreScript, ListSnapshots, RestoreIndices, RestoreEngine,
             StartAll, RestoreRows, RowsNotRestored, RestoreFails, RestoreAt
    <3>4. QED BY <3>1, <3>2, <3>3
  <2>3. /\ restore'.at \in {"list", "indices", "engine", "start"} => ~service'
        /\ restore'.at = "rows" => service'
        /\ ~service' => written' = {}
    <3>1. /\ restore \in [at : {"idle", "wipe", "list", "indices", "engine", "start", "rows"},
                          id : 0 .. MaxId, late : SUBSET Items]
          /\ service \in BOOLEAN
      BY DEF TypeOK
    <3>2. ASSUME UNCHANGED stand PROVE (service' <=> service) /\ written' = written
      BY <3>2 DEF stand
    <3>3. CASE \E id \in Ids : RestoreBegins(id)
      <4>1. PICK id \in Ids : RestoreBegins(id) BY <3>3
      <4>2. UNCHANGED stand /\ restore'.at = "wipe" BY <4>1, RestoreStarts
      <4>3. QED BY <3>2, <4>2 DEF ScriptsInv
    <3>4. CASE Wipe BY <3>1, <3>4 DEF Wipe, RestoreTo
    <3>5. CASE StartAll BY <3>1, <3>5 DEF StartAll, RestoreTo
    <3>6. CASE RestoreRows BY <3>1, <3>6 DEF RestoreRows, RestoreAt, ScriptsInv
    <3>7. CASE RowsNotRestored
      BY <3>1, <3>2, <3>7 DEF RowsNotRestored, RestoreAt, StandStays, ScriptsInv
    <3>8. ASSUME NEW step \in {"idle", "indices", "engine", "start"}, RestoreTo(step),
                 service' <=> service, written' = written,
                 restore.at \in {"list", "indices", "engine", "start"}
          PROVE  /\ restore'.at \in {"list", "indices", "engine", "start"} => ~service'
                 /\ restore'.at = "rows" => service'
                 /\ ~service' => written' = {}
      BY <3>1, <3>8 DEF RestoreTo, ScriptsInv
    <3>9. CASE ListSnapshots \/ RestoreFails
      BY <3>2, <3>8, <3>9 DEF ListSnapshots, RestoreFails, RestoreAt, StandStays
    <3>10. CASE RestoreIndices \/ RestoreEngine
      <4>1. service' = service /\ written' = written
        BY <3>10 DEF RestoreIndices, RestoreEngine
      <4>2. \E step \in {"idle", "indices", "engine", "start"} : RestoreTo(step)
        BY <3>10 DEF RestoreIndices, RestoreEngine
      <4>3. restore.at \in {"list", "indices", "engine", "start"}
        BY <3>10 DEF RestoreIndices, RestoreEngine, RestoreAt
      <4>4. service' <=> service BY <4>1
      <4>5. QED BY <3>8, <4>1, <4>2, <4>3, <4>4
    <3>11. QED BY <1>6, <3>3, <3>4, <3>5, <3>6, <3>7, <3>9, <3>10 DEF RestoreScript
  <2>4. QED BY <2>1, <2>2, <2>3 DEF ScriptsInv
<1>7. CASE Killed
  <2>1. UNCHANGED <<stand, exporting, set, dropped>> BY <1>7, KilledDoes
  <2>2. CASE /\ backup' = [backup EXCEPT !.at = "idle", !.paused = FALSE]
             /\ UNCHANGED <<deletion, restore>>
    BY <2>1, <2>2 DEF ScriptsInv, stand, Restored, TypeOK
  <2>3. CASE deletion' = [deletion EXCEPT !.at = "idle"] /\ UNCHANGED <<backup, restore>>
    BY <2>1, <2>3 DEF ScriptsInv, stand, Restored, TypeOK
  <2>4. CASE /\ restore' = [restore EXCEPT !.at = "idle", !.late = {}]
             /\ UNCHANGED <<backup, deletion>>
    BY <2>1, <2>4 DEF ScriptsInv, stand, Restored, TypeOK
  <2>5. QED BY <1>7, <2>2, <2>3, <2>4, KilledDoes
<1>8. CASE UNCHANGED vars BY <1>8 DEF ScriptsInv, vars, stand, Restored
<1>9. QED BY <1>2, <1>3, <1>4, <1>5, <1>6, <1>7, <1>8 DEF Next

\* The steps of a backup that has begun, and what they take.
LEMMA BackupMoves ==
    ASSUME TypeOK, ScriptsInv, BackupScript, ~BackupBegins
    PROVE  \/ /\ set' = set
              /\ \/ backup'.at \in {"idle", "trap"}
                 \/ backup.at = "sync" /\ backup'.at = "pause"
                 \/ backup.at = "pause" /\ backup'.at = "history"
                 \/ backup.at = "history-wait" /\ backup'.at = "dated" /\ Taking.web = "there"
                 \/ backup.at = "runtime-wait" /\ backup'.at = "resume" /\ Taking.zeebe = "there"
                 \/ backup.at = "resume" /\ backup'.at = "dump"
           \/ /\ backup.at = "history" /\ backup'.at = "history-wait"
              /\ set'[backup.id] = [Taking EXCEPT !.web = "running"]
           \/ /\ backup.at = "dated" /\ backup'.at = "runtime"
              /\ \E dated \in BOOLEAN : set'[backup.id] = [Taking EXCEPT !.dated = dated]
           \/ /\ backup.at = "runtime" /\ backup'.at = "runtime-wait"
              /\ set'[backup.id] = [Taking EXCEPT !.zeebe = "running"]
           \/ /\ backup.at = "dump" /\ backup'.at = "idle"
              /\ \/ set'[backup.id] = [Taking EXCEPT !.dump = "there", !.rows = rows]
                 \/ \E dump \in {"none", "failed"} : set'[backup.id] = [Taking EXCEPT !.dump = dump]
<1>1. backup.id \in Ids /\ set \in [Ids -> Sets] BY BackupDoes DEF TypeOK
<1>2. \A part : Take(part) => set'[backup.id] = part BY <1>1 DEF Take
<1>3. \A step : BackupTo(step) => backup'.at = step BY DEF BackupTo, TypeOK
<1>4. CASE Synced \/ SyncTimesOut \/ PollFails \/ Polled
  BY <1>3, <1>4 DEF Synced, SyncTimesOut, PollFails, Polled, BackupAt
<1>5. CASE Pause \/ PauseUnanswered \/ Resume \/ ResumeFails \/ Trap \/ TrapFails
  <2>1. backup \in [at : Paused \cup {"idle", "sync", "pause", "dump"},
                    id : 0 .. MaxId, paused : BOOLEAN]
    BY DEF TypeOK
  <2>2. CASE Pause BY <2>1, <2>2 DEF Pause, BackupAt
  <2>3. CASE Resume BY <2>1, <2>3 DEF Resume, BackupAt
  <2>4. CASE ResumeFails BY <1>3, <2>1, <2>4 DEF ResumeFails, BackupAt
  <2>5. CASE Trap \/ TrapFails BY <2>1, <2>5 DEF Trap, TrapFails
  <2>6. CASE PauseUnanswered BY <1>3, <2>6 DEF PauseUnanswered
  <2>7. QED BY <1>5, <2>2, <2>3, <2>4, <2>5, <2>6
<1>6. CASE RequestHistory BY <1>2, <1>3, <1>6 DEF RequestHistory, BackupAt
<1>7. CASE TakeDated BY <1>2, <1>3, <1>7 DEF TakeDated, BackupAt
<1>8. CASE RequestRuntime BY <1>2, <1>3, <1>8 DEF RequestRuntime, BackupAt
<1>9. CASE Dump BY <1>2, <1>3, <1>9 DEF Dump, BackupAt
<1>10. CASE DumpFails BY <1>2, <1>3, <1>10 DEF DumpFails, BackupAt
<1>11. QED BY <1>4, <1>5, <1>6, <1>7, <1>8, <1>9, <1>10 DEF BackupScript

LEMMA ProgressStep ==
    ASSUME TypeOK, ScriptsInv, ProgressInv, [Next]_vars
    PROVE  ProgressInv'
<1>1. set \in [Ids -> Sets] /\ MaxId \in Nat /\ backup.id \in 0 .. MaxId
  BY BackupAssumption DEF TypeOK
<1>2. ASSUME UNCHANGED set, backup'.id = backup.id, backup'.at \in {backup.at, "idle"}
      PROVE  ProgressInv'
  <2>1. Taking' = Taking BY <1>2 DEF Taking
  <2>2. /\ \A id \in Ids : id > backup'.id => set'[id] = NoSet
        /\ \A id \in Ids : set'[id].dump # "none" => "running" \notin {set'[id].web, set'[id].zeebe}
    BY <1>2 DEF ProgressInv
  <2>3. CASE backup'.at = backup.at BY <2>1, <2>2, <2>3 DEF ProgressInv
  <2>4. CASE backup'.at = "idle" BY <2>2, <2>4 DEF ProgressInv
  <2>5. QED BY <1>2, <2>3, <2>4
<1>3. CASE Work BY <1>2, <1>3, WorkDoes
<1>4. CASE BackupBegins
  <2>1. backup'.id = backup.id + 1 /\ backup'.at = "sync" /\ set' = set /\ backup'.id \in Ids
    BY <1>1, <1>4 DEF BackupBegins, Ids
  <2>2. Taking' = NoSet BY <1>1, <2>1 DEF ProgressInv, Taking, Ids
  <2>3. QED BY <1>1, <2>1, <2>2 DEF ProgressInv, NoSet, Ids
<1>5. ASSUME BackupScript, ~BackupBegins PROVE ProgressInv'
  <2>1. /\ backup.at # "idle" /\ backup.id \in Ids /\ backup'.id = backup.id
        /\ \A id \in Ids : id # backup.id => set'[id] = set[id]
        /\ Taking' = set'[backup.id] /\ Taking \in Sets
    BY <1>1, <1>5, BackupDoes DEF Taking
  <2>2. /\ \A id \in Ids : id > backup'.id => set'[id] = NoSet
        /\ \A id \in Ids : id # backup.id /\ set'[id].dump # "none" =>
               "running" \notin {set'[id].web, set'[id].zeebe}
    BY <1>1, <2>1 DEF ProgressInv, Ids
  <2>3. ASSUME Taking'.dump # "none" => "running" \notin {Taking'.web, Taking'.zeebe},
               backup'.at # "idle" => Taking'.dump = "none",
               backup'.at \in {"sync", "pause", "history"} => Taking'.web = "none",
               backup'.at \in {"sync", "pause", "history", "history-wait", "dated", "runtime"} =>
                   Taking'.zeebe = "none" /\ Taking'.engine = Empty,
               backup'.at \in {"dated", "runtime", "runtime-wait", "resume", "dump"} =>
                   Taking'.web = "there",
               backup'.at \in {"resume", "dump"} => Taking'.zeebe = "there"
        PROVE  ProgressInv'
    BY <2>1, <2>2, <2>3 DEF ProgressInv
  <2>4. Taking.dump = "none" BY <2>1 DEF ProgressInv
  <2>5. CASE set' = set
    <3>1. Taking' = Taking BY <2>1, <2>5 DEF Taking
    <3>2. QED BY <1>5, <2>1, <2>3, <2>4, <2>5, <3>1, BackupMoves DEF ProgressInv, Sets
  <2>6. CASE /\ backup.at = "history" /\ backup'.at = "history-wait"
             /\ set'[backup.id] = [Taking EXCEPT !.web = "running"]
    BY <2>1, <2>3, <2>4, <2>6 DEF ProgressInv, Sets
  <2>7. CASE /\ backup.at = "dated" /\ backup'.at = "runtime"
             /\ \E dated \in BOOLEAN : set'[backup.id] = [Taking EXCEPT !.dated = dated]
    BY <2>1, <2>3, <2>4, <2>7 DEF ProgressInv, Sets
  <2>8. CASE /\ backup.at = "runtime" /\ backup'.at = "runtime-wait"
             /\ set'[backup.id] = [Taking EXCEPT !.zeebe = "running"]
    BY <2>1, <2>3, <2>4, <2>8 DEF ProgressInv, Sets
  <2>9. CASE /\ backup.at = "dump" /\ backup'.at = "idle"
             /\ \/ set'[backup.id] = [Taking EXCEPT !.dump = "there", !.rows = rows]
                \/ \E dump \in {"none", "failed"} : set'[backup.id] = [Taking EXCEPT !.dump = dump]
    BY <2>1, <2>3, <2>4, <2>9 DEF ProgressInv, Sets
  <2>10. QED BY <1>5, <2>5, <2>6, <2>7, <2>8, <2>9, BackupMoves
<1>6. CASE Cluster
  <2>1. PICK id \in Ids : TakeHistory(id) \/ TakeRuntime(id) BY <1>6 DEF Cluster
  <2>2. UNCHANGED <<backup, deletion>> BY <2>1, ClusterTakes
  <2>3. set[id].web = "running" \/ set[id].zeebe = "running" BY <2>1 DEF TakeHistory, TakeRuntime
  <2>4. id <= backup.id BY <1>1, <2>3 DEF ProgressInv, NoSet, Ids
  <2>5. \A other \in Ids : other # id => set'[other] = set[other] BY <2>1, ClusterParts
  <2>6. set[id].dump = "none" /\ set'[id].dump = "none"
    BY <2>1, <2>3, ClusterParts DEF ProgressInv
  <2>7. /\ \A other \in Ids : other > backup'.id => set'[other] = NoSet
        /\ \A other \in Ids : set'[other].dump # "none" =>
               "running" \notin {set'[other].web, set'[other].zeebe}
    BY <1>1, <2>2, <2>4, <2>5, <2>6 DEF ProgressInv, Ids
  <2>8. CASE id # backup.id
    <3>1. backup.at # "idle" => Taking' = Taking BY <2>2, <2>5, <2>8 DEF Taking, ScriptsInv
    <3>2. QED BY <2>2, <2>7, <3>1 DEF ProgressInv
  <2>9. CASE id = backup.id
    BY <2>1, <2>2, <2>6, <2>7, <2>9, ClusterParts DEF ProgressInv, Taking
  <2>10. QED BY <2>8, <2>9
<1>7. CASE DeletionScript
  <2>1. UNCHANGED backup BY <1>7, DeletionTouches
  <2>2. backup.at # "idle" => Taking' = Taking
    BY <1>1, <1>7, <2>1, DeletionTouches DEF Taking, ScriptsInv, Ids
  <2>3. \A id \in Ids : id > backup.id => set'[id] = set[id]
    BY <1>1, <1>7, DeletionTouches DEF ScriptsInv, Ids
  <2>4. \A id \in Ids : set'[id].dump # "none" =>
            set[id].dump # "none" /\ set'[id].web \in {set[id].web, "none"}
            /\ set'[id].zeebe \in {set[id].zeebe, "none"}
    <3>1. CASE set' = set BY <3>1
    <3>2. ASSUME deletion.at # "idle", NEW part, NEW step, DeletedTo(part, step),
                 set' = [set EXCEPT ![deletion.id] = part]
          PROVE  \A id \in Ids : set'[id].dump # "none" =>
                     set[id].dump # "none" /\ set'[id].web \in {set[id].web, "none"}
                     /\ set'[id].zeebe \in {set[id].zeebe, "none"}
      <4>1. deletion.id \in Ids /\ set[deletion.id] \in Sets BY <1>1, <3>2 DEF ScriptsInv
      <4>2. part.dump # "none" =>
                /\ set[deletion.id].dump # "none"
                /\ part.web \in {set[deletion.id].web, "none"}
                /\ part.zeebe \in {set[deletion.id].zeebe, "none"}
        BY <3>2, <4>1 DEF DeletedTo, Sets
      <4>3. QED BY <1>1, <3>2, <4>1, <4>2
    <3>3. QED BY <1>7, <3>1, <3>2, DeletionDoes DEF DeletionBegins, DeletionFails
  <2>5. QED BY <2>1, <2>2, <2>3, <2>4 DEF ProgressInv
<1>8. CASE RestoreScript
  <2>1. UNCHANGED <<backup, deletion>> /\ backup.at = "idle" /\ (Wipe \/ set' = set)
    BY <1>8, RestoreDoes
  <2>2. CASE Wipe
    <3>1. \A id \in Ids : set'[id] = Lost(set[id]) BY <2>2, WipeTypes
    <3>2. Lost(NoSet) = NoSet BY DEF Lost, NoSet
    <3>3. \A id \in Ids : set'[id].dump = set[id].dump
                          /\ "running" \notin {set'[id].web, set'[id].zeebe}
      <4>1. TAKE id \in Ids
      <4>2. set[id] \in Sets BY <1>1
      <4>3. QED BY <3>1, <4>2 DEF Lost, Sets
    <3>4. QED BY <2>1, <3>1, <3>2, <3>3 DEF ProgressInv
  <2>3. QED BY <1>2, <2>1, <2>2
<1>9. CASE Killed
  BY <1>2, <1>9, KilledDoes DEF TypeOK
<1>10. CASE UNCHANGED vars BY <1>2, <1>10 DEF vars
<1>11. QED BY <1>3, <1>4, <1>5, <1>6, <1>7, <1>8, <1>9, <1>10 DEF Next

-----------------------------------------------------------------------------
(* What the scripts leave of the parts of a set.                           *)

LEMMA BackupKeeps ==
    ASSUME TypeOK, ScriptsInv, BackupScript
    PROVE  \A id \in Ids :
               /\ set'[id].index = set[id].index
               /\ set'[id].engine = set[id].engine /\ set'[id].acked = set[id].acked
               /\ \/ set'[id].dump = set[id].dump /\ set'[id].rows = set[id].rows
                  \/ id = backup.id /\ backup.at = "dump" /\ set'[id].dump = "there" /\ set'[id].rows = rows
                  \/ id = backup.id /\ backup.at = "dump" /\ set'[id].dump \in {"none", "failed"}
<1>1. CASE BackupBegins BY <1>1 DEF BackupBegins
<1>2. ASSUME ~BackupBegins, set' # set
      PROVE  /\ Taking \in Sets
             /\ \A id \in Ids : id # backup.id => set'[id] = set[id]
             /\ Taking = set[backup.id]
  BY <1>2, BackupDoes DEF Taking, TypeOK
<1>3. CASE set'[backup.id] = [Taking EXCEPT !.web = "running"]
  BY <1>2, <1>3, <1>1 DEF Sets
<1>4. CASE \E dated \in BOOLEAN : set'[backup.id] = [Taking EXCEPT !.dated = dated]
  BY <1>2, <1>4, <1>1 DEF Sets
<1>5. CASE set'[backup.id] = [Taking EXCEPT !.zeebe = "running"]
  BY <1>2, <1>5, <1>1 DEF Sets
<1>6. CASE /\ backup.at = "dump"
           /\ \/ set'[backup.id] = [Taking EXCEPT !.dump = "there", !.rows = rows]
              \/ \E dump \in {"none", "failed"} : set'[backup.id] = [Taking EXCEPT !.dump = dump]
  <2>1. CASE set'[backup.id] = [Taking EXCEPT !.dump = "there", !.rows = rows]
    <3>1. CASE ~BackupBegins /\ set' # set
      <4>1. /\ set'[backup.id].index = Taking.index
            /\ set'[backup.id].engine = Taking.engine /\ set'[backup.id].acked = Taking.acked
            /\ set'[backup.id].dump = "there" /\ set'[backup.id].rows = rows
        BY <1>2, <2>1, <3>1 DEF Sets
      <4>2. QED BY <1>2, <1>6, <3>1, <4>1
    <3>2. QED BY <1>1, <3>1
  <2>2. ASSUME NEW dump \in {"none", "failed"}, set'[backup.id] = [Taking EXCEPT !.dump = dump]
        PROVE  /\ set'[backup.id].index = Taking.index
               /\ set'[backup.id].engine = Taking.engine /\ set'[backup.id].acked = Taking.acked
               /\ set'[backup.id].dump \in {"none", "failed"}
    BY <1>1, <1>2, <2>2 DEF Sets
  <2>3. QED BY <1>1, <1>2, <1>6, <2>1, <2>2
<1>7. QED BY <1>1, <1>3, <1>4, <1>5, <1>6, BackupMoves

LEMMA DeletionLeaves ==
    ASSUME TypeOK, ScriptsInv, DeletionScript
    PROVE  \A id \in Ids :
               /\ \/ set'[id].engine = set[id].engine /\ set'[id].acked = set[id].acked
                  \/ set'[id].engine = Empty /\ set'[id].acked = Empty
               /\ \/ set'[id].dump = set[id].dump /\ set'[id].rows = set[id].rows
                  \/ set'[id].dump = "none"
<1>1. CASE set' = set BY <1>1
<1>2. ASSUME deletion.at # "idle", NEW part, NEW step, DeletedTo(part, step),
             set' = [set EXCEPT ![deletion.id] = part]
      PROVE  \A id \in Ids :
               /\ \/ set'[id].engine = set[id].engine /\ set'[id].acked = set[id].acked
                  \/ set'[id].engine = Empty /\ set'[id].acked = Empty
               /\ \/ set'[id].dump = set[id].dump /\ set'[id].rows = set[id].rows
                  \/ set'[id].dump = "none"
  <2>1. deletion.id \in Ids /\ set \in [Ids -> Sets] /\ set[deletion.id] \in Sets
    BY <1>2 DEF ScriptsInv, TypeOK
  <2>2. /\ \/ part.engine = set[deletion.id].engine /\ part.acked = set[deletion.id].acked
           \/ part.engine = Empty /\ part.acked = Empty
        /\ \/ part.dump = set[deletion.id].dump /\ part.rows = set[deletion.id].rows
           \/ part.dump = "none"
    BY <1>2, <2>1 DEF DeletedTo, Sets
  <2>3. QED BY <1>2, <2>1, <2>2
<1>3. QED BY <1>1, <1>2, DeletionDoes DEF DeletionBegins, DeletionFails

LEMMA WipeLeaves ==
    ASSUME TypeOK, ProgressInv, Wipe
    PROVE  \A id \in Ids :
               /\ set'[id].index = set[id].index
               /\ set'[id].engine = set[id].engine /\ set'[id].acked = set[id].acked
               /\ set'[id].dump = set[id].dump /\ set'[id].rows = set[id].rows
               /\ set[id].dump # "none" =>
                      set'[id].web = set[id].web /\ set'[id].zeebe = set[id].zeebe
<1>1. TAKE id \in Ids
<1>2. set[id] \in Sets /\ set'[id] = Lost(set[id]) BY WipeTypes DEF TypeOK
<1>3. set[id].dump # "none" => set[id].web # "running" /\ set[id].zeebe # "running"
  BY DEF ProgressInv
<1>4. QED BY <1>2, <1>3 DEF Lost, Sets

-----------------------------------------------------------------------------
(* The exporter is behind the engine.                                      *)

LEMMA OrderStep ==
    ASSUME TypeOK, ScriptsInv, ProgressInv, OrderInv, [Next]_vars
    PROVE  OrderInv'
<1>1. engine \in Stages /\ acked \in Stages /\ set \in [Ids -> Sets] BY DEF TypeOK
<1>2. CASE Work
  <2>1. PICK i \in Items : Begin(i) \/ WriteRow(i) \/ Finish(i) \/ Export(i) BY <1>2 DEF Work
  <2>2. AllBehind(acked, engine)'
    <3>1. CASE Begin(i) BY <1>1, <3>1 DEF Begin, OrderInv, AllBehind, Behind, Stages
    <3>2. CASE WriteRow(i) BY <3>2 DEF WriteRow, OrderInv, AllBehind, Behind
    <3>3. CASE Finish(i) BY <1>1, <3>3 DEF Finish, OrderInv, AllBehind, Behind, Stages
    <3>4. CASE Export(i) BY <1>1, <3>4 DEF Export, OrderInv, AllBehind, Behind, Stages
    <3>5. QED BY <2>1, <3>1, <3>2, <3>3, <3>4
  <2>3. set' = set BY <1>2, WorkDoes
  <2>4. QED BY <2>2, <2>3 DEF OrderInv, AllBehind
<1>3. CASE BackupScript
  <2>1. engine' = engine /\ acked' = acked BY <1>3, BackupDoes DEF stand
  <2>2. QED BY <1>3, <2>1, BackupKeeps DEF OrderInv, AllBehind
<1>4. CASE Cluster
  <2>1. PICK id \in Ids : TakeHistory(id) \/ TakeRuntime(id) BY <1>4 DEF Cluster
  <2>2. engine' = engine /\ acked' = acked BY <2>1, ClusterTakes DEF stand
  <2>3. AllBehind(set'[id].acked, set'[id].engine)
    BY <2>1, ClusterParts DEF OrderInv
  <2>4. QED BY <2>1, <2>2, <2>3, ClusterParts DEF OrderInv, AllBehind
<1>5. CASE DeletionScript
  <2>1. engine' = engine /\ acked' = acked BY <1>5, DeletionDoes DEF stand
  <2>2. AllBehind(Empty, Empty) BY DEF AllBehind, Behind
  <2>3. \A id \in Ids : AllBehind(set'[id].acked, set'[id].engine)
    BY <1>5, <2>2, DeletionLeaves DEF OrderInv
  <2>4. QED BY <2>1, <2>3 DEF OrderInv, AllBehind
<1>6. CASE RestoreScript
  <2>1. CASE Wipe
    BY <2>1, WipeLeaves DEF Wipe, OrderInv, AllBehind, Behind
  <2>2. CASE RestoreEngine
    <3>1. set' = set BY <2>2 DEF RestoreEngine
    <3>2. restore.id \in Ids BY <2>2 DEF RestoreEngine, RestoreAt, ScriptsInv
    <3>3. AllBehind(acked', engine')
      BY <2>2, <3>2 DEF RestoreEngine, OrderInv, Restored
    <3>4. QED BY <3>1, <3>3 DEF OrderInv, AllBehind
  <2>3. CASE ~Wipe /\ ~RestoreEngine
    <3>1. engine' = engine /\ acked' = acked
      BY <1>6, <2>3, RestoreStarts
         DEF RestoreScript, ListSnapshots, RestoreIndices, StartAll, RestoreRows, RowsNotRestored,
             RestoreFails, StandStays, stand
    <3>2. set' = set BY <1>6, <2>3, RestoreDoes
    <3>3. QED BY <3>1, <3>2 DEF OrderInv, AllBehind
  <2>4. QED BY <2>1, <2>2, <2>3
<1>7. CASE Killed BY <1>7, KilledDoes DEF OrderInv, AllBehind, stand
<1>8. CASE UNCHANGED vars BY <1>8 DEF OrderInv, AllBehind, vars, stand
<1>9. QED BY <1>2, <1>3, <1>4, <1>5, <1>6, <1>7, <1>8 DEF Next

-----------------------------------------------------------------------------
(* The pause.                                                              *)

LEMMA PauseStep ==
    ASSUME TypeOK, ScriptsInv, PauseInv, [Next]_vars
    PROVE  PauseInv'
<1>1. /\ backup \in [at : Paused \cup {"idle", "sync", "pause", "dump"},
                     id : 0 .. MaxId, paused : BOOLEAN]
      /\ exporting \in {"running", "paused"}
  BY DEF TypeOK
<1>2. \A kinds : Never(kinds)' => Never(kinds) BY NeverBefore
<1>3. ASSUME UNCHANGED <<backup, exporting>> PROVE PauseInv'
  BY <1>2, <1>3 DEF PauseInv
<1>4. CASE Work BY <1>3, <1>4, WorkDoes
<1>5. CASE BackupScript
  <2>1. CASE BackupBegins
    BY <1>1, <1>2, <2>1 DEF BackupBegins, BackupAt, PauseInv, Paused, InPause
  <2>2. CASE Synced \/ SyncTimesOut
    BY <1>1, <1>2, <2>2 DEF Synced, SyncTimesOut, BackupAt, BackupTo, PauseInv, Paused, InPause
  <2>3. CASE Pause
    BY <1>1, <2>3 DEF Pause, PauseInv, Paused, InPause
  <2>4. CASE PauseUnanswered
    BY <1>1, <2>4 DEF PauseUnanswered, Fault, Never, BackupTo, PauseInv, Paused, InPause
  <2>5. CASE RequestHistory \/ TakeDated \/ RequestRuntime \/ Polled
    BY <1>1, <1>2, <2>5
       DEF RequestHistory, TakeDated, RequestRuntime, Polled, BackupAt, BackupTo, PauseInv, Paused,
           InPause
  <2>6. CASE PollFails
    BY <1>1, <1>2, <2>6 DEF PollFails, BackupAt, BackupTo, PauseInv, Paused, InPause
  <2>7. CASE Resume
    BY <1>1, <2>7 DEF Resume, PauseInv, Paused, InPause
  <2>8. CASE ResumeFails \/ TrapFails
    BY <1>1, <2>8 DEF ResumeFails, TrapFails, Fault, Never, BackupTo, PauseInv, Paused, InPause
  <2>9. CASE Trap
    BY <1>1, <1>2, <2>9 DEF Trap, BackupAt, PauseInv, Paused, InPause
  <2>10. CASE Dump \/ DumpFails
    BY <1>1, <1>2, <2>10 DEF Dump, DumpFails, BackupAt, BackupTo, PauseInv, Paused, InPause
  <2>11. QED
    BY <1>5, <2>1, <2>2, <2>3, <2>4, <2>5, <2>6, <2>7, <2>8, <2>9, <2>10 DEF BackupScript
<1>6. CASE Cluster BY <1>3, <1>6, ClusterTakes DEF Cluster
<1>7. CASE DeletionScript BY <1>3, <1>7, DeletionDoes
<1>8. CASE RestoreScript
  <2>1. UNCHANGED backup /\ backup.at = "idle" BY <1>8, RestoreDoes
  <2>2. exporting' \in {exporting, "running"}
    BY <1>8, RestoreStarts
       DEF RestoreScript, Wipe, ListSnapshots, RestoreIndices, RestoreEngine, StartAll, RestoreRows,
           RowsNotRestored, RestoreFails, StandStays
  <2>3. QED BY <1>2, <2>1, <2>2 DEF PauseInv, InPause, Paused
<1>9. CASE Killed
  BY <1>9, <1>1, KilledDoes DEF PauseInv, Never, InPause, Paused
<1>10. CASE UNCHANGED vars BY <1>3, <1>10 DEF vars
<1>11. QED BY <1>4, <1>5, <1>6, <1>7, <1>8, <1>9, <1>10 DEF Next

-----------------------------------------------------------------------------
(* A dump is the sign of a whole set.                                      *)

LEMMA WholeStep ==
    ASSUME TypeOK, ScriptsInv, ProgressInv, WholeInv, [Next]_vars
    PROVE  WholeInv'
<1> SUFFICES ASSUME Never({"deletion failed", "killed"})', NEW id \in Ids, set'[id].dump # "none"
             PROVE  Whole(set'[id]) \/ Deleting(id)'
  BY DEF WholeInv
<1>1. \A other \in Ids : set[other].dump # "none" => Whole(set[other]) \/ Deleting(other)
  BY NeverBefore DEF WholeInv
<1>2. ASSUME UNCHANGED <<set, deletion>> PROVE Whole(set'[id]) \/ Deleting(id)'
  BY <1>1, <1>2 DEF Deleting
<1>3. CASE Work BY <1>2, <1>3, WorkDoes
<1>4. CASE BackupScript
  <2>1. UNCHANGED deletion BY <1>4, BackupDoes
  <2>2. CASE set'[id] = set[id] BY <1>1, <2>1, <2>2 DEF Deleting
  <2>3. CASE set'[id] # set[id]
    <3>1. id = backup.id /\ ~BackupBegins /\ backup.at # "idle"
      BY <1>4, <2>3, BackupDoes DEF BackupBegins
    <3>2. Taking.dump = "none" BY <3>1 DEF ProgressInv
    <3>3. backup.at = "dump" BY <1>4, <3>1, <3>2, BackupKeeps DEF Taking
    <3>4. Whole(Taking) BY <3>3 DEF ProgressInv, Whole
    <3>5. set'[id].web = Taking.web /\ set'[id].zeebe = Taking.zeebe
      BY <1>4, <2>3, <3>1, <3>3, BackupMoves DEF Taking, TypeOK, Sets
    <3>6. QED BY <3>4, <3>5 DEF Whole
  <2>4. QED BY <2>2, <2>3
<1>5. CASE Cluster
  <2>1. PICK other \in Ids : TakeHistory(other) \/ TakeRuntime(other) BY <1>5 DEF Cluster
  <2>2. UNCHANGED deletion BY <2>1, ClusterTakes
  <2>3. id # other
    BY <2>1, ClusterParts DEF ProgressInv
  <2>4. set'[id] = set[id] BY <2>1, <2>3, ClusterParts
  <2>5. QED BY <1>1, <2>2, <2>4 DEF Deleting
<1>6. CASE DeletionScript
  <2>1. CASE \E begun \in Ids : DeletionBegins(begun)
    BY <1>1, <2>1 DEF DeletionBegins, Deleting
  <2>2. ASSUME deletion.at # "idle", NEW part, NEW step, DeletedTo(part, step),
               set' = [set EXCEPT ![deletion.id] = part],
               deletion' = [deletion EXCEPT !.at = step]
        PROVE  Whole(set'[id]) \/ Deleting(id)'
    <3>1. deletion.id \in Ids /\ set \in [Ids -> Sets] /\ set[deletion.id] \in Sets
      BY <2>2 DEF ScriptsInv, TypeOK
    <3>2. CASE id # deletion.id
      BY <1>1, <2>2, <3>1, <3>2 DEF Deleting
    <3>3. CASE id = deletion.id
      <4>1. part.dump # "none" BY <2>2, <3>1, <3>3
      <4>2. step # "idle" BY <2>2, <3>1, <4>1 DEF DeletedTo, Sets
      <4>3. QED BY <2>2, <3>3, <4>2 DEF Deleting, TypeOK
    <3>4. QED BY <3>2, <3>3
  <2>3. CASE DeletionFails BY <2>3 DEF DeletionFails, Fault, Never
  <2>4. QED BY <1>6, <2>1, <2>2, <2>3, DeletionDoes
<1>7. CASE RestoreScript
  <2>1. UNCHANGED deletion BY <1>7, RestoreDoes
  <2>2. CASE Wipe BY <1>1, <2>1, <2>2, WipeLeaves DEF Whole, Deleting
  <2>3. CASE set' = set BY <1>2, <2>1, <2>3
  <2>4. QED BY <1>7, <2>2, <2>3, RestoreDoes
<1>8. CASE Killed BY <1>8, KilledDoes DEF Never
<1>9. CASE UNCHANGED vars BY <1>2, <1>9 DEF vars
<1>10. QED BY <1>3, <1>4, <1>5, <1>6, <1>7, <1>8, <1>9 DEF Next

-----------------------------------------------------------------------------
(* What was acknowledged is in the index.                                  *)

\* Work goes on: whatever holds all that was acknowledged of the stand, holds
\* it after the step too, if the exporter acknowledges nothing meanwhile.
LEMMA IndexedGrows ==
    ASSUME TypeOK, OrderInv, Work, exporting = "paused", NEW xs \in Stages,
           Indexed(acked, engine, xs)
    PROVE  Indexed(acked, engine, xs)'
<1>1. engine \in Stages /\ acked \in Stages BY DEF TypeOK
<1>2. PICK i \in Items : Begin(i) \/ WriteRow(i) \/ Finish(i) \/ Export(i) BY DEF Work
<1>3. acked' = acked BY <1>2 DEF Begin, WriteRow, Finish, Export
<1>4. CASE Begin(i)
  BY <1>1, <1>3, <1>4 DEF Begin, OrderInv, AllBehind, Behind, Indexed, Stages
<1>5. CASE Finish(i)
  BY <1>1, <1>3, <1>5 DEF Finish, OrderInv, AllBehind, Behind, Indexed, Stages
<1>6. CASE WriteRow(i) \/ Export(i)
  BY <1>3, <1>6 DEF WriteRow, Export, Indexed
<1>7. QED BY <1>2, <1>4, <1>5, <1>6

LEMMA StandIndexed ==
    ASSUME TypeOK, OrderInv, Work, Indexed(acked, engine, index)
    PROVE  Indexed(acked, engine, index)'
<1>1. engine \in Stages /\ acked \in Stages /\ index \in Stages BY DEF TypeOK
<1>2. PICK i \in Items : Begin(i) \/ WriteRow(i) \/ Finish(i) \/ Export(i) BY DEF Work
<1>3. CASE Begin(i)
  BY <1>1, <1>3 DEF Begin, OrderInv, AllBehind, Behind, Indexed, Stages
<1>4. CASE Finish(i)
  BY <1>1, <1>4 DEF Finish, OrderInv, AllBehind, Behind, Indexed, Stages
<1>5. CASE WriteRow(i) BY <1>5 DEF WriteRow, Indexed
<1>6. CASE Export(i) BY <1>1, <1>6 DEF Export, Indexed, Stages
<1>7. QED BY <1>2, <1>3, <1>4, <1>5, <1>6

LEMMA IndexStep ==
    ASSUME TypeOK, ScriptsInv, ProgressInv, OrderInv, PauseInv, WholeInv, IndexInv, [Next]_vars
    PROVE  IndexInv'
<1>a. SUFFICES ASSUME Never({"snapshot not restored", "deletion failed", "killed"})'
             PROVE  /\ service' \/ restore'.at = "start" => Indexed(acked, engine, index)'
                    /\ backup'.at \in InPause /\ Taking'.web = "there" /\ Taking'.zeebe # "there" =>
                           Indexed(acked', engine', Taking'.index)
                    /\ backup'.at \in InPause \cup {"dump"} /\ Whole(Taking') =>
                           Indexed(Taking'.acked, Taking'.engine, Taking'.index)
                    /\ \A id \in Ids : set'[id].dump # "none" =>
                           \/ Indexed(set'[id].acked, set'[id].engine, set'[id].index)
                           \/ Deleting(id)'
                    /\ restore'.at = "engine" => index' = Restored'.index
  BY DEF IndexInv, Indexed, Whole
<1>0. Never({"snapshot not restored", "deletion failed", "killed"}) BY <1>a, NeverBefore
<1>1. service \/ restore.at = "start" => Indexed(acked, engine, index) BY <1>0 DEF IndexInv
<1>2. backup.at \in InPause /\ Taking.web = "there" /\ Taking.zeebe # "there" =>
          Indexed(acked, engine, Taking.index)
  BY <1>0 DEF IndexInv
<1>3. backup.at \in InPause \cup {"dump"} /\ Whole(Taking) =>
          Indexed(Taking.acked, Taking.engine, Taking.index)
  BY <1>0 DEF IndexInv
<1>4. \A id \in Ids : set[id].dump # "none" =>
          Indexed(set[id].acked, set[id].engine, set[id].index) \/ Deleting(id)
  BY <1>0 DEF IndexInv
<1>5. restore.at = "engine" => index = Restored.index BY <1>0 DEF IndexInv
<1>6. CASE Work
  <2>1. /\ UNCHANGED <<set, backup, deletion>> /\ service
        /\ restore'.at = restore.at /\ restore'.id = restore.id
    BY <1>6, WorkDoes
  <2>2. Taking' = Taking /\ (\A id \in Ids : Deleting(id)' <=> Deleting(id))
    BY <2>1 DEF Taking, Deleting
  <2>3. backup.at \in InPause => Taking.index \in Stages /\ exporting = "paused"
    BY DEF PauseInv, ScriptsInv, InPause, Paused, Taking, TypeOK, Sets
  <2>4. ASSUME backup.at \in InPause, Taking.web = "there", Taking.zeebe # "there"
        PROVE  Indexed(acked', engine', Taking.index)
    BY <1>2, <1>6, <2>3, <2>4, IndexedGrows DEF Indexed
  <2>5. Indexed(acked, engine, index)' BY <1>1, <1>6, <2>1, StandIndexed
  <2>6. restore'.at # "engine" BY <2>1 DEF ScriptsInv
  <2>7. QED BY <1>3, <1>4, <2>1, <2>2, <2>4, <2>5, <2>6
<1>7. CASE BackupScript
  <2>1. UNCHANGED <<engine, acked, index, deletion, restore>> /\ service /\ (service' <=> service)
        /\ restore.at = "idle"
    BY <1>7, BackupDoes DEF stand
  <2>2. Indexed(acked, engine, index)' BY <1>1, <2>1 DEF Indexed
  <2>3. CASE BackupBegins
    <3>1. backup'.at = "sync" /\ set' = set BY <2>3 DEF BackupBegins
    <3>2. backup'.at \notin InPause \cup {"dump"} BY <3>1 DEF InPause, Paused
    <3>3. QED BY <1>4, <2>1, <2>2, <3>1, <3>2 DEF Deleting
  <2>4. ASSUME ~BackupBegins
        PROVE  /\ backup.at # "idle" /\ backup'.id = backup.id /\ backup.id \in Ids
               /\ Taking \in Sets /\ Taking' = set'[backup.id] /\ Taking.dump = "none"
               /\ Taking'.index = Taking.index /\ Taking'.acked = Taking.acked
               /\ Taking'.engine = Taking.engine
               /\ \A id \in Ids : id # backup.id => set'[id] = set[id]
    BY <1>7, <2>4, BackupDoes, BackupKeeps DEF ProgressInv, Taking, TypeOK
  <2>5. ASSUME ~BackupBegins
        PROVE  /\ backup'.at \in InPause /\ Taking'.web = "there" /\ Taking'.zeebe # "there" =>
                      backup.at \in InPause /\ Taking.web = "there" /\ Taking.zeebe # "there"
               /\ backup'.at \in InPause \cup {"dump"} /\ Whole(Taking') =>
                      backup.at \in InPause \cup {"dump"} /\ Whole(Taking)
               /\ Taking'.dump # "none" => backup.at = "dump"
    <3>1. Taking \in Sets /\ Taking' = set'[backup.id] /\ Taking.dump = "none" BY <2>4, <2>5
    <3>2. CASE set' = set
      <4>1. Taking' = Taking BY <2>4, <2>5, <3>2 DEF Taking
      <4>2. QED
        BY <1>7, <2>4, <2>5, <3>1, <3>2, <4>1, BackupMoves
           DEF ProgressInv, Whole, InPause, Paused, Sets
    <3>3. CASE /\ backup.at = "history" /\ backup'.at = "history-wait"
               /\ set'[backup.id] = [Taking EXCEPT !.web = "running"]
      BY <3>1, <3>3 DEF Sets, Whole
    <3>4. CASE /\ backup.at = "dated" /\ backup'.at = "runtime"
               /\ \E dated \in BOOLEAN : set'[backup.id] = [Taking EXCEPT !.dated = dated]
      BY <3>1, <3>4 DEF Sets, Whole, InPause, Paused
    <3>5. CASE /\ backup.at = "runtime" /\ backup'.at = "runtime-wait"
               /\ set'[backup.id] = [Taking EXCEPT !.zeebe = "running"]
      BY <3>1, <3>5 DEF Sets, Whole, InPause, Paused, ProgressInv
    <3>6. CASE backup.at = "dump" /\ backup'.at = "idle"
      BY <3>6 DEF InPause, Paused
    <3>7. QED BY <1>7, <2>5, <3>2, <3>3, <3>4, <3>5, <3>6, BackupMoves
  <2>6. ASSUME ~BackupBegins
        PROVE  \A id \in Ids : set'[id].dump # "none" =>
                   \/ Indexed(set'[id].acked, set'[id].engine, set'[id].index)
                   \/ Deleting(id)'
    <3>1. SUFFICES ASSUME NEW id \in Ids, set'[id].dump # "none"
                   PROVE  \/ Indexed(set'[id].acked, set'[id].engine, set'[id].index)
                          \/ Deleting(id)'
      OBVIOUS
    <3>2. CASE id # backup.id BY <1>4, <2>1, <2>4, <2>6, <3>1, <3>2 DEF Deleting
    <3>3. CASE id = backup.id
      <4>1. backup.at = "dump" BY <2>4, <2>5, <2>6, <3>1, <3>3
      <4>2. Whole(Taking) BY <4>1 DEF ProgressInv, Whole
      <4>3. QED BY <1>3, <2>4, <2>6, <3>3, <4>1, <4>2
    <3>4. QED BY <3>2, <3>3
  <2>7. restore'.at # "engine" BY <2>1
  <2>8. CASE ~BackupBegins
    <3>1. engine' = engine /\ acked' = acked BY <2>1
    <3>2. QED BY <1>2, <1>3, <2>2, <2>4, <2>5, <2>6, <2>7, <2>8, <3>1
  <2>9. QED BY <2>3, <2>8
<1>8. CASE Cluster
  <2>1. PICK id \in Ids : TakeHistory(id) \/ TakeRuntime(id) BY <1>8 DEF Cluster
  <2>2. /\ UNCHANGED <<engine, acked, index, backup, deletion, restore>>
        /\ service /\ (service' <=> service)
    <3>1. UNCHANGED <<engine, acked, index, backup, deletion, restore>> /\ service' = service
      BY <2>1, ClusterTakes DEF stand
    <3>2. service BY <2>1 DEF TakeHistory, TakeRuntime
    <3>3. service' <=> service BY <3>1
    <3>4. QED BY <3>1, <3>2, <3>3
  <2>3. Indexed(acked, engine, index) /\ Indexed(acked, engine, index)'
    BY <1>1, <2>2 DEF Indexed
  <2>4. restore'.at # "engine" BY <2>2 DEF ScriptsInv
  <2>5. set[id].dump = "none" /\ set'[id].dump = "none"
    BY <2>1, ClusterParts DEF ProgressInv
  <2>6. \A other \in Ids : set'[other].dump # "none" =>
            \/ Indexed(set'[other].acked, set'[other].engine, set'[other].index)
            \/ Deleting(other)'
    BY <1>4, <2>1, <2>2, <2>5, ClusterParts DEF Deleting
  <2>7. CASE id # backup.id
    <3>1. backup.at # "idle" => Taking' = Taking
      BY <2>1, <2>2, <2>7, ClusterParts DEF Taking, ScriptsInv
    <3>2. backup.at \in InPause \cup {"dump"} => backup.at # "idle" BY DEF InPause, Paused
    <3>3. QED BY <1>2, <1>3, <2>2, <2>3, <2>4, <2>6, <3>1, <3>2
  <2>8. CASE id = backup.id
    <3>1. Taking' = set'[id] /\ Taking = set[id] BY <2>2, <2>8 DEF Taking
    <3>2. CASE /\ set[id].web = "running" /\ set'[id].zeebe = set[id].zeebe
               /\ set'[id].engine = set[id].engine /\ set'[id].acked = set[id].acked
               /\ \/ set'[id].web = "there" /\ set'[id].index = index
                  \/ set'[id].web = "failed" /\ set'[id].index = set[id].index
      <4>1. backup.at \in InPause \cup {"dump"} => backup.at = "history-wait"
        BY <3>1, <3>2 DEF ProgressInv, InPause, Paused
      <4>2. backup.at = "history-wait" => Taking'.zeebe = "none"
        BY <3>1, <3>2 DEF ProgressInv
      <4>3. QED BY <2>2, <2>3, <2>4, <2>6, <3>1, <3>2, <4>1, <4>2 DEF Whole
    <3>3. CASE /\ set[id].zeebe = "running"
               /\ set'[id].web = set[id].web /\ set'[id].index = set[id].index
               /\ \/ set'[id].zeebe = "there" /\ set'[id].engine = engine /\ set'[id].acked = acked
                  \/ /\ set'[id].zeebe = "failed"
                     /\ set'[id].engine = set[id].engine /\ set'[id].acked = set[id].acked
      <4>1. backup.at # "dump" BY <3>1, <3>3 DEF ProgressInv
      <4>2. QED BY <1>2, <2>2, <2>3, <2>4, <2>6, <3>1, <3>3, <4>1 DEF Whole
    <3>4. QED BY <2>1, <3>2, <3>3, ClusterParts
  <2>9. QED BY <2>7, <2>8
<1>9. CASE DeletionScript
  <2>1. /\ UNCHANGED <<engine, acked, index, backup, restore>> /\ (service' <=> service)
        /\ restore.at = "idle"
    <3>1. /\ UNCHANGED <<engine, acked, index, backup, restore>> /\ service' = service
          /\ restore.at = "idle"
      BY <1>9, DeletionTouches DEF stand
    <3>2. service' <=> service BY <3>1
    <3>3. QED BY <3>1, <3>2
  <2>2. Indexed(acked, engine, index) => Indexed(acked, engine, index)' BY <2>1 DEF Indexed
  <2>3. backup.at \in InPause \cup {"dump"} => Taking' = Taking
    <3>1. ASSUME backup.at # "idle" PROVE Taking' = Taking
      <4>1. backup.id \in Ids /\ (deletion.at = "idle" \/ deletion.id # backup.id)
        BY <3>1, BackupAssumption DEF ScriptsInv, Ids, TypeOK
      <4>2. set'[backup.id] = set[backup.id] BY <1>9, <4>1, DeletionTouches
      <4>3. QED BY <2>1, <4>2 DEF Taking
    <3>2. backup.at \in InPause \cup {"dump"} => backup.at # "idle" BY DEF InPause, Paused
    <3>3. QED BY <3>1, <3>2
  <2>4. ASSUME NEW id \in Ids, set'[id].dump # "none"
        PROVE  \/ Indexed(set'[id].acked, set'[id].engine, set'[id].index)
               \/ Deleting(id)'
    <3>1. CASE \E begun \in Ids : DeletionBegins(begun)
      BY <1>4, <2>4, <3>1 DEF DeletionBegins, Deleting
    <3>2. ASSUME deletion.at # "idle", NEW part, NEW step, DeletedTo(part, step),
                 set' = [set EXCEPT ![deletion.id] = part],
                 deletion' = [deletion EXCEPT !.at = step]
          PROVE  \/ Indexed(set'[id].acked, set'[id].engine, set'[id].index)
                 \/ Deleting(id)'
      <4>1. deletion.id \in Ids /\ set \in [Ids -> Sets] /\ set[deletion.id] \in Sets
        BY <3>2 DEF ScriptsInv, TypeOK
      <4>2. CASE id # deletion.id BY <1>4, <2>4, <3>2, <4>1, <4>2 DEF Deleting
      <4>3. CASE id = deletion.id
        <5>1. part.dump # "none" BY <2>4, <3>2, <4>1, <4>3
        <5>2. step # "idle" BY <3>2, <4>1, <5>1 DEF DeletedTo, Sets
        <5>3. QED BY <3>2, <4>3, <5>2 DEF Deleting, TypeOK
      <4>4. QED BY <4>2, <4>3
    <3>3. CASE DeletionFails BY <1>a, <3>3 DEF DeletionFails, Fault, Never
    <3>4. QED BY <1>9, <3>1, <3>2, <3>3, DeletionDoes
  <2>5. QED BY <1>1, <1>2, <1>3, <2>1, <2>2, <2>3, <2>4
<1>10. CASE RestoreScript
  <2>1. UNCHANGED <<backup, deletion>> /\ backup.at = "idle" /\ deletion.at = "idle"
    BY <1>10, RestoreDoes
  <2>2. backup'.at \notin InPause \cup {"dump"} BY <2>1 DEF InPause, Paused
  <2>3. \A id \in Ids : set'[id].dump # "none" =>
            Indexed(set'[id].acked, set'[id].engine, set'[id].index)
    <3>1. \A id \in Ids : set[id].dump # "none" =>
              Indexed(set[id].acked, set[id].engine, set[id].index)
      BY <1>4, <2>1 DEF Deleting
    <3>2. CASE Wipe
      <4>1. \A id \in Ids :
                /\ set'[id].index = set[id].index /\ set'[id].dump = set[id].dump
                /\ set'[id].engine = set[id].engine /\ set'[id].acked = set[id].acked
        BY <3>2, WipeLeaves
      <4>2. QED BY <3>1, <4>1
    <3>3. CASE set' = set BY <3>1, <3>3
    <3>4. QED BY <1>10, <3>2, <3>3, RestoreDoes
  <2>4. /\ service' \/ restore'.at = "start" => Indexed(acked, engine, index)'
        /\ restore'.at = "engine" => index' = Restored'.index
    <3>1. ASSUME NEW id \in Ids, RestoreBegins(id)
          PROVE  /\ service' \/ restore'.at = "start" => Indexed(acked, engine, index)'
                 /\ restore'.at # "engine"
      BY <1>1, <3>1, RestoreStarts DEF stand, Indexed
    <3>2. CASE Wipe BY <3>2 DEF Wipe, RestoreTo, TypeOK
    <3>3. CASE ListSnapshots \/ RestoreFails
      <4>1. restore'.at \in {"indices", "idle"}
        BY <3>3 DEF ListSnapshots, RestoreFails, RestoreTo, TypeOK
      <4>2. ~service' BY <3>3 DEF ListSnapshots, RestoreFails, RestoreAt, ScriptsInv, StandStays, stand
      <4>3. QED BY <4>1, <4>2
    <3>4. CASE RestoreIndices
      <4>1. ~service' /\ restore'.at = "engine" /\ restore'.id = restore.id /\ set' = set
        BY <3>4 DEF RestoreIndices, RestoreAt, RestoreTo, ScriptsInv, TypeOK
      <4>2. restore.id \in Ids /\ Restored.dump # "none"
        BY <3>4 DEF RestoreIndices, RestoreAt, ScriptsInv
      <4>3. Restored.web = "there"
        <5>1. Never({"deletion failed", "killed"}) BY <1>0 DEF Never
        <5>2. QED BY <2>1, <4>2, <5>1 DEF WholeInv, Whole, Deleting, Restored
      <4>4. index' = Restored.index
        BY <1>a, <3>4, <4>3 DEF RestoreIndices, Fault, Never
      <4>5. Restored' = Restored BY <4>1 DEF Restored
      <4>6. QED BY <4>1, <4>4, <4>5
    <3>5. CASE RestoreEngine
      <4>1. ~service' /\ index' = index
        BY <3>5 DEF RestoreEngine, RestoreAt, ScriptsInv
      <4>2. \/ restore'.at = "idle"
            \/ restore'.at = "start" /\ engine' = Restored.engine /\ acked' = Restored.acked
        BY <3>5 DEF RestoreEngine, RestoreTo, TypeOK
      <4>3. index = Restored.index /\ restore.id \in Ids /\ Restored.dump # "none"
        BY <1>5, <3>5 DEF RestoreEngine, RestoreAt, ScriptsInv
      <4>4. Indexed(Restored.acked, Restored.engine, Restored.index)
        BY <1>4, <2>1, <4>3 DEF Restored, Deleting
      <4>5. QED BY <4>1, <4>2, <4>3, <4>4 DEF Indexed
    <3>6. CASE StartAll
      BY <1>1, <3>6 DEF StartAll, RestoreAt, RestoreTo, TypeOK, Indexed
    <3>7. CASE RestoreRows
      BY <1>1, <3>7 DEF RestoreRows, RestoreAt, TypeOK, Indexed, ScriptsInv
    <3>8. CASE RowsNotRestored
      BY <1>1, <3>8 DEF RowsNotRestored, RestoreAt, StandStays, stand, TypeOK, Indexed, ScriptsInv
    <3>9. QED
      BY <1>10, <3>1, <3>2, <3>3, <3>4, <3>5, <3>6, <3>7, <3>8 DEF RestoreScript
  <2>5. QED BY <2>2, <2>3, <2>4
<1>11. CASE Killed BY <1>a, <1>11, KilledDoes DEF Never
<1>12. CASE UNCHANGED vars
  <2>1. Taking' = Taking /\ Restored' = Restored /\ (\A id \in Ids : Deleting(id)' <=> Deleting(id))
    BY <1>12 DEF vars, Taking, Restored, Deleting
  <2>2. /\ UNCHANGED <<engine, acked, index, set, backup, restore>> /\ (service' <=> service)
    BY <1>12 DEF vars, stand
  <2>3. Indexed(acked, engine, index)' <=> Indexed(acked, engine, index) BY <2>2 DEF Indexed
  <2>4. QED BY <1>1, <1>2, <1>3, <1>4, <1>5, <2>1, <2>2, <2>3
<1>13. QED BY <1>6, <1>7, <1>8, <1>9, <1>10, <1>11, <1>12 DEF Next

-----------------------------------------------------------------------------
(* What is done has its row.                                               *)

\* The conjuncts of RowsInv, taken apart.
LEMMA RowsParts ==
    ASSUME RowsInv, Never({"dump not restored", "killed"})
    PROVE  /\ service /\ restore.at = "idle" => Covered(engine, rows)
           /\ written \subseteq rows \cup dropped
           /\ backup.at # "idle" => Covered(Taking.engine, rows)
           /\ \A id \in Ids : set[id].dump = "there" => Covered(set[id].engine, set[id].rows)
           /\ restore.at = "rows" => written \subseteq restore.late
           /\ restore.at \in {"start", "rows"} /\ Restored.dump = "there" =>
                  Covered(engine, Restored.rows \cup restore.late)
BY DEF RowsInv

LEMMA RowsWork ==
    ASSUME TypeOK, ScriptsInv, RowsInv, Work, Never({"dump not restored", "killed"})
    PROVE  RowsInv'
<1>1. /\ UNCHANGED <<set, backup, deletion, dropped, faults>> /\ service /\ (service' <=> service)
      /\ restore'.at = restore.at /\ restore'.id = restore.id
  <2>1. /\ UNCHANGED <<set, backup, deletion, dropped, faults>> /\ service /\ service' = service
        /\ restore'.at = restore.at /\ restore'.id = restore.id
    BY WorkDoes
  <2>2. service' <=> service BY <2>1
  <2>3. QED BY <2>1, <2>2
<1>2. Taking' = Taking /\ Restored' = Restored BY <1>1 DEF Taking, Restored
<1>3. restore.at # "start" BY <1>1 DEF ScriptsInv
<1>4. PICK i \in Items : Begin(i) \/ WriteRow(i) \/ Finish(i) \/ Export(i) BY DEF Work
<1>5. rows \subseteq rows'
  BY <1>4 DEF Begin, WriteRow, Finish, Export
<1>6. restore \in [at : {"idle", "wipe", "list", "indices", "engine", "start", "rows"},
                   id : 0 .. MaxId, late : SUBSET Items]
  BY DEF TypeOK
<1>7. restore.late \subseteq restore'.late
  BY <1>4, <1>6 DEF Begin, WriteRow, Finish, Export
<1>8. written' \subseteq rows' \cup dropped'
  BY <1>1, <1>4, RowsParts DEF Begin, WriteRow, Finish, Export
<1>9. restore'.at = "rows" => written' \subseteq restore'.late
  <2>1. restore.at = "rows" => written \subseteq restore.late BY RowsParts
  <2>2. CASE WriteRow(i)
    BY <1>1, <1>6, <2>1, <2>2 DEF WriteRow
  <2>3. CASE Begin(i) \/ Finish(i) \/ Export(i)
    BY <1>1, <2>1, <2>3 DEF Begin, Finish, Export
  <2>4. QED BY <1>4, <2>2, <2>3
<1>10. ASSUME NEW rs, NEW more, rs \subseteq more, Covered(engine, rs),
              written \subseteq rs \cup dropped
       PROVE  Covered(engine, more)'
  <2>1. engine \in Stages BY DEF TypeOK
  <2>2. dropped' = dropped BY <1>1
  <2>3. \A j \in Items : engine'[j] = "done" => engine[j] = "done" \/ j \in written
    BY <1>4, <2>1 DEF Begin, WriteRow, Finish, Export, Stages
  <2>4. QED BY <1>10, <2>2, <2>3 DEF Covered
<1>11. service' /\ restore'.at = "idle" => Covered(engine, rows)'
  <2>1. /\ service /\ restore.at = "idle" => Covered(engine, rows)
        /\ written \subseteq rows \cup dropped
    BY RowsParts
  <2>2. QED BY <1>1, <1>5, <1>10, <2>1
<1>12. restore'.at \in {"start", "rows"} /\ Restored'.dump = "there" =>
           Covered(engine, Restored.rows \cup restore.late)'
  <2>1. Restored.rows \cup restore.late \subseteq Restored'.rows \cup restore'.late BY <1>2, <1>7
  <2>2. restore.at = "rows" => written \subseteq (Restored.rows \cup restore.late) \cup dropped
    BY RowsParts
  <2>3. restore.at \in {"start", "rows"} /\ Restored.dump = "there" =>
            Covered(engine, Restored.rows \cup restore.late)
    BY RowsParts
  <2>4. QED BY <1>1, <1>2, <1>3, <1>10, <2>1, <2>2, <2>3
<1>13. backup'.at # "idle" => Covered(Taking.engine, rows)'
  <2>1. backup.at # "idle" => Covered(Taking.engine, rows) BY RowsParts
  <2>2. QED BY <1>1, <1>2, <1>5, <2>1 DEF Covered
<1>14. \A id \in Ids : set'[id].dump = "there" => Covered(set[id].engine, set[id].rows)'
  <2>1. \A id \in Ids : set[id].dump = "there" => Covered(set[id].engine, set[id].rows)
    BY RowsParts
  <2>2. QED BY <1>1, <2>1 DEF Covered
<1>15. QED BY <1>8, <1>9, <1>11, <1>12, <1>13, <1>14 DEF RowsInv

LEMMA RowsStep ==
    ASSUME TypeOK, ScriptsInv, ProgressInv, WholeInv, RowsInv, [Next]_vars
    PROVE  RowsInv'
<1>a. SUFFICES ASSUME Never({"dump not restored", "killed"})' PROVE RowsInv'
  BY DEF RowsInv
<1>0. Never({"dump not restored", "killed"}) BY <1>a, NeverBefore
<1>1. CASE Work BY <1>0, <1>1, RowsWork
<1>2. CASE BackupScript
  <2>1. /\ UNCHANGED <<engine, rows, written, dropped, deletion, restore>>
        /\ service /\ (service' <=> service) /\ restore.at = "idle"
    <3>1. /\ UNCHANGED <<engine, rows, written, dropped, deletion, restore>>
          /\ service' = service /\ service /\ restore.at = "idle"
      BY <1>2, BackupDoes DEF stand
    <3>2. service' <=> service BY <3>1
    <3>3. QED BY <3>1, <3>2
  <2>2. \A es, rs : Covered(es, rs)' <=> \A i \in Items : es'[i] = "done" => i \in rs' \cup dropped
    BY <2>1 DEF Covered
  <2>3. backup'.at # "idle" => Covered(Taking'.engine, rows)
    <3>1. CASE BackupBegins
      <4>1. backup'.id = backup.id + 1 /\ backup'.id \in Ids /\ set' = set
        BY <3>1, BackupAssumption DEF BackupBegins, Ids, TypeOK
      <4>2. Taking' = NoSet
        BY <4>1, BackupAssumption DEF Taking, ProgressInv, Ids, TypeOK
      <4>3. QED BY <4>2 DEF NoSet, Empty, Covered
    <3>2. ASSUME ~BackupBegins PROVE Covered(Taking'.engine, rows)
      <4>1. backup.at # "idle" /\ backup.id \in Ids /\ backup'.id = backup.id
        BY <1>2, <3>2, BackupDoes
      <4>2. Taking'.engine = Taking.engine BY <1>2, <4>1, BackupKeeps DEF Taking
      <4>3. QED BY <1>0, <4>1, <4>2, RowsParts
    <3>3. QED BY <3>1, <3>2
  <2>4. \A id \in Ids : set'[id].dump = "there" => Covered(set'[id].engine, set'[id].rows)
    <3>1. TAKE id \in Ids
    <3>2. set'[id].engine = set[id].engine BY <1>2, BackupKeeps
    <3>3. CASE set'[id].dump = set[id].dump /\ set'[id].rows = set[id].rows
      BY <1>0, <3>2, <3>3, RowsParts
    <3>4. CASE id = backup.id /\ backup.at = "dump" /\ set'[id].rows = rows
      BY <1>0, <3>2, <3>4, RowsParts DEF Taking
    <3>5. QED BY <1>2, <3>3, <3>4, BackupKeeps
  <2>5. restore'.at = "idle" BY <2>1
  <2>6. Covered(engine, rows) /\ written \subseteq rows \cup dropped BY <1>0, <2>1, RowsParts
  <2>7. QED BY <2>1, <2>3, <2>4, <2>5, <2>6 DEF RowsInv, Covered
<1>3. CASE Cluster
  <2>1. PICK id \in Ids : TakeHistory(id) \/ TakeRuntime(id) BY <1>3 DEF Cluster
  <2>2. UNCHANGED <<engine, rows, written, dropped, backup, deletion, restore>> /\ (service' <=> service)
    <3>1. /\ UNCHANGED <<engine, rows, written, dropped, backup, deletion, restore>>
          /\ service' = service
      BY <2>1, ClusterTakes DEF stand
    <3>2. service' <=> service BY <3>1
    <3>3. QED BY <3>1, <3>2
  <2>3. set[id].dump = "none" /\ set'[id].dump = "none"
    BY <2>1, ClusterParts DEF ProgressInv
  <2>4. restore.at # "idle" => Restored' = Restored
    BY <2>1, <2>2, <2>3, ClusterParts DEF ScriptsInv, Restored
  <2>5. backup.at # "idle" => Covered(Taking'.engine, rows)
    <3>1. ASSUME backup.at # "idle" PROVE Covered(Taking'.engine, rows)
      <4>1. Covered(Taking.engine, rows) /\ Covered(engine, rows)
        BY <1>0, <3>1, RowsParts DEF ScriptsInv
      <4>2. Taking'.engine = Taking.engine \/ Taking'.engine = engine
        BY <2>1, <2>2, <3>1, ClusterParts DEF ScriptsInv, Taking
      <4>3. QED BY <4>1, <4>2
    <3>2. QED BY <3>1
  <2>6. \A other \in Ids : set'[other].dump = "there" => Covered(set'[other].engine, set'[other].rows)
    BY <1>0, <2>1, <2>3, ClusterParts, RowsParts
  <2>7. /\ service /\ restore.at = "idle" => Covered(engine, rows)
        /\ written \subseteq rows \cup dropped
        /\ restore.at = "rows" => written \subseteq restore.late
        /\ restore.at \in {"start", "rows"} /\ Restored.dump = "there" =>
               Covered(engine, Restored.rows \cup restore.late)
    BY <1>0, RowsParts
  <2>8. QED BY <2>2, <2>4, <2>5, <2>6, <2>7 DEF RowsInv, Covered
<1>4. CASE DeletionScript
  <2>1. /\ UNCHANGED <<engine, rows, written, dropped, backup, restore>> /\ (service' <=> service)
        /\ restore.at = "idle"
    <3>1. /\ UNCHANGED <<engine, rows, written, dropped, backup, restore>> /\ service' = service
          /\ restore.at = "idle"
      BY <1>4, DeletionTouches DEF stand
    <3>2. service' <=> service BY <3>1
    <3>3. QED BY <3>1, <3>2
  <2>2. backup.at # "idle" => Taking' = Taking
    <3>1. ASSUME backup.at # "idle" PROVE Taking' = Taking
      <4>1. backup.id \in Ids /\ (deletion.at = "idle" \/ deletion.id # backup.id)
        BY <3>1, BackupAssumption DEF ScriptsInv, Ids, TypeOK
      <4>2. set'[backup.id] = set[backup.id] BY <1>4, <4>1, DeletionTouches
      <4>3. QED BY <2>1, <4>2 DEF Taking
    <3>2. QED BY <3>1
  <2>3. Covered(Empty, {}) /\ \A rs : Covered(Empty, rs) BY DEF Covered, Empty
  <2>4. \A id \in Ids : set'[id].dump = "there" => Covered(set'[id].engine, set'[id].rows)
    BY <1>0, <1>4, <2>3, DeletionLeaves, RowsParts
  <2>5. /\ service /\ restore.at = "idle" => Covered(engine, rows)
        /\ written \subseteq rows \cup dropped
        /\ backup.at # "idle" => Covered(Taking.engine, rows)
    BY <1>0, RowsParts
  <2>6. QED BY <2>1, <2>2, <2>4, <2>5 DEF RowsInv, Covered
<1>5. CASE RestoreScript
  <2>1. UNCHANGED backup /\ backup.at = "idle" /\ (Wipe \/ set' = set) BY <1>5, RestoreDoes
  <2>2. \A id \in Ids : set'[id].dump = set[id].dump /\ set'[id].rows = set[id].rows
                        /\ set'[id].engine = set[id].engine
    BY <2>1, WipeLeaves
  <2>3. dropped \subseteq dropped'
    BY <1>5, RestoreStarts
       DEF RestoreScript, Wipe, ListSnapshots, RestoreIndices, RestoreEngine, StartAll, RestoreRows,
           RowsNotRestored, RestoreFails, StandStays
  <2>4. \A id \in Ids : set'[id].dump = "there" => Covered(set[id].engine, set[id].rows)'
    BY <1>0, <2>2, <2>3, RowsParts DEF Covered
  <2>5. ASSUME service' /\ restore'.at = "idle" => Covered(engine, rows)',
               written' \subseteq rows' \cup dropped',
               restore'.at = "rows" => written' \subseteq restore'.late,
               restore'.at \in {"start", "rows"} /\ Restored'.dump = "there" =>
                   Covered(engine, Restored.rows \cup restore.late)'
        PROVE  RowsInv'
    BY <2>1, <2>4, <2>5 DEF RowsInv
  <2>6. written \subseteq rows \cup dropped BY <1>0, RowsParts
  <2>7. restore \in [at : {"idle", "wipe", "list", "indices", "engine", "start", "rows"},
                     id : 0 .. MaxId, late : SUBSET Items]
    BY DEF TypeOK
  <2>8. CASE \E id \in Ids : RestoreBegins(id)
    <3>1. UNCHANGED stand /\ dropped' = dropped /\ restore'.at = "wipe" BY <2>8, RestoreStarts
    <3>2. QED BY <2>5, <2>6, <3>1 DEF stand
  <2>9. CASE Wipe
    <3>1. written' = {} /\ restore'.at = "list" BY <2>7, <2>9 DEF Wipe, RestoreTo
    <3>2. QED BY <2>5, <3>1
  <2>10. CASE ListSnapshots \/ RestoreFails \/ RestoreIndices
    <3>1. restore'.at \in {"idle", "indices", "engine"}
      BY <2>7, <2>10 DEF ListSnapshots, RestoreFails, RestoreIndices, RestoreTo
    <3>2. written' = written /\ rows' = rows /\ dropped' = dropped
      BY <2>10 DEF ListSnapshots, RestoreFails, RestoreIndices, StandStays, stand
    <3>3. ~service'
      BY <2>10 DEF ListSnapshots, RestoreFails, RestoreIndices, RestoreAt, ScriptsInv, StandStays, stand
    <3>4. QED BY <2>5, <2>6, <3>1, <3>2, <3>3
  <2>11. CASE RestoreEngine
    <3>1. ~service' /\ written' = written /\ rows' = rows /\ dropped' = dropped /\ set' = set
      BY <2>11 DEF RestoreEngine, RestoreAt, ScriptsInv
    <3>2. restore'.at \in {"idle", "start"} /\ restore'.id = restore.id
      BY <2>7, <2>11 DEF RestoreEngine, RestoreTo
    <3>3. restore'.at = "start" => engine' = Restored.engine
      BY <2>7, <2>11 DEF RestoreEngine, RestoreTo
    <3>4. restore.id \in Ids /\ Restored' = Restored
      BY <2>11, <3>1, <3>2 DEF RestoreEngine, RestoreAt, ScriptsInv, Restored
    <3>5. Restored.dump = "there" => Covered(Restored.engine, Restored.rows)
      BY <1>0, <3>4, RowsParts DEF Restored
    <3>6. QED BY <2>5, <2>6, <3>1, <3>2, <3>3, <3>4, <3>5 DEF Covered
  <2>12. CASE StartAll
    <3>1. /\ restore'.at = "rows" /\ restore'.id = restore.id /\ restore'.late = restore.late
          /\ UNCHANGED <<engine, rows, written, set, dropped>> /\ restore.at = "start"
      BY <2>7, <2>12 DEF StartAll, RestoreAt, RestoreTo
    <3>2. written = {} BY <3>1 DEF ScriptsInv
    <3>3. Restored' = Restored BY <3>1 DEF Restored
    <3>4. Restored.dump = "there" => Covered(engine, Restored.rows \cup restore.late)
      BY <1>0, <3>1, RowsParts
    <3>5. QED BY <2>5, <3>1, <3>2, <3>3, <3>4 DEF Covered
  <2>13. CASE RestoreRows
    <3>1. /\ restore'.at = "idle" /\ restore.at = "rows" /\ Restored.dump = "there"
          /\ rows' = Restored.rows /\ dropped' = dropped \cup (restore.late \ Restored.rows)
          /\ engine' = engine /\ written' = written
      BY <2>7, <2>13 DEF RestoreRows, RestoreAt
    <3>2. /\ written \subseteq restore.late
          /\ Covered(engine, Restored.rows \cup restore.late)
      BY <1>0, <3>1, RowsParts
    <3>3. Covered(engine, rows)' BY <3>1, <3>2 DEF Covered
    <3>4. QED BY <2>5, <3>1, <3>2, <3>3
  <2>14. CASE RowsNotRestored BY <1>a, <2>14 DEF RowsNotRestored, Fault, Never
  <2>15. QED
    BY <1>5, <2>8, <2>9, <2>10, <2>11, <2>12, <2>13, <2>14 DEF RestoreScript
<1>6. CASE Killed BY <1>a, <1>6, KilledDoes DEF Never
<1>7. CASE UNCHANGED vars
  <2>1. /\ UNCHANGED <<engine, rows, written, dropped, set, backup, restore, faults>>
        /\ (service' <=> service)
    BY <1>7 DEF vars, stand
  <2>2. Taking' = Taking /\ Restored' = Restored BY <2>1 DEF Taking, Restored
  <2>3. QED BY <2>1, <2>2 DEF RowsInv, Covered, Never
<1>8. QED BY <1>1, <1>2, <1>3, <1>4, <1>5, <1>6, <1>7 DEF Next

-----------------------------------------------------------------------------
(* The theorems.                                                           *)

SafetyInv ==
    TypeOK /\ ScriptsInv /\ ProgressInv /\ OrderInv /\ PauseInv /\ WholeInv /\ IndexInv /\ RowsInv

LEMMA SafetyInit ==
    ASSUME Init
    PROVE  SafetyInv
<1>1. TypeOK
  <2>1. 0 \in 0 .. MaxId BY BackupAssumption
  <2>2. set \in [Ids -> Sets] BY EmptyType DEF Init
  <2>3. StandTypes BY EmptyType DEF Init, StandTypes
  <2>4. ScriptTypes BY <2>1 DEF Init, ScriptTypes
  <2>5. faults \subseteq Kinds BY DEF Init
  <2>6. QED BY <2>2, <2>3, <2>4, <2>5, TypeParts
<1>2. /\ \A id \in Ids : set[id] = NoSet
      /\ NoSet.dump = "none" /\ NoSet.engine = Empty /\ NoSet.acked = Empty
  BY DEF Init, NoSet
<1>3. backup.at = "idle" /\ deletion.at = "idle" /\ restore.at = "idle" /\ service BY DEF Init
<1>4. ScriptsInv BY <1>3 DEF ScriptsInv
<1>5. ProgressInv BY <1>2, <1>3 DEF ProgressInv
<1>6. AllBehind(Empty, Empty) BY DEF AllBehind, Behind
<1>7. OrderInv BY <1>2, <1>6 DEF OrderInv, Init
<1>8. PauseInv BY <1>3 DEF PauseInv, Init, InPause, Paused
<1>9. WholeInv BY <1>2 DEF WholeInv
<1>10. IndexInv
  <2>1. Indexed(Empty, Empty, Empty) BY DEF Indexed
  <2>2. Indexed(acked, engine, index) BY <2>1 DEF Init
  <2>3. QED BY <1>2, <1>3, <2>2 DEF IndexInv, InPause, Paused
<1>11. RowsInv
  <2>1. \A rs : Covered(Empty, rs) BY DEF Covered, Empty
  <2>2. Covered(engine, rows) /\ written = {} /\ service BY <2>1 DEF Init
  <2>3. QED BY <1>2, <1>3, <2>2 DEF RowsInv
<1>12. QED BY <1>1, <1>4, <1>5, <1>7, <1>8, <1>9, <1>10, <1>11 DEF SafetyInv

LEMMA SafetyStep ==
    ASSUME SafetyInv, [Next]_vars
    PROVE  SafetyInv'
BY TypeStep, ScriptsStep, ProgressStep, OrderStep, PauseStep, WholeStep, IndexStep, RowsStep
   DEF SafetyInv

\* Every part of a set follows the data from the stand into the set and back.
THEOREM StandSafety == Spec => []SafetyInv
<1>1. Init => SafetyInv BY SafetyInit
<1>2. SafetyInv /\ [Next]_vars => SafetyInv' BY SafetyStep
<1>3. QED BY <1>1, <1>2, PTL DEF Spec

\* backup.sh, delete-backup.sh and restore.sh keep the stand, the sets and
\* their own progress within their types, whatever fails.
THEOREM TypeCorrect == Spec => []TypeOK
<1>1. SafetyInv => TypeOK BY DEF SafetyInv
<1>2. QED BY <1>1, StandSafety, PTL

\* A backup that is over has resumed the exporter, wherever it stopped, unless
\* the pause or the resume was not answered or the script was killed.
THEOREM NoPauseLeftBehind == Spec => []ExportingResumed
<1>1. SafetyInv => ExportingResumed
  BY DEF SafetyInv, PauseInv, ExportingResumed, BackupAt, Paused
<1>2. QED BY <1>1, StandSafety, PTL

\* What the exporter will not export again is in the index, also after any
\* sequence of backups, deletions and restores.
THEOREM NothingLostToTheIndex == Spec => []AcknowledgedIsIndexed
<1>1. SafetyInv => AcknowledgedIsIndexed
  BY DEF SafetyInv, IndexInv, Indexed, AcknowledgedIsIndexed
<1>2. QED BY <1>1, StandSafety, PTL

\* restore.sh wipes the stand only for a set it can put in its place, though it
\* looks at the dump alone: half a deletion and a kill aside, a dump comes last
\* and goes last.
THEOREM DumpIsSignOfWholeSet == Spec => []WipedForWholeSet
<1>1. SafetyInv => WipedForWholeSet
  <2>1. SUFFICES ASSUME SafetyInv, restore.at # "idle", Never({"deletion failed", "killed"})
                 PROVE  Whole(Restored)
    BY DEF WipedForWholeSet, Whole
  <2>2. restore.id \in Ids /\ Restored.dump # "none" /\ deletion.at = "idle"
    BY <2>1 DEF SafetyInv, ScriptsInv
  <2>3. QED BY <2>1, <2>2 DEF SafetyInv, WholeInv, Deleting, Restored
<1>2. QED BY <1>1, StandSafety, PTL

\* The dump of a set has the rows of all that is done in its engine part, or
\* pg_restore took them away: the dump is taken last, and the engine part is
\* never ahead of the rows.
THEOREM DumpIsNotBehind == Spec => []DumpCoversEngine
<1>1. SafetyInv => DumpCoversEngine
  BY DEF SafetyInv, RowsInv, Covered, DumpCoversEngine
<1>2. QED BY <1>1, StandSafety, PTL

\* No decision without its row but those that pg_restore took away, through any
\* number of backups and restores.
THEOREM NoDecisionWithoutRow == Spec => []AuditCoversEngine
<1>1. SafetyInv => AuditCoversEngine
  BY DEF SafetyInv, RowsInv, Covered, AuditCoversEngine
<1>2. QED BY <1>1, StandSafety, PTL
=============================================================================
