----------------------------- MODULE StandBackup -----------------------------
(***************************************************************************)
(* Backup, deletion of backups and restore of the stand (tests/ops), call  *)
(* by call, beside the work that goes on meanwhile.                        *)
(*                                                                         *)
(* The stand keeps its data in three stores: the engine, the index of the  *)
(* web apps that the engine exports to, and the audit rows in PostgreSQL.   *)
(* backup.sh takes a part of each while work goes on; restore.sh throws    *)
(* all away and puts the parts of one set in their place.  Each script may *)
(* fail at every call.                                                     *)
(***************************************************************************)
EXTENDS Naturals, FiniteSets

CONSTANTS
    Items,     \* pieces of work: an instance, its decision and the row of it
    MaxId,     \* bound: backups taken
    MaxFaults  \* bound: kinds of fault in a run

ASSUME BackupAssumption == MaxId \in Nat /\ MaxFaults \in Nat

VARIABLES
    engine,     \* how far each item is, in the engine
    acked,      \* what of it the exporter has acknowledged
    index,      \* what of it the web apps' index holds
    rows,       \* the audit rows
    written,    \* items whose worker has its row and has yet to report
    exporting,  \* "running" or "paused"
    service,    \* orchestration cluster and workers are up
    set,        \* set[id]: the parts of the backup id
    backup,     \* backup.sh
    deletion,   \* delete-backup.sh
    restore,    \* restore.sh; "late": rows written since it started the stand
    dropped,    \* rows that pg_restore took away behind a worker's back
    faults      \* kinds of fault so far

stand == <<engine, acked, index, rows, written, service>>
vars  == <<stand, exporting, set, backup, deletion, restore, dropped, faults>>

-----------------------------------------------------------------------------

Ids    == 1 .. MaxId
Stages == [Items -> {"absent", "active", "done"}]
Empty  == [i \in Items |-> "absent"]

\* A part is requested, taken or failed; "failed" of a dump is a file that
\* pg_dump did not finish.
Parts == {"none", "running", "there", "failed"}
Sets ==
    [web : Parts, index : Stages,                     \* camunda_webapps_<id>_*
     dated : BOOLEAN,                                 \* camunda_dated_<id>
     zeebe : Parts, engine : Stages, acked : Stages,  \* backupRuntime <id>
     dump : Parts, rows : SUBSET Items]               \* camunda_support_<id>.dump
NoSet ==
    [web |-> "none", index |-> Empty, dated |-> FALSE,
     zeebe |-> "none", engine |-> Empty, acked |-> Empty,
     dump |-> "none", rows |-> {}]

Paused == {"history", "history-wait", "dated", "runtime", "runtime-wait", "resume", "trap"}

Kinds == {"pause unanswered", "resume failed", "killed", "backup failed", "deletion failed",
          "no answer to the search", "snapshot not restored", "restore failed",
          "dump not restored"}

\* backup.sh believes in the pause only between its own pause and resume.
TypeOK ==
    /\ {engine, acked, index} \subseteq Stages
    /\ rows \subseteq Items /\ written \subseteq Items /\ dropped \subseteq Items
    /\ exporting \in {"running", "paused"} /\ service \in BOOLEAN
    /\ set \in [Ids -> Sets]
    /\ backup \in [at : Paused \cup {"idle", "sync", "pause", "dump"},
                   id : 0 .. MaxId, paused : BOOLEAN]
    /\ backup.paused => backup.at \in Paused
    /\ deletion \in [at : {"idle", "web", "dated", "zeebe", "dump"}, id : 0 .. MaxId]
    /\ restore \in [at : {"idle", "wipe", "list", "indices", "engine", "start", "rows"},
                    id : 0 .. MaxId, late : SUBSET Items]
    /\ faults \subseteq Kinds

Init ==
    /\ engine = Empty /\ acked = Empty /\ index = Empty
    /\ rows = {} /\ written = {} /\ dropped = {}
    /\ exporting = "running" /\ service = TRUE
    /\ set = [id \in Ids |-> NoSet]
    /\ backup = [at |-> "idle", id |-> 0, paused |-> FALSE]
    /\ deletion = [at |-> "idle", id |-> 0]
    /\ restore = [at |-> "idle", id |-> 0, late |-> {}]
    /\ faults = {}

Fault(kind) ==
    /\ faults' = faults \cup {kind}
    /\ Cardinality(faults') <= MaxFaults

-----------------------------------------------------------------------------
(* The work that goes on, and the exporter.                                *)

scripts == <<set, backup, deletion, dropped, faults>>

Begin(i) ==
    /\ service /\ engine[i] = "absent"
    /\ engine' = [engine EXCEPT ![i] = "active"]
    /\ UNCHANGED <<acked, index, rows, written, service, exporting, restore, scripts>>

\* A worker writes the row before it reports (D5-3).
WriteRow(i) ==
    /\ service /\ engine[i] = "active" /\ i \notin written
    /\ rows' = rows \cup {i}
    /\ written' = written \cup {i}
    /\ restore' = IF restore.at = "rows" THEN [restore EXCEPT !.late = @ \cup {i}] ELSE restore
    /\ UNCHANGED <<engine, acked, index, service, exporting, scripts>>

Finish(i) ==
    /\ service /\ i \in written
    /\ engine' = [engine EXCEPT ![i] = "done"]
    /\ written' = written \ {i}
    /\ UNCHANGED <<acked, index, rows, service, exporting, restore, scripts>>

\* A soft pause exports on and acknowledges nothing.
Export(i) ==
    /\ service
    /\ IF exporting = "running"
       THEN acked[i] # engine[i] /\ acked' = [acked EXCEPT ![i] = engine[i]]
       ELSE acked[i] # engine[i] /\ index[i] # engine[i] /\ UNCHANGED acked
    /\ index' = [index EXCEPT ![i] = engine[i]]
    /\ UNCHANGED <<engine, rows, written, service, exporting, restore, scripts>>

Work == \E i \in Items : Begin(i) \/ WriteRow(i) \/ Finish(i) \/ Export(i)

-----------------------------------------------------------------------------
(* backup.sh.                                                              *)

BackupAt(step) == backup.at = step
BackupTo(step) == backup' = [backup EXCEPT !.at = step]
Taking         == set[backup.id]
Take(part)     == set' = [set EXCEPT ![backup.id] = part]
Undisturbed    == UNCHANGED faults
BesidesBackup  == UNCHANGED <<stand, deletion, restore, dropped>>

\* Ids are times; no backup is started while a restore goes on.
BackupBegins ==
    /\ BackupAt("idle") /\ restore.at = "idle" /\ service
    /\ backup.id < MaxId
    /\ backup' = [at |-> "sync", id |-> backup.id + 1, paused |-> FALSE]
    /\ Undisturbed /\ BesidesBackup /\ UNCHANGED <<exporting, set>>

InSync == \A i \in Items : acked[i] = engine[i]

\* Deviation: the database is dumped first.
SyncedDumpingFirst ==
    /\ BackupAt("sync") /\ InSync
    /\ Take([Taking EXCEPT !.dump = "there", !.rows = rows])
    /\ BackupTo("pause")
    /\ Undisturbed /\ BesidesBackup /\ UNCHANGED exporting

\* wait_exporter_sync: the exporter has acknowledged all that is processed.
Synced ==
    /\ BackupAt("sync") /\ InSync
    /\ BackupTo("pause")
    /\ Undisturbed /\ BesidesBackup /\ UNCHANGED <<exporting, set>>

SyncTimesOut ==
    /\ BackupAt("sync") /\ ~InSync
    /\ BackupTo("idle")
    /\ Undisturbed /\ BesidesBackup /\ UNCHANGED <<exporting, set>>

\* Deviation: the parts are taken without a pause.
PauseNoted ==
    /\ BackupAt("pause")
    /\ backup' = [backup EXCEPT !.at = "history", !.paused = TRUE]
    /\ Undisturbed /\ BesidesBackup /\ UNCHANGED <<exporting, set>>

Pause ==
    /\ BackupAt("pause")
    /\ exporting' = "paused"
    /\ backup' = [backup EXCEPT !.at = "history", !.paused = TRUE]
    /\ Undisturbed /\ BesidesBackup /\ UNCHANGED set

\* No status 204 comes back, whether or not the exporter has paused: the
\* script ends, and its trap knows of no pause.
PauseUnanswered ==
    /\ BackupAt("pause")
    /\ Fault("pause unanswered")
    /\ exporting' \in {exporting, "paused"}
    /\ BackupTo("idle")
    /\ BesidesBackup /\ UNCHANGED set

RequestHistory ==
    /\ BackupAt("history")
    /\ Take([Taking EXCEPT !.web = "running"])
    /\ BackupTo("history-wait")
    /\ Undisturbed /\ BesidesBackup /\ UNCHANGED exporting

TakeDated ==
    /\ BackupAt("dated")
    /\ \E dated \in BOOLEAN : Take([Taking EXCEPT !.dated = dated])
    /\ BackupTo("runtime")
    /\ Undisturbed /\ BesidesBackup /\ UNCHANGED exporting

RequestRuntime ==
    /\ BackupAt("runtime")
    /\ Take([Taking EXCEPT !.zeebe = "running"])
    /\ BackupTo("runtime-wait")
    /\ Undisturbed /\ BesidesBackup /\ UNCHANGED exporting

\* poll_state sees COMPLETED.
Polled ==
    /\ \/ BackupAt("history-wait") /\ Taking.web = "there" /\ BackupTo("dated")
       \/ BackupAt("runtime-wait") /\ Taking.zeebe = "there" /\ BackupTo("resume")
    /\ Undisturbed /\ BesidesBackup /\ UNCHANGED <<exporting, set>>

\* A request that is not answered ends the script; poll_state does, at FAILED
\* or after 600 s.
PollFails ==
    /\ \/ backup.at \in {"history", "dated", "runtime"}
       \/ BackupAt("history-wait") /\ Taking.web # "there"
       \/ BackupAt("runtime-wait") /\ Taking.zeebe # "there"
    /\ Fault("backup failed")
    /\ BackupTo("trap")
    /\ BesidesBackup /\ UNCHANGED <<exporting, set>>

\* Deviation: paused=0 is left out.
ResumeKeepingNote ==
    /\ BackupAt("resume")
    /\ exporting' = "running"
    /\ BackupTo("dump")
    /\ Undisturbed /\ BesidesBackup /\ UNCHANGED set

Resume ==
    /\ BackupAt("resume")
    /\ exporting' = "running"
    /\ backup' = [backup EXCEPT !.at = "dump", !.paused = FALSE]
    /\ Undisturbed /\ BesidesBackup /\ UNCHANGED set

\* A status other than 204 is logged and nothing else; without an answer the
\* script ends in its trap, which tries once more.
ResumeFails ==
    /\ BackupAt("resume")
    /\ Fault("resume failed")
    /\ \/ UNCHANGED exporting /\ backup' = [backup EXCEPT !.at = "dump", !.paused = FALSE]
       \/ exporting' \in {exporting, "running"} /\ BackupTo("trap")
    /\ BesidesBackup /\ UNCHANGED set

\* Deviation: a script that ends without its trap.
EndWithoutTrap ==
    /\ BackupAt("trap")
    /\ backup' = [backup EXCEPT !.at = "idle", !.paused = FALSE]
    /\ Undisturbed /\ BesidesBackup /\ UNCHANGED <<exporting, set>>

Trap ==
    /\ BackupAt("trap")
    /\ exporting' = IF backup.paused THEN "running" ELSE exporting
    /\ backup' = [backup EXCEPT !.at = "idle", !.paused = FALSE]
    /\ Undisturbed /\ BesidesBackup /\ UNCHANGED set

TrapFails ==
    /\ BackupAt("trap")
    /\ Fault("resume failed")
    /\ backup' = [backup EXCEPT !.at = "idle", !.paused = FALSE]
    /\ BesidesBackup /\ UNCHANGED <<exporting, set>>

\* pg-backup.sh, the last step.
Dump ==
    /\ BackupAt("dump")
    /\ Take([Taking EXCEPT !.dump = "there", !.rows = rows])
    /\ BackupTo("idle")
    /\ Undisturbed /\ BesidesBackup /\ UNCHANGED exporting

DumpFails ==
    /\ BackupAt("dump")
    /\ Fault("backup failed")
    /\ \E dump \in {"none", "failed"} : Take([Taking EXCEPT !.dump = dump])
    /\ BackupTo("idle")
    /\ BesidesBackup /\ UNCHANGED exporting

BackupScript ==
    \/ BackupBegins \/ Synced \/ SyncTimesOut \/ Pause \/ PauseUnanswered
    \/ RequestHistory \/ TakeDated \/ RequestRuntime \/ Polled \/ PollFails
    \/ Resume \/ ResumeFails \/ Trap \/ TrapFails \/ Dump \/ DumpFails

\* The cluster takes what was requested, though the script may have given up.
TakeHistory(id) ==
    /\ service /\ set[id].web = "running"
    /\ \/ set' = [set EXCEPT ![id].web = "there", ![id].index = index] /\ UNCHANGED faults
       \/ set' = [set EXCEPT ![id].web = "failed"] /\ Fault("backup failed")
    /\ UNCHANGED <<stand, exporting, backup, deletion, restore, dropped>>

TakeRuntime(id) ==
    /\ service /\ set[id].zeebe = "running"
    /\ \/ /\ set' = [set EXCEPT ![id].zeebe = "there", ![id].engine = engine, ![id].acked = acked]
          /\ UNCHANGED faults
       \/ set' = [set EXCEPT ![id].zeebe = "failed"] /\ Fault("backup failed")
    /\ UNCHANGED <<stand, exporting, backup, deletion, restore, dropped>>

Cluster == \E id \in Ids : TakeHistory(id) \/ TakeRuntime(id)

-----------------------------------------------------------------------------
(* delete-backup.sh.                                                       *)

Known(id) ==
    set[id].dated \/ {set[id].web, set[id].zeebe, set[id].dump} # {"none"}
InProgress == \E id \in Ids : "running" \in {set[id].web, set[id].zeebe}

DeletionTo(step)  == deletion' = [deletion EXCEPT !.at = step]
Delete(part)      == set' = [set EXCEPT ![deletion.id] = part]
BesidesDeletion   == UNCHANGED <<stand, exporting, backup, restore, dropped>>

\* Refused for the newest set and while a part of any set is in progress.
DeletionBegins(id) ==
    /\ deletion.at = "idle" /\ restore.at = "idle" /\ service
    /\ Known(id) /\ \E newer \in Ids : newer > id /\ Known(newer)
    /\ ~InProgress
    /\ deletion' = [at |-> "web", id |-> id]
    /\ Undisturbed /\ BesidesDeletion /\ UNCHANGED set

DeleteWeb ==
    /\ deletion.at = "web" /\ service
    /\ Delete([set[deletion.id] EXCEPT !.web = "none", !.index = Empty])
    /\ DeletionTo("dated")
    /\ Undisturbed /\ BesidesDeletion

DeleteDated ==
    /\ deletion.at = "dated" /\ service
    /\ Delete([set[deletion.id] EXCEPT !.dated = FALSE])
    /\ DeletionTo("zeebe")
    /\ Undisturbed /\ BesidesDeletion

DeleteZeebe ==
    /\ deletion.at = "zeebe" /\ service
    /\ Delete([set[deletion.id] EXCEPT !.zeebe = "none", !.engine = Empty, !.acked = Empty])
    /\ DeletionTo("dump")
    /\ Undisturbed /\ BesidesDeletion

DeleteDump ==
    /\ deletion.at = "dump"
    /\ Delete([set[deletion.id] EXCEPT !.dump = "none", !.rows = {}])
    /\ DeletionTo("idle")
    /\ Undisturbed /\ BesidesDeletion

DeletionFails ==
    /\ deletion.at # "idle"
    /\ Fault("deletion failed")
    /\ DeletionTo("idle")
    /\ BesidesDeletion /\ UNCHANGED set

DeletionScript ==
    \/ \E id \in Ids : DeletionBegins(id)
    \/ DeleteWeb \/ DeleteDated \/ DeleteZeebe \/ DeleteDump \/ DeletionFails

-----------------------------------------------------------------------------
(* restore.sh.                                                             *)

RestoreAt(step) == restore.at = step
RestoreTo(step) == restore' = [restore EXCEPT !.at = step]
Restored        == set[restore.id]
BesidesRestore  == UNCHANGED <<backup, deletion>>
StandStays      == UNCHANGED <<stand, exporting, set, dropped>>

NoneActive == \A i \in Items : index[i] # "active"

\* No other script runs, by hand.  The search for running instances reads the
\* index; no answer to it is taken for a stand that is down.
Starting(id) ==
    /\ RestoreAt("idle") /\ backup.at = "idle" /\ deletion.at = "idle"
    /\ \/ (service => NoneActive) /\ Undisturbed
       \/ service /\ Fault("no answer to the search")
    /\ restore' = [at |-> "wipe", id |-> id, late |-> {}]
    /\ BesidesRestore /\ StandStays

\* Deviation: the dump of the set is not looked for.
RestoreBeginsUnchecked(id) == Known(id) /\ Starting(id)

RestoreBegins(id) == set[id].dump # "none" /\ Starting(id)

\* Down, the two volumes removed, and a clean start of the cluster alone, which
\* seeds the templates.  What the cluster was taking is lost.
Wipe ==
    /\ RestoreAt("wipe")
    /\ engine' = Empty /\ acked' = Empty /\ index' = Empty
    /\ written' = {} /\ service' = FALSE /\ exporting' = "running"
    /\ set' = [id \in Ids |->
                   [set[id] EXCEPT !.web = IF @ = "running" THEN "failed" ELSE @,
                                   !.zeebe = IF @ = "running" THEN "failed" ELSE @]]
    /\ RestoreTo("list")
    /\ Undisturbed /\ BesidesRestore /\ UNCHANGED <<rows, dropped>>

\* Any snapshot of the set will do.
ListSnapshots ==
    /\ RestoreAt("list")
    /\ RestoreTo(IF Restored.web # "none" \/ Restored.dated THEN "indices" ELSE "idle")
    /\ Undisturbed /\ BesidesRestore /\ StandStays

\* The status of a snapshot's restore is printed only.
RestoreIndices ==
    /\ RestoreAt("indices")
    /\ \/ index' = (IF Restored.web = "there" THEN Restored.index ELSE Empty) /\ Undisturbed
       \/ index' = Empty /\ Fault("snapshot not restored")
    /\ RestoreTo("engine")
    /\ BesidesRestore /\ UNCHANGED <<engine, acked, rows, written, service, exporting, set, dropped>>

\* bin/restore into an empty volume; without the set's part it is an error.
RestoreEngine ==
    /\ RestoreAt("engine")
    /\ IF Restored.zeebe = "there"
       THEN engine' = Restored.engine /\ acked' = Restored.acked /\ RestoreTo("start")
       ELSE UNCHANGED <<engine, acked>> /\ RestoreTo("idle")
    /\ Undisturbed /\ BesidesRestore
    /\ UNCHANGED <<index, rows, written, service, exporting, set, dropped>>

\* docker compose up -d: the workers too.
StartAll ==
    /\ RestoreAt("start")
    /\ service' = TRUE
    /\ RestoreTo("rows")
    /\ Undisturbed /\ BesidesRestore
    /\ UNCHANGED <<engine, acked, index, rows, written, exporting, set, dropped>>

\* pg-restore.sh: the tables are those of the dump.
RestoreRows ==
    /\ RestoreAt("rows") /\ Restored.dump = "there"
    /\ rows' = Restored.rows
    /\ dropped' = dropped \cup (restore.late \ Restored.rows)
    /\ restore' = [restore EXCEPT !.at = "idle", !.late = {}]
    /\ Undisturbed /\ BesidesRestore
    /\ UNCHANGED <<engine, acked, index, written, service, exporting, set>>

RowsNotRestored ==
    /\ RestoreAt("rows")
    /\ \/ Fault("dump not restored")
       \/ Restored.dump = "failed" /\ faults' = faults \cup {"dump not restored"}
    /\ restore' = [restore EXCEPT !.at = "idle", !.late = {}]
    /\ BesidesRestore /\ StandStays

RestoreFails ==
    /\ restore.at \in {"list", "indices", "engine", "start"}
    /\ Fault("restore failed")
    /\ RestoreTo("idle")
    /\ BesidesRestore /\ StandStays

RestoreScript ==
    \/ \E id \in Ids : RestoreBegins(id)
    \/ Wipe \/ ListSnapshots \/ RestoreIndices \/ RestoreEngine \/ StartAll
    \/ RestoreRows \/ RowsNotRestored \/ RestoreFails

-----------------------------------------------------------------------------

\* A script, or the shell it runs in, is killed: no trap.
Killed ==
    /\ Fault("killed")
    /\ \/ /\ ~BackupAt("idle")
          /\ backup' = [backup EXCEPT !.at = "idle", !.paused = FALSE]
          /\ UNCHANGED <<deletion, restore>>
       \/ /\ deletion.at # "idle"
          /\ DeletionTo("idle")
          /\ UNCHANGED <<backup, restore>>
       \/ /\ ~RestoreAt("idle")
          /\ restore' = [restore EXCEPT !.at = "idle", !.late = {}]
          /\ UNCHANGED <<backup, deletion>>
    /\ StandStays

Next == Work \/ BackupScript \/ Cluster \/ DeletionScript \/ RestoreScript \/ Killed

Spec == Init /\ [][Next]_vars

-----------------------------------------------------------------------------
(* Properties.                                                             *)

Never(kinds) == faults \cap kinds = {}

\* "A trap resumes exporting on any failure" (backup-restore.md 2): no backup
\* leaves the exporter paused, whatever of it fails, if the pause and the
\* resume themselves were answered and the script was not killed.
ExportingResumed ==
    BackupAt("idle") /\ Never({"pause unanswered", "resume failed", "killed"}) =>
        exporting = "running"

\* Nothing is lost to the index for good: what the exporter will not export
\* again the index holds, also after a restore of parts that were taken one
\* after the other while work went on.
AcknowledgedIsIndexed ==
    service /\ Never({"snapshot not restored", "deletion failed", "killed"}) =>
        \A i \in Items : acked[i] = engine[i] => index[i] = engine[i]

\* The dump of a set covers its engine part: "a row written between the two
\* steps is in the dump and not in the process data, which is the harmless
\* direction" (backup-restore.md 6).  Not after a restore that left the rows of
\* an earlier time: the next backup takes what the stand has.
DumpCoversEngine ==
    Never({"dump not restored", "killed"}) =>
        \A id \in Ids : set[id].dump = "there" =>
            \A i \in Items : set[id].engine[i] = "done" => i \in set[id].rows \cup dropped

\* restore.sh throws the stand away only for a set it can put in its place,
\* though all it looks at before is the dump: unless a deletion was left half
\* done, a dump is the last sign of a whole set.
WipedForWholeSet ==
    restore.at # "idle" /\ Never({"deletion failed", "killed"}) =>
        Restored.web = "there" /\ Restored.zeebe = "there"

\* No decision without its audit row (D5-3), across backups and restores: but
\* for the rows that the workers wrote between the start of the stand and
\* pg_restore, which takes them away.
AuditCoversEngine ==
    service /\ restore.at = "idle" /\ Never({"dump not restored", "killed"}) =>
        \A i \in Items : engine[i] = "done" => i \in rows \cup dropped
=============================================================================
