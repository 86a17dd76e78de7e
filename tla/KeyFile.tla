------------------------------- MODULE KeyFile -------------------------------
(***************************************************************************)
(* The file the keys are saved in: save_keys_file and atomic_write of      *)
(* openvidia/config.py, create_backup of openvidia/safe_file.py.           *)
(*                                                                         *)
(* Processes see the file as the page cache has it; a power loss leaves    *)
(* what reached the disk.  A rename may or may not have reached it until   *)
(* the directory is synced, and so may the data of a file until the file   *)
(* is; "durable" holds every content a power loss could leave now.         *)
(*                                                                         *)
(* A save goes  backup -> stage -> sync -> replace -> syncdir,  and any    *)
(* step from "stage" on may raise, which removes the temporary file.       *)
(*                                                                         *)
(* Backups are sorted by the time of modification they copied from the     *)
(* file, which is when its temporary file was written, not when that was   *)
(* renamed: a save that was overtaken leaves a "late" file, whose backup   *)
(* may be sorted behind that of the version it overwrote.                  *)
(***************************************************************************)
EXTENDS Naturals, Sequences, FiniteSets

CONSTANTS
  Proxy,       \* the proxy processes of one machine
  Key,         \* the API keys
  MaxBackups,  \* max_backups
  Torn         \* what is left of a file whose data never reached the disk

ASSUME FileSizes == MaxBackups \in Nat \ {0} /\ Torn \notin SUBSET Key

VARIABLES
  file,     \* keys.json as processes read it, whether its data is on disk, and
            \* whether it was staged before the version it overwrote was renamed
  durable,  \* the contents a power loss could leave of it
  backups,  \* its backups, the newest first
  save      \* the save each process is in the middle of

fileVars == <<file, durable, backups, save>>

Pools == SUBSET Key
Steps == {"none", "backup", "stage", "sync", "replace", "syncdir"}

\* "overtaken": another process has renamed a version of its own since the save
\* began.
NoSave == [step |-> "none", keys |-> {}, synced |-> FALSE, backed |-> FALSE,
           overtaken |-> FALSE]

FileTypeOK ==
  /\ file \in [keys : Pools \cup {Torn}, synced : BOOLEAN, late : BOOLEAN]
  /\ durable \in SUBSET (Pools \cup {Torn}) /\ durable # {}
  /\ backups \in Seq(Pools \cup {Torn}) /\ Len(backups) <= MaxBackups
  /\ save \in [Proxy -> [step : Steps, keys : Pools,
                         synced : BOOLEAN, backed : BOOLEAN, overtaken : BOOLEAN]]

FileInit(keys) ==
  /\ file = [keys |-> keys, synced |-> TRUE, late |-> FALSE]
  /\ durable = {keys}
  /\ backups = <<>>
  /\ save = [p \in Proxy |-> NoSave]

Saving(p) == save[p].step # "none"

\* What a power loss leaves of a file that is in the directory.
Survivor(f) == IF f.synced THEN f.keys ELSE Torn

\* Mutants: one backup too many is kept; the oldest are kept (cleanup_old_backups
\* without its reverse=True).
NewestAndOne(s) == SubSeq(s, 1, IF Len(s) <= MaxBackups THEN Len(s) ELSE MaxBackups + 1)
Oldest(s) == SubSeq(s, IF Len(s) <= MaxBackups THEN 1 ELSE Len(s) - MaxBackups + 1, Len(s))

\* The newest MaxBackups of a list of backups.
Newest(s) == SubSeq(s, 1, IF Len(s) <= MaxBackups THEN Len(s) ELSE MaxBackups)

\* The backups with one more, behind the first i of them.
BackedBehind(i) ==
  SubSeq(backups, 1, i) \o <<file.keys>> \o SubSeq(backups, i + 1, Len(backups))

BeginSave(p, keys) ==
  /\ save' = [save EXCEPT ![p] = [NoSave EXCEPT !.step = "backup", !.keys = keys]]
  /\ UNCHANGED <<file, durable, backups>>

\* create_backup swallows its errors: a save goes on without its backup.
Backup(p) ==
  /\ save[p].step = "backup"
  /\ \/ /\ \E i \in 0..Len(backups) : /\ i = 0 \/ file.late
                                      /\ backups' = Newest(BackedBehind(i))
        /\ save' = [save EXCEPT ![p].step = "stage", ![p].backed = TRUE]
     \/ /\ save' = [save EXCEPT ![p].step = "stage"]
        /\ UNCHANGED backups
  /\ UNCHANGED <<file, durable>>

\* A temporary file of its own (mkstemp) takes the content.
Stage(p) ==
  /\ save[p].step = "stage"
  /\ save' = [save EXCEPT ![p].step = "sync"]
  /\ UNCHANGED <<file, durable, backups>>

\* Mutant: the content is flushed, not synced.
FlushOnly(p) ==
  /\ save[p].step = "sync"
  /\ save' = [save EXCEPT ![p].step = "replace"]
  /\ UNCHANGED <<file, durable, backups>>

Sync(p) ==
  /\ save[p].step = "sync"
  /\ save' = [save EXCEPT ![p].step = "replace", ![p].synced = TRUE]
  /\ UNCHANGED <<file, durable, backups>>

\* os.replace: at once for readers, some time later on disk.
Replace(p) ==
  /\ save[p].step = "replace"
  /\ LET new == [keys |-> save[p].keys, synced |-> save[p].synced,
                 late |-> save[p].overtaken]
     IN  /\ file' = new
         /\ durable' = durable \cup {Survivor(new)}
  /\ save' = [q \in Proxy |->
                IF q = p THEN [save[p] EXCEPT !.step = "syncdir"]
                ELSE IF Saving(q) THEN [save[q] EXCEPT !.overtaken = TRUE]
                ELSE save[q]]
  /\ UNCHANGED backups

\* The directory is synced: the rename is on disk, and the save returns.
SyncDir(p) ==
  /\ save[p].step = "syncdir"
  /\ durable' = {Survivor(file)}
  /\ save' = [save EXCEPT ![p] = NoSave]
  /\ UNCHANGED <<file, backups>>

\* A full disk, a directory that cannot be opened: the save raises.
SaveFails(p) ==
  /\ save[p].step \in {"stage", "sync", "replace", "syncdir"}
  /\ save' = [save EXCEPT ![p] = NoSave]
  /\ UNCHANGED <<file, durable, backups>>

\* The processes of S are killed: what they were saving is abandoned.
Abandon(S) == save' = [p \in Proxy |-> IF p \in S THEN NoSave ELSE save[p]]

\* The power fails.  Backups are never synced: none of them is left.
FilePowerLoss ==
  /\ \E keys \in durable : /\ file' = [keys |-> keys, synced |-> TRUE, late |-> FALSE]
                           /\ durable' = {keys}
  /\ backups' = <<>>
  /\ save' = [p \in Proxy |-> NoSave]
=============================================================================
