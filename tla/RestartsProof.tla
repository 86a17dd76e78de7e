---------------------------- MODULE RestartsProof ----------------------------
(***************************************************************************)
(* Theorems about Restarts, for every number of processes, every set of    *)
(* keys and every number of backups.                                       *)
(*                                                                         *)
(* The key file is whole because whatever is renamed was synced before     *)
(* (SyncedFirst).  That what is overwritten is backed up needs that the     *)
(* file is still the one the save made its backup of, which the save knows  *)
(* as long as nobody overtook it (BackedFirst).                            *)
(*                                                                         *)
(* That somebody serves rests on who may stop a process that listens: one  *)
(* that was asked to stop is waited for by the process that asked it       *)
(* (Awaited), and one that is about to kill itself is still to be found by *)
(* a process that starts, or something went wrong (Relieved).  A process   *)
(* begins to serve when no other one listens (OnePort), so that what went  *)
(* wrong before may be forgotten then.                                     *)
(*                                                                         *)
(* That promises are kept needs that a save is of the pool of its process  *)
(* (SavesItsPool): what it overwrites is what that process was behind on.  *)
(***************************************************************************)
EXTENDS Restarts, TLAPS, SequenceTheorems

\* What is renamed was synced.
SyncedFirst ==
  /\ file.synced
  /\ \A p \in Proxy : save[p].step \in {"replace", "syncdir"} => save[p].synced

\* A save that made its backup finds it where it left it, unless it was overtaken.
BackedFirst ==
  \A p \in Proxy :
    /\ save[p].backed /\ ~save[p].overtaken /\ ~file.late
    /\ save[p].step \in {"backup", "stage", "sync", "replace"}
    => backups # <<>> /\ backups[1] = file.keys

SaversHandle == \A p \in Proxy : Saving(p) => pc[p] \in Handling

\* A save is of the pool of its process.
SavesItsPool == \A p \in Proxy : Saving(p) => save[p].keys = pool[p]

OnePort == \A p, q \in Listening : p = q

\* A process that was asked to stop and is listening has a process that will not
\* go on before it is gone.
Awaited ==
  \A p \in asked \cap Listening :
    \E q \in Proxy : pc[q] = "killing" /\ p \in victims[q]

\* A process that is about to kill itself has one, or has one that will find it,
\* if nothing went wrong.
Relieved ==
  mishap \/ \A p \in doomed \cap Listening :
    \E q \in Proxy : \/ pc[q] = "listing"
                     \/ pc[q] \in {"naming", "killing"} /\ p \in victims[q]

\* Nobody is asked before it listens, or about to die before it has been serving.
Untouched ==
  \A p \in Proxy : /\ pc[p] \in Starting \cup {"off"} => p \notin asked
                   /\ pc[p] \in Starting \cup {"off", "booting"} => p \notin doomed

StopInv == OnePort /\ Awaited /\ Relieved /\ Untouched /\ SomebodyServes
PromiseInv == SaversHandle /\ SavesItsPool /\ PromisesKept

-----------------------------------------------------------------------------
(* The operators.                                                          *)

\* The newest of some backups have their type, and the first stays the first.
LEMMA NewestType ==
  ASSUME NEW S, NEW s \in Seq(S), Len(s) > 0
  PROVE  /\ Newest(s) \in Seq(S) /\ Len(Newest(s)) <= MaxBackups
         /\ Newest(s) # <<>> /\ Newest(s)[1] = s[1]
<1> DEFINE n == IF Len(s) <= MaxBackups THEN Len(s) ELSE MaxBackups
<1>1. Len(s) \in Nat /\ \A i \in 1..Len(s) : s[i] \in S
  OBVIOUS
<1>2. n \in 1..Len(s) /\ n <= MaxBackups
  BY <1>1, FileSizes
<1> HIDE DEF n
<1>3. /\ SubSeq(s, 1, n) \in Seq(S) /\ Len(SubSeq(s, 1, n)) = n
      /\ \A i \in 1..n : SubSeq(s, 1, n)[i] = s[i]
  BY <1>1, <1>2
<1>4. SubSeq(s, 1, n) # <<>> /\ SubSeq(s, 1, n)[1] = s[1]
  BY <1>1, <1>2, <1>3
<1>5. Newest(s) = SubSeq(s, 1, n)
  BY DEF Newest, n
<1> QED BY <1>2, <1>3, <1>4, <1>5

\* A backup put in somewhere, at the front when it is put behind none.
LEMMA BackedBehindType ==
  ASSUME NEW S, backups \in Seq(S), file.keys \in S, NEW i \in 0..Len(backups)
  PROVE  /\ BackedBehind(i) \in Seq(S) /\ Len(BackedBehind(i)) > 0
         /\ i = 0 => BackedBehind(i)[1] = file.keys
<1> DEFINE front == SubSeq(backups, 1, i)
           rest == SubSeq(backups, i + 1, Len(backups))
<1>1. Len(backups) \in Nat /\ \A k \in 1..Len(backups) : backups[k] \in S
  OBVIOUS
<1>2. front \in Seq(S) /\ Len(front) = i
  BY <1>1
<1>3. rest \in Seq(S)
  BY <1>1
<1>4. <<file.keys>> \in Seq(S)
  OBVIOUS
<1> HIDE DEF front, rest
<1>5. front \o <<file.keys>> \in Seq(S) /\ Len(front \o <<file.keys>>) = i + 1
  BY <1>2, <1>4
<1>6. /\ (front \o <<file.keys>>) \o rest \in Seq(S)
      /\ Len((front \o <<file.keys>>) \o rest) > 0
  BY <1>3, <1>5
<1>7. ASSUME i = 0 PROVE ((front \o <<file.keys>>) \o rest)[1] = file.keys
  <2>1. (front \o <<file.keys>>)[1] = file.keys
    BY <1>2, <1>4, <1>7
  <2> QED BY <1>3, <1>5, <1>7, <2>1
<1> QED BY <1>6, <1>7 DEF BackedBehind, front, rest

\* A backup leaves backups of their type, and is the first one if the file is not
\* late.
LEMMA BackupType ==
  ASSUME FileTypeOK, NEW p \in Proxy, Backup(p)
  PROVE  /\ backups' \in Seq(Pools \cup {Torn}) /\ Len(backups') <= MaxBackups
         /\ \/ UNCHANGED backups /\ save' = [save EXCEPT ![p].step = "stage"]
            \/ /\ ~file.late => backups' # <<>> /\ backups'[1] = file.keys
               /\ save' = [save EXCEPT ![p].step = "stage", ![p].backed = TRUE]
<1> DEFINE S == Pools \cup {Torn}
<1>1. backups \in Seq(S) /\ Len(backups) <= MaxBackups /\ file.keys \in S
  BY DEF FileTypeOK
<1>2. CASE UNCHANGED backups /\ save' = [save EXCEPT ![p].step = "stage"]
  BY <1>1, <1>2
<1>3. CASE /\ \E i \in 0..Len(backups) : (i = 0 \/ file.late) /\ backups' = Newest(BackedBehind(i))
           /\ save' = [save EXCEPT ![p].step = "stage", ![p].backed = TRUE]
  <2>1. PICK i \in 0..Len(backups) : (i = 0 \/ file.late) /\ backups' = Newest(BackedBehind(i))
    BY <1>3
  <2> HIDE DEF S
  <2>2. /\ BackedBehind(i) \in Seq(S) /\ Len(BackedBehind(i)) > 0
        /\ i = 0 => BackedBehind(i)[1] = file.keys
    BY <1>1, BackedBehindType
  <2>3. /\ backups' \in Seq(S) /\ Len(backups') <= MaxBackups
        /\ backups' # <<>> /\ backups'[1] = BackedBehind(i)[1]
    BY <2>1, <2>2, NewestType
  <2>4. ~file.late => backups'[1] = file.keys
    BY <2>1, <2>2, <2>3
  <2> QED BY <1>3, <2>3, <2>4 DEF S
<1> QED BY <1>2, <1>3 DEF Backup

SaveType == [step : Steps, keys : Pools, synced : BOOLEAN, backed : BOOLEAN,
             overtaken : BOOLEAN]

LEMMA NoSaveType == NoSave \in SaveType
BY DEF NoSave, SaveType, Steps, Pools

-----------------------------------------------------------------------------
(* The file.                                                               *)

\* The file, its backups and its saves have their types, and what is renamed
\* was synced.
FileOK == FileTypeOK /\ KeyFileWhole /\ SyncedFirst

LEMMA InitFile == Init => FileOK
<1> SUFFICES ASSUME Init PROVE FileOK
  OBVIOUS
<1>1. InitKeys \in Pools /\ InitKeys # Torn
  BY RestartSizes, FileSizes DEF Pools
<1>2. /\ file = [keys |-> InitKeys, synced |-> TRUE, late |-> FALSE]
      /\ durable = {InitKeys} /\ backups = <<>>
      /\ save = [p \in Proxy |-> NoSave]
  BY DEF Init, FileInit
<1>3. save \in [Proxy -> SaveType]
  BY <1>2, NoSaveType
<1>4. backups \in Seq(Pools \cup {Torn}) /\ Len(backups) <= MaxBackups
  BY <1>2, FileSizes
<1>5. FileTypeOK
  BY <1>1, <1>2, <1>3, <1>4 DEF FileTypeOK, SaveType
<1>6. KeyFileWhole /\ SyncedFirst
  BY <1>1, <1>2 DEF KeyFileWhole, SyncedFirst, NoSave
<1> QED BY <1>5, <1>6 DEF FileOK

\* Saves that are abandoned, or begun, leave the file as it was.
LEMMA SaveFile ==
  ASSUME FileOK, UNCHANGED <<file, durable, backups>>,
         save' \in [Proxy -> SaveType],
         \A q \in Proxy : save'[q] = save[q]
                          \/ save'[q].step \in {"none", "backup", "stage", "sync"}
  PROVE  FileOK'
<1>1. FileTypeOK' /\ KeyFileWhole'
  BY DEF FileOK, FileTypeOK, KeyFileWhole, SaveType
<1>2. SyncedFirst'
  <2> SUFFICES ASSUME NEW q \in Proxy, save'[q].step \in {"replace", "syncdir"}
               PROVE  save'[q].synced
    BY DEF FileOK, SyncedFirst
  <2> QED BY DEF FileOK, SyncedFirst
<1> QED BY <1>1, <1>2 DEF FileOK

LEMMA BackupFile ==
  ASSUME FileOK, NEW p \in Proxy, Backup(p)
  PROVE  FileOK'
<1>1. /\ file.keys \in Pools \cup {Torn} /\ backups \in Seq(Pools \cup {Torn})
      /\ Len(backups) <= MaxBackups /\ save \in [Proxy -> SaveType]
  BY DEF FileOK, FileTypeOK, SaveType
<1>2. backups' \in Seq(Pools \cup {Torn}) /\ Len(backups') <= MaxBackups
  BY BackupType DEF FileOK
<1>3. save' \in [Proxy -> SaveType]
  BY <1>1 DEF Backup, SaveType, Steps
<1>4. \A q \in Proxy : save'[q] = save[q] \/ save'[q].step = "stage"
  BY <1>1 DEF Backup, SaveType
<1>5. UNCHANGED <<file, durable>>
  BY DEF Backup
<1>6. FileTypeOK' /\ KeyFileWhole'
  BY <1>2, <1>3, <1>5 DEF FileOK, FileTypeOK, KeyFileWhole, SaveType
<1>7. SyncedFirst'
  BY <1>4, <1>5 DEF FileOK, SyncedFirst
<1> QED BY <1>6, <1>7 DEF FileOK

LEMMA SyncFile ==
  ASSUME FileOK, NEW p \in Proxy, Sync(p)
  PROVE  FileOK'
<1>1. save \in [Proxy -> SaveType]
  BY DEF FileOK, FileTypeOK, SaveType
<1>2. save' \in [Proxy -> SaveType]
  BY <1>1 DEF Sync, SaveType, Steps
<1>3. \A q \in Proxy : save'[q] = save[q] \/ save'[q].synced
  BY <1>1 DEF Sync, SaveType
<1>4. UNCHANGED <<file, durable, backups>>
  BY DEF Sync
<1>5. FileTypeOK' /\ KeyFileWhole'
  BY <1>2, <1>4 DEF FileOK, FileTypeOK, KeyFileWhole, SaveType
<1>6. SyncedFirst'
  BY <1>3, <1>4 DEF FileOK, SyncedFirst
<1> QED BY <1>5, <1>6 DEF FileOK

LEMMA ReplaceFile ==
  ASSUME FileOK, NEW p \in Proxy, Replace(p)
  PROVE  FileOK'
<1>1. save \in [Proxy -> SaveType] /\ save[p].synced
  BY DEF FileOK, FileTypeOK, SaveType, SyncedFirst, Replace
<1>2. save[p].keys \in Pools /\ save[p].keys # Torn
  BY <1>1, FileSizes DEF SaveType, Pools
<1>3. /\ file'.keys = save[p].keys /\ file'.synced = TRUE
      /\ file' = [keys |-> save[p].keys, synced |-> TRUE, late |-> save[p].overtaken]
      /\ durable' = durable \cup {save[p].keys}
  BY <1>1 DEF Replace, Survivor, SaveType
<1>4. \A q \in Proxy : /\ save'[q] \in SaveType
                       /\ save'[q].synced = save[q].synced
                       /\ q # p => save'[q].step = save[q].step
  <2>1. [save[p] EXCEPT !.step = "syncdir"] \in SaveType
    BY <1>1 DEF SaveType, Steps
  <2>2. \A q \in Proxy : [save[q] EXCEPT !.overtaken = TRUE] \in SaveType
    BY <1>1 DEF SaveType
  <2> QED BY <1>1, <2>1, <2>2 DEF Replace, SaveType
<1>5. save' \in [Proxy -> SaveType]
  BY <1>4 DEF Replace
<1>6. file' \in [keys : Pools \cup {Torn}, synced : BOOLEAN, late : BOOLEAN]
  BY <1>1, <1>2, <1>3 DEF SaveType
<1>7. FileTypeOK' /\ KeyFileWhole'
  BY <1>2, <1>3, <1>5, <1>6 DEF FileOK, FileTypeOK, KeyFileWhole, SaveType, Replace
<1>8. SyncedFirst'
  BY <1>1, <1>3, <1>4 DEF FileOK, SyncedFirst
<1> QED BY <1>7, <1>8 DEF FileOK

LEMMA SyncDirFile ==
  ASSUME FileOK, NEW p \in Proxy, SyncDir(p)
  PROVE  FileOK'
<1>1. save \in [Proxy -> SaveType] /\ file.synced /\ file.keys # Torn
  BY DEF FileOK, FileTypeOK, SaveType, SyncedFirst, KeyFileWhole
<1>2. durable' = {file.keys} /\ UNCHANGED <<file, backups>>
  BY <1>1 DEF SyncDir, Survivor
<1>3. save' = [save EXCEPT ![p] = NoSave]
  BY DEF SyncDir
<1>4. save' \in [Proxy -> SaveType]
  BY <1>1, <1>3, NoSaveType
<1>5. FileTypeOK' /\ KeyFileWhole'
  BY <1>1, <1>2, <1>4 DEF FileOK, FileTypeOK, KeyFileWhole, SaveType
<1>6. SyncedFirst'
  BY <1>1, <1>2, <1>3 DEF FileOK, SyncedFirst, NoSave
<1> QED BY <1>5, <1>6 DEF FileOK

LEMMA PowerFile ==
  ASSUME FileOK, FilePowerLoss
  PROVE  FileOK'
<1>1. PICK keys \in durable : /\ file' = [keys |-> keys, synced |-> TRUE, late |-> FALSE]
                              /\ durable' = {keys}
  BY DEF FilePowerLoss
<1>2. keys \in Pools \cup {Torn} /\ keys # Torn
  BY <1>1 DEF FileOK, FileTypeOK, KeyFileWhole
<1>3. backups' = <<>> /\ save' = [p \in Proxy |-> NoSave]
  BY DEF FilePowerLoss
<1>4. save' \in [Proxy -> SaveType]
  BY <1>3, NoSaveType
<1>5. backups' \in Seq(Pools \cup {Torn}) /\ Len(backups') <= MaxBackups
  BY <1>3, FileSizes
<1>6. FileTypeOK' /\ KeyFileWhole'
  BY <1>1, <1>2, <1>4, <1>5 DEF FileTypeOK, KeyFileWhole, SaveType
<1>7. SyncedFirst'
  BY <1>1, <1>3 DEF SyncedFirst, NoSave
<1> QED BY <1>6, <1>7 DEF FileOK

-----------------------------------------------------------------------------
(* The processes.                                                          *)

ProcOK ==
  /\ pc \in [Proxy -> Stages]
  /\ desk \in SUBSET Proxy
  /\ victims \in [Proxy -> SUBSET Proxy]
  /\ asked \in SUBSET Proxy /\ doomed \in SUBSET Proxy
  /\ pool \in [Proxy -> Pools]
  /\ promise \in [Key -> {"in", "out", "open"}]
  /\ behind \in [Proxy -> SUBSET Key]
  /\ mishap \in BOOLEAN

LEMMA TypeParts == TypeOK <=> FileTypeOK /\ ProcOK
BY DEF TypeOK, ProcOK

LEMMA InitProc == Init => ProcOK
<1> SUFFICES ASSUME Init PROVE ProcOK
  OBVIOUS
<1>1. pc \in [Proxy -> Stages] /\ victims \in [Proxy -> SUBSET Proxy]
  BY DEF Init, Stages
<1>2. pool \in [Proxy -> Pools] /\ promise \in [Key -> {"in", "out", "open"}]
  BY RestartSizes DEF Init, Pools
<1>3. behind \in [Proxy -> SUBSET Key]
  BY DEF Init
<1> QED BY <1>1, <1>2, <1>3 DEF Init, ProcOK

\* What a step does to the file, when it is none of a save's own.
LEMMA FileNext ==
  ASSUME FileOK, ProcOK, [Next]_vars
  PROVE  FileOK'
<1>1. save \in [Proxy -> SaveType]
  BY DEF FileOK, FileTypeOK, SaveType
<1>2. CASE UNCHANGED fileVars
  BY <1>2 DEF fileVars, FileOK, FileTypeOK, KeyFileWhole, SyncedFirst
<1>3. ASSUME NEW S, Abandon(S), UNCHANGED <<file, durable, backups>>
      PROVE  FileOK'
  <2>1. save' \in [Proxy -> SaveType]
    BY <1>1, <1>3, NoSaveType DEF Abandon
  <2>2. \A q \in Proxy : save'[q] = save[q] \/ save'[q].step = "none"
    BY <1>3 DEF Abandon, NoSave
  <2> QED BY <1>3, <2>1, <2>2, SaveFile
<1>4. ASSUME NEW p \in Proxy,
             Launch(p) \/ List(p) \/ Unnamed(p) \/ Ask(p) \/ Freed(p) \/ Refused(p)
               \/ Load(p) \/ Bind(p) \/ Boot(p) \/ BootFails(p)
               \/ Drain(p) \/ Exit(p) \/ \E q \in Proxy : Restart(p, q)
      PROVE  FileOK'
  BY <1>2, <1>4 DEF Launch, List, Unnamed, Ask, Freed, Refused, Load, Bind, Boot, BootFails,
                    Drain, Exit, Restart, MakeRoom, KeepFile, fileVars
<1>5. ASSUME NEW p \in Proxy, GraceOver(p) \/ SelfKill(p)
      PROVE  FileOK'
  BY <1>3, <1>5 DEF GraceOver, SelfKill
<1>6. ASSUME NEW p \in Proxy, SaveStep(p) \/ Answer(p)
      PROVE  FileOK'
  <2>1. CASE Stage(p) \/ SaveFails(p)
    <3>1. save' \in [Proxy -> SaveType]
      BY <1>1, <2>1, NoSaveType DEF Stage, SaveFails, SaveType, Steps
    <3>2. \A q \in Proxy : save'[q] = save[q] \/ save'[q].step \in {"none", "sync"}
      BY <1>1, <2>1 DEF Stage, SaveFails, SaveType, NoSave
    <3> QED BY <2>1, <3>1, <3>2, SaveFile DEF Stage, SaveFails
  <2> QED BY <1>6, <2>1, BackupFile, SyncFile, ReplaceFile, SyncDirFile DEF SaveStep, Answer
<1>7. ASSUME NEW p \in Proxy, NEW k \in Editable, Edit(p, k)
      PROVE  FileOK'
  <2>1. PICK keys : keys \in Pools /\ BeginSave(p, keys)
    <3>1. pool[p] \ {k} \in Pools /\ pool[p] \cup {k} \in Pools
      BY RestartSizes DEF ProcOK, Pools
    <3> QED BY <1>7, <3>1 DEF Edit
  <2>2. save' \in [Proxy -> SaveType]
    BY <1>1, <2>1 DEF BeginSave, SaveType, NoSave, Steps
  <2>3. \A q \in Proxy : save'[q] = save[q] \/ save'[q].step = "backup"
    BY <1>1, <2>1 DEF BeginSave, NoSave
  <2> QED BY <2>1, <2>2, <2>3, SaveFile DEF BeginSave
<1>8. CASE PowerLoss
  BY <1>8, PowerFile DEF PowerLoss
<1>9. CASE UNCHANGED vars
  BY <1>2, <1>9 DEF vars
<1> QED BY <1>4, <1>5, <1>6, <1>7, <1>8, <1>9 DEF Next, Start

LEMMA ProcNext ==
  ASSUME FileOK, ProcOK, [Next]_vars
  PROVE  ProcOK'
<1>1. ASSUME NEW p \in Proxy,
             Launch(p) \/ Freed(p) \/ Refused(p) \/ Bind(p) \/ Boot(p) \/ Drain(p)
      PROVE  ProcOK'
  BY <1>1 DEF ProcOK, Stages, Launch, Freed, Refused, Bind, Boot, Drain, MakeRoom, Goto,
              KeepFile, KeepKill, userVars
<1>2. ASSUME NEW p \in Proxy, List(p) \/ Unnamed(p) \/ Ask(p)
      PROVE  ProcOK'
  <2>1. CASE List(p) /\ MakeRoom(p)
    BY <2>1 DEF ProcOK, Stages, List, MakeRoom, Goto, KeepFile, KeepKill, userVars
  <2>2. CASE List(p) /\ ~MakeRoom(p)
    BY <2>2 DEF ProcOK, Stages, List, Goto, KeepFile, userVars, Listening
  <2>3. CASE Unnamed(p) \/ Ask(p)
    BY <2>3 DEF ProcOK, Stages, Unnamed, Ask, Goto, KeepFile, userVars
  <2> QED BY <1>2, <2>1, <2>2, <2>3
<1>3. ASSUME NEW S, Forget(S)
      PROVE  /\ asked' \in SUBSET Proxy /\ doomed' \in SUBSET Proxy
             /\ pool' \in [Proxy -> Pools] /\ behind' \in [Proxy -> SUBSET Key]
  BY <1>3 DEF ProcOK, Forget, Pools
<1>4. ASSUME NEW p \in Proxy, GraceOver(p)
      PROVE  ProcOK'
  <2>1. PICK S : Forget(S)
    BY <1>4 DEF GraceOver
  <2> QED BY <1>3, <1>4, <2>1 DEF ProcOK, Stages, GraceOver
<1>5. ASSUME NEW p \in Proxy, BootFails(p) \/ Exit(p) \/ SelfKill(p)
      PROVE  ProcOK'
  <2>1. Forget({p})
    BY <1>5 DEF BootFails, Exit, SelfKill
  <2> QED BY <1>3, <1>5, <2>1 DEF ProcOK, Stages, BootFails, Exit, SelfKill, Goto
<1>6. ASSUME NEW p \in Proxy, Load(p)
      PROVE  ProcOK'
  <2>1. {} \in Pools /\ (file.keys # Torn => file.keys \in Pools)
    BY DEF FileOK, FileTypeOK, Pools
  <2> QED BY <1>6, <2>1 DEF ProcOK, Stages, Load, Goto, KeepKill
<1>7. ASSUME NEW p \in Proxy, \E q \in Proxy : Restart(p, q)
      PROVE  ProcOK'
  BY <1>7 DEF ProcOK, Stages, Restart, Goto, KeepFile, userVars
<1>8. ASSUME NEW p \in Proxy, SaveStep(p)
      PROVE  ProcOK'
  <2>1. promise' \in [Key -> {"in", "out", "open"}]
    BY <1>8 DEF ProcOK, SaveStep, Overwrite
  <2> QED BY <1>8, <2>1 DEF ProcOK, SaveStep, procVars
<1>9. ASSUME NEW p \in Proxy, Answer(p)
      PROVE  ProcOK'
  <2>1. promise' \in [Key -> {"in", "out", "open"}]
    BY <1>9 DEF ProcOK, Answer, Told, Promised, Has
  <2>2. behind' \in [Proxy -> SUBSET Key]
    BY <1>9 DEF ProcOK, Answer, Told
  <2> QED BY <1>9, <2>1, <2>2 DEF ProcOK, Answer, procVars
<1>10. ASSUME NEW p \in Proxy, NEW k \in Editable, Edit(p, k)
       PROVE  ProcOK'
  <2>1. pool[p] \ {k} \in Pools /\ pool[p] \cup {k} \in Pools
    BY RestartSizes DEF ProcOK, Pools
  <2>2. pool' \in [Proxy -> Pools] /\ promise' \in [Key -> {"in", "out", "open"}]
    BY <1>10, <2>1, RestartSizes DEF ProcOK, Edit
  <2> QED BY <1>10, <2>2 DEF ProcOK, Edit, procVars
<1>11. CASE PowerLoss
  BY <1>3, <1>11 DEF ProcOK, Stages, PowerLoss
<1>12. CASE UNCHANGED vars
  BY <1>12 DEF ProcOK, vars, procVars, userVars
<1> QED BY <1>1, <1>2, <1>4, <1>5, <1>6, <1>7, <1>8, <1>9, <1>10, <1>11, <1>12 DEF Next, Start

-----------------------------------------------------------------------------
(* Saves.                                                                  *)

\* A save under way belongs to a process that handles requests: whatever a
\* process does besides leaves the saves alone, or ends with them.
LEMMA SaversStay ==
  ASSUME FileOK, ProcOK, SaversHandle, [Next]_vars
  PROVE  SaversHandle'
<1>1. save \in [Proxy -> SaveType]
  BY DEF FileOK, FileTypeOK, SaveType
<1>2. ASSUME UNCHANGED save, \A q \in Proxy : Saving(q) => pc'[q] \in Handling
      PROVE  SaversHandle'
  BY <1>2 DEF SaversHandle, Saving
<1>3. ASSUME NEW S, Abandon(S), \A q \in Proxy : q \notin S => pc'[q] = pc[q] \/ pc[q] \notin Handling
      PROVE  SaversHandle'
  <2>1. \A q \in Proxy : (save'[q] = save[q] /\ q \notin S) \/ save'[q].step = "none"
    BY <1>3 DEF Abandon, NoSave
  <2> QED BY <1>3, <2>1 DEF SaversHandle, Saving
<1>4. ASSUME NEW p \in Proxy,
             Launch(p) \/ List(p) \/ Unnamed(p) \/ Ask(p) \/ Freed(p) \/ Refused(p)
               \/ Load(p) \/ Bind(p) \/ Boot(p) \/ BootFails(p)
               \/ Drain(p) \/ Exit(p) \/ \E q \in Proxy : Restart(p, q)
      PROVE  SaversHandle'
  <2>1. UNCHANGED save
    BY <1>4 DEF Launch, List, Unnamed, Ask, Freed, Refused, Load, Bind, Boot, BootFails, Drain,
                Exit, Restart, MakeRoom, KeepFile, fileVars
  <2>2. PICK q \in Proxy :
          /\ pc[q] \notin Handling \/ ~Saving(q)
          /\ \E stage \in Stages : pc' = [pc EXCEPT ![q] = stage]
    BY <1>4 DEF Launch, List, Unnamed, Ask, Freed, Refused, Load, Bind, Boot, BootFails, Drain,
                Exit, Restart, MakeRoom, Goto, Stages, Handling
  <2>3. \A x \in Proxy : Saving(x) => pc'[x] \in Handling
    BY <2>2 DEF ProcOK, SaversHandle
  <2> QED BY <1>2, <2>1, <2>3
<1>5. ASSUME NEW p \in Proxy, GraceOver(p)
      PROVE  SaversHandle'
  <2> DEFINE killed == {v \in victims[p] : pc[v] \in Alive}
  <2>1. /\ Abandon(killed) /\ pc[p] = "killing"
        /\ pc' = [q \in Proxy |-> IF q = p THEN "freeing"
                                  ELSE IF q \in killed THEN "gone" ELSE pc[q]]
    BY <1>5 DEF GraceOver
  <2> HIDE DEF killed
  <2> QED BY <1>3, <2>1 DEF Handling
<1>6. ASSUME NEW p \in Proxy, SelfKill(p)
      PROVE  SaversHandle'
  BY <1>3, <1>6 DEF ProcOK, SelfKill, Goto
<1>7. ASSUME NEW p \in Proxy, SaveStep(p) \/ Answer(p)
      PROVE  SaversHandle'
  <2>1. Saving(p) /\ UNCHANGED pc
    BY <1>7 DEF SaveStep, Answer, procVars, Saving, Backup, Stage, Sync, Replace, SyncDir, SaveFails
  <2>2. \A q \in Proxy \ {p} : save'[q].step = save[q].step
    <3>1. CASE Replace(p)
      BY <1>1, <3>1 DEF Replace, SaveType
    <3>2. CASE Backup(p) \/ Stage(p) \/ Sync(p) \/ SyncDir(p) \/ SaveFails(p)
      BY <1>1, <3>2 DEF Backup, Stage, Sync, SyncDir, SaveFails
    <3> QED BY <1>7, <3>1, <3>2 DEF SaveStep, Answer
  <2> QED BY <2>1, <2>2 DEF SaversHandle, Saving
<1>8. ASSUME NEW p \in Proxy, NEW k \in Editable, Edit(p, k)
      PROVE  SaversHandle'
  <2>1. pc[p] \in Handling /\ UNCHANGED pc /\ \A q \in Proxy \ {p} : save'[q] = save[q]
    BY <1>1, <1>8 DEF Edit, BeginSave, procVars
  <2> QED BY <2>1 DEF SaversHandle, Saving
<1>9. CASE PowerLoss
  BY <1>9 DEF PowerLoss, FilePowerLoss, NoSave, SaversHandle, Saving
<1>10. CASE UNCHANGED vars
  BY <1>2, <1>10 DEF vars, fileVars, procVars, SaversHandle
<1> QED BY <1>4, <1>5, <1>6, <1>7, <1>8, <1>9, <1>10 DEF Next, Start

\* A step of a save of p, next to the saves of others.
LEMMA SaveBacked ==
  ASSUME FileOK, BackedFirst, NEW p \in Proxy, SaveStep(p) \/ Answer(p)
  PROVE  BackedFirst'
<1>1. save \in [Proxy -> SaveType]
  BY DEF FileOK, FileTypeOK, SaveType
<1>2. CASE Backup(p)
  <2>1. UNCHANGED file /\ \A q \in Proxy \ {p} : save'[q] = save[q]
    BY <1>1, <1>2 DEF Backup
  <2>2. CASE UNCHANGED backups /\ save' = [save EXCEPT ![p].step = "stage"]
    <3>1. /\ save'[p].backed = save[p].backed /\ save'[p].overtaken = save[p].overtaken
          /\ save[p].step = "backup"
      BY <1>1, <1>2, <2>2 DEF SaveType, Backup
    <3> QED BY <2>1, <2>2, <3>1 DEF BackedFirst
  <2>3. CASE ~file.late => backups' # <<>> /\ backups'[1] = file.keys
    BY <2>1, <2>3 DEF BackedFirst
  <2> QED BY <1>2, <2>2, <2>3, BackupType DEF FileOK
<1>3. CASE Stage(p) \/ Sync(p)
  <2>1. /\ UNCHANGED <<file, backups>>
        /\ \A q \in Proxy : /\ save'[q].backed = save[q].backed
                            /\ save'[q].overtaken = save[q].overtaken
        /\ \A q \in Proxy \ {p} : save'[q] = save[q]
        /\ save[p].step \in {"stage", "sync"}
    BY <1>1, <1>3 DEF Stage, Sync, SaveType
  <2> QED BY <2>1 DEF BackedFirst
<1>4. CASE Replace(p)
  <2>1. \A q \in Proxy \ {p} :
          save'[q].step \in {"backup", "stage", "sync", "replace"} => save'[q].overtaken
    BY <1>1, <1>4 DEF Replace, Saving, SaveType
  <2>2. save'[p].step = "syncdir"
    BY <1>1, <1>4 DEF Replace, SaveType
  <2> QED BY <2>1, <2>2 DEF BackedFirst
<1>5. CASE SyncDir(p) \/ SaveFails(p)
  <2>1. /\ UNCHANGED <<file, backups>> /\ save'[p].step = "none"
        /\ \A q \in Proxy \ {p} : save'[q] = save[q]
    BY <1>1, <1>5 DEF SyncDir, SaveFails, NoSave
  <2> QED BY <2>1 DEF BackedFirst
<1> QED BY <1>2, <1>3, <1>4, <1>5 DEF SaveStep, Answer

LEMMA NextBacked ==
  ASSUME FileOK, BackedFirst, [Next]_vars
  PROVE  BackedFirst'
<1>1. save \in [Proxy -> SaveType]
  BY DEF FileOK, FileTypeOK, SaveType
<1>2. ASSUME UNCHANGED <<file, backups>>,
             \A q \in Proxy : save'[q] = save[q] \/ ~save'[q].backed
      PROVE  BackedFirst'
  BY <1>2 DEF BackedFirst
<1>3. ASSUME NEW p \in Proxy,
             Launch(p) \/ List(p) \/ Unnamed(p) \/ Ask(p) \/ Freed(p) \/ Refused(p)
               \/ Load(p) \/ Bind(p) \/ Boot(p) \/ BootFails(p)
               \/ Drain(p) \/ Exit(p) \/ \E q \in Proxy : Restart(p, q)
      PROVE  BackedFirst'
  <2>1. UNCHANGED fileVars
    BY <1>3 DEF Launch, List, Unnamed, Ask, Freed, Refused, Load, Bind, Boot, BootFails, Drain,
                Exit, Restart, MakeRoom, KeepFile
  <2> QED BY <1>2, <2>1 DEF fileVars
<1>4. ASSUME NEW p \in Proxy, GraceOver(p) \/ SelfKill(p)
      PROVE  BackedFirst'
  <2>1. PICK S : Abandon(S) /\ UNCHANGED <<file, backups>>
    BY <1>4 DEF GraceOver, SelfKill
  <2>2. \A q \in Proxy : save'[q] = save[q] \/ ~save'[q].backed
    BY <2>1 DEF Abandon, NoSave
  <2> QED BY <1>2, <2>1, <2>2
<1>5. ASSUME NEW p \in Proxy, NEW k \in Editable, Edit(p, k)
      PROVE  BackedFirst'
  <2>1. \A q \in Proxy : save'[q] = save[q] \/ ~save'[q].backed
    BY <1>1, <1>5 DEF Edit, BeginSave, NoSave
  <2> QED BY <1>2, <1>5, <2>1 DEF Edit, BeginSave
<1>6. CASE PowerLoss
  BY <1>6 DEF PowerLoss, FilePowerLoss, NoSave, BackedFirst
<1>7. CASE UNCHANGED vars
  BY <1>2, <1>7 DEF vars, fileVars
<1> QED BY <1>3, <1>4, <1>5, <1>6, <1>7, SaveBacked DEF Next, Start

-----------------------------------------------------------------------------
(* Stopping.                                                               *)

LEMMA InitStop == Init => StopInv
<1> SUFFICES ASSUME Init PROVE StopInv
  OBVIOUS
<1>1. Listening = {First}
  BY RestartSizes DEF Init, Listening
<1> QED BY <1>1 DEF Init, StopInv, OnePort, Awaited, Relieved, Untouched, SomebodyServes

\* A process goes to another stage without stopping anybody: those who wait for
\* another one to end, or are to find it, still do.
LEMMA MovedStop ==
  ASSUME ProcOK, StopInv, NEW p \in Proxy, NEW stage \in Stages \ {"booting", "serving"},
         Goto(p, stage), UNCHANGED <<asked, doomed>>,
         \A q \in Proxy \ {p} : victims'[q] = victims[q],
         mishap => mishap',
         pc[p] # "killing",
         stage \in Starting \cup {"off"} => pc[p] \in Starting \cup {"off"},
         \/ mishap' \/ Listening \cap doomed = {} \/ pc[p] \notin {"listing", "naming"}
         \/ stage \in {"naming", "killing"} /\ Listening \subseteq victims'[p],
         SomebodyServes'
  PROVE  StopInv'
<1> USE DEF StopInv
<1>1. pc'[p] = stage /\ \A q \in Proxy \ {p} : pc'[q] = pc[q]
  BY DEF Goto, ProcOK
<1>2. Listening' = Listening \ {p}
  BY <1>1 DEF Listening
<1>3. OnePort'
  BY <1>2 DEF OnePort
<1>4. Awaited'
  <2> SUFFICES ASSUME NEW q \in asked \cap Listening'
               PROVE  \E x \in Proxy : pc'[x] = "killing" /\ q \in victims'[x]
    BY DEF Awaited
  <2>1. PICK x \in Proxy : pc[x] = "killing" /\ q \in victims[x]
    BY <1>2 DEF Awaited
  <2> QED BY <1>1, <2>1
<1>5. Relieved'
  <2> SUFFICES ASSUME ~mishap', NEW q \in doomed \cap Listening'
               PROVE  \E x \in Proxy : \/ pc'[x] = "listing"
                                       \/ pc'[x] \in {"naming", "killing"} /\ q \in victims'[x]
    BY DEF Relieved
  <2>1. q \in Listening
    BY <1>2
  <2>2. PICK x \in Proxy : \/ pc[x] = "listing"
                           \/ pc[x] \in {"naming", "killing"} /\ q \in victims[x]
    BY <2>1 DEF Relieved
  <2>3. CASE x # p
    BY <1>1, <2>2, <2>3
  <2>4. CASE x = p
    BY <1>1, <2>1, <2>2, <2>4
  <2> QED BY <2>3, <2>4
<1>6. Untouched'
  BY <1>1 DEF Untouched, Starting
<1> QED BY <1>3, <1>4, <1>5, <1>6

\* The processes of S end, while a process is starting or something went wrong.
LEMMA EndedStop ==
  ASSUME ProcOK, StopInv, NEW S \in SUBSET Proxy, Forget(S),
         \A q \in S : pc[q] \in Alive /\ pc'[q] = "gone",
         \A q \in Proxy \ S : pc'[q] = pc[q] /\ victims'[q] = victims[q],
         mishap => mishap',
         SomebodyServes'
  PROVE  StopInv'
<1> USE DEF StopInv
<1>1. /\ Listening' = Listening \ S
      /\ asked' = asked \ S /\ doomed' = doomed \ S
  BY DEF Listening, Forget
<1>2. \A x \in Proxy : pc[x] \in Starting => pc'[x] = pc[x] /\ victims'[x] = victims[x]
  BY DEF Starting, Alive
<1>3. OnePort' /\ Awaited' /\ Relieved'
  BY <1>1, <1>2 DEF OnePort, Awaited, Relieved, Starting
<1>4. Untouched'
  BY <1>1 DEF Untouched, Starting
<1> QED BY <1>3, <1>4

\* The requests to stop that are under way, and who waits for them.
LEMMA NextStop ==
  ASSUME FileOK, ProcOK, StopInv, [Next]_vars
  PROVE  StopInv'
<1> USE DEF StopInv
<1>1. ASSUME UNCHANGED <<pc, victims, asked, doomed, mishap>>
      PROVE  StopInv'
  BY <1>1 DEF OnePort, Awaited, Relieved, Untouched, SomebodyServes, Listening
<1>2. ASSUME NEW p \in Proxy, Launch(p)
      PROVE  StopInv'
  <2>1. SomebodyServes'
    BY <1>2 DEF Launch, Goto, ProcOK, SomebodyServes, Starting
  <2> QED BY <1>2, <2>1, MovedStop DEF Launch, KeepKill, Stages, Starting
<1>3. ASSUME NEW p \in Proxy, pc[p] \in {"listing", "freeing"}, MakeRoom(p)
      PROVE  StopInv'
  <2>1. PICK stage \in {"listing", "loading"} : Goto(p, stage)
    BY <1>3 DEF MakeRoom
  <2>2. SomebodyServes'
    BY <2>1 DEF Goto, ProcOK, SomebodyServes, Starting
  <2>3. mishap' \/ Listening = {}
    BY <1>3 DEF MakeRoom
  <2>4. (mishap => mishap') /\ UNCHANGED <<victims, asked, doomed>>
    BY <1>3 DEF MakeRoom, KeepKill
  <2> QED BY <1>3, <2>1, <2>2, <2>3, <2>4, MovedStop DEF Stages, Starting
<1>4. ASSUME NEW p \in Proxy, List(p), ~MakeRoom(p)
      PROVE  StopInv'
  <2>1. /\ pc[p] = "listing" /\ Goto(p, "naming")
        /\ victims' = [victims EXCEPT ![p] = Listening]
        /\ UNCHANGED <<asked, doomed, mishap>>
    BY <1>4 DEF List
  <2>2. SomebodyServes'
    BY <2>1 DEF Goto, ProcOK, SomebodyServes, Starting
  <2>3. victims'[p] = Listening /\ \A q \in Proxy \ {p} : victims'[q] = victims[q]
    BY <2>1 DEF ProcOK
  <2> QED BY <2>1, <2>2, <2>3, MovedStop DEF Stages, Starting
<1>5. ASSUME NEW p \in Proxy, Unnamed(p)
      PROVE  StopInv'
  <2>1. SomebodyServes'
    BY <1>5 DEF Unnamed, SomebodyServes
  <2>2. /\ pc[p] = "naming" /\ Goto(p, "gone") /\ mishap'
        /\ UNCHANGED <<asked, doomed>>
        /\ \A q \in Proxy \ {p} : victims'[q] = victims[q]
    BY <1>5 DEF Unnamed, ProcOK
  <2> QED BY <2>1, <2>2, MovedStop DEF Stages, Starting
<1>6. ASSUME NEW p \in Proxy, Ask(p)
      PROVE  StopInv'
  <2>1. /\ pc[p] = "naming" /\ pc'[p] = "killing"
        /\ \A q \in Proxy \ {p} : pc'[q] = pc[q]
        /\ asked' = asked \cup {v \in victims[p] : pc[v] \in Alive}
        /\ UNCHANGED <<victims, doomed, mishap>>
    BY <1>6 DEF Ask, Goto, ProcOK
  <2>2. Listening' = Listening
    BY <2>1 DEF Listening
  <2>3. OnePort' /\ SomebodyServes'
    BY <2>1, <2>2 DEF OnePort, SomebodyServes, Starting
  <2>4. Awaited'
    BY <2>1, <2>2 DEF Awaited
  <2>5. Relieved'
    BY <2>1, <2>2 DEF Relieved
  <2>6. Untouched'
    BY <2>1 DEF Untouched, Starting, Alive
  <2> QED BY <2>3, <2>4, <2>5, <2>6
<1>7. ASSUME NEW p \in Proxy, GraceOver(p)
      PROVE  StopInv'
  <2> DEFINE killed == {v \in victims[p] : pc[v] \in Alive}
  <2>1. /\ pc[p] = "killing" /\ Forget(killed) /\ UNCHANGED mishap
        /\ victims' = [victims EXCEPT ![p] = {}]
        /\ pc' = [q \in Proxy |-> IF q = p THEN "freeing"
                                  ELSE IF q \in killed THEN "gone" ELSE pc[q]]
    BY <1>7 DEF GraceOver
  <2>2. killed \subseteq Proxy /\ p \notin killed
    BY <2>1 DEF ProcOK, Alive
  <2>3. \A q \in Listening : q \in victims[p] => q \in killed
    BY DEF Listening, Alive
  <2>4. \A q \in killed : pc[q] \in Alive
    OBVIOUS
  <2> HIDE DEF killed
  <2>5. /\ pc'[p] = "freeing"
        /\ \A q \in Proxy \ {p} : pc'[q] = IF q \in killed THEN "gone" ELSE pc[q]
        /\ \A q \in Proxy \ {p} : victims'[q] = victims[q]
        /\ asked' = asked \ killed /\ doomed' = doomed \ killed
    BY <2>1, <2>2 DEF Forget, ProcOK
  <2>6. Listening' = Listening \ killed
    BY <2>1, <2>2, <2>5 DEF Listening
  <2>7. \A x \in Proxy \ {p} : pc[x] \in Starting => pc'[x] = pc[x]
    BY <2>4, <2>5 DEF Starting, Alive
  <2>8. OnePort'
    BY <2>6 DEF OnePort
  <2>9. SomebodyServes'
    BY <2>5 DEF SomebodyServes, Starting
  <2>10. Awaited'
    <3> SUFFICES ASSUME NEW q \in asked' \cap Listening'
                 PROVE  \E x \in Proxy : pc'[x] = "killing" /\ q \in victims'[x]
      BY DEF Awaited
    <3>1. q \in asked \cap Listening /\ q \notin victims[p]
      BY <2>3, <2>5, <2>6
    <3>2. PICK x \in Proxy : pc[x] = "killing" /\ q \in victims[x]
      BY <3>1 DEF Awaited
    <3> QED BY <2>5, <2>7, <3>1, <3>2 DEF Starting
  <2>11. Relieved'
    <3> SUFFICES ASSUME ~mishap', NEW q \in doomed' \cap Listening'
                 PROVE  \E x \in Proxy : \/ pc'[x] = "listing"
                                         \/ pc'[x] \in {"naming", "killing"} /\ q \in victims'[x]
      BY DEF Relieved
    <3>1. q \in doomed \cap Listening /\ q \notin victims[p]
      BY <2>3, <2>5, <2>6
    <3>2. PICK x \in Proxy : \/ pc[x] = "listing"
                             \/ pc[x] \in {"naming", "killing"} /\ q \in victims[x]
      BY <2>1, <3>1 DEF Relieved
    <3>3. x # p
      BY <2>1, <3>1, <3>2
    <3> QED BY <2>5, <2>7, <3>2, <3>3 DEF Starting
  <2>12. Untouched'
    BY <2>2, <2>5, <2>1 DEF Untouched, Starting
  <2> QED BY <2>8, <2>9, <2>10, <2>11, <2>12
<1>8. ASSUME NEW p \in Proxy, Refused(p)
      PROVE  StopInv'
  <2>1. pc[p] = "freeing" /\ Listening # {} /\ Goto(p, "gone") /\ UNCHANGED <<victims, asked, doomed, mishap>>
    BY <1>8 DEF Refused, KeepKill
  <2>2. SomebodyServes'
    BY <2>1 DEF Goto, ProcOK, SomebodyServes, Listening
  <2> QED BY <2>1, <2>2, MovedStop DEF Stages, Starting
<1>9. ASSUME NEW p \in Proxy, Load(p)
      PROVE  StopInv'
  <2>1. PICK stage \in {"gone", "binding"} : Goto(p, stage) /\ (stage = "binding" \/ mishap')
    BY <1>9 DEF Load
  <2>2. pc[p] = "loading" /\ UNCHANGED <<victims, asked, doomed>> /\ (mishap => mishap')
    BY <1>9 DEF Load, KeepKill
  <2>3. SomebodyServes'
    BY <2>1 DEF Goto, ProcOK, SomebodyServes, Starting
  <2> QED BY <2>1, <2>2, <2>3, MovedStop DEF Stages, Starting
<1>10. ASSUME NEW p \in Proxy, Bind(p)
       PROVE  StopInv'
  <2>1. pc[p] = "binding" /\ UNCHANGED <<victims, asked, doomed, mishap>>
    BY <1>10 DEF Bind, KeepKill
  <2>2. CASE Listening # {}
    <3>1. Goto(p, "gone")
      BY <1>10, <2>2 DEF Bind
    <3>2. SomebodyServes'
      BY <2>1, <2>2, <3>1 DEF Goto, ProcOK, SomebodyServes, Listening
    <3> QED BY <2>1, <3>1, <3>2, MovedStop DEF Stages, Starting
  <2>3. CASE Listening = {}
    <3>1. pc'[p] = "booting" /\ \A q \in Proxy \ {p} : pc'[q] = pc[q]
      BY <1>10, <2>3 DEF Bind, Goto, ProcOK
    <3>2. Listening' = {p} /\ p \notin asked \cup doomed
      BY <2>1, <2>3, <3>1 DEF Listening, Untouched, Starting
    <3>3. OnePort' /\ Awaited' /\ Relieved' /\ SomebodyServes'
      BY <2>1, <3>2 DEF OnePort, Awaited, Relieved, SomebodyServes
    <3>4. Untouched'
      BY <2>1, <3>1, <3>2 DEF Untouched, Starting
    <3> QED BY <3>3, <3>4
  <2> QED BY <2>2, <2>3
<1>11. ASSUME NEW p \in Proxy, Boot(p)
       PROVE  StopInv'
  <2>1. /\ pc[p] = "booting" /\ pc'[p] = "serving"
        /\ \A q \in Proxy \ {p} : pc'[q] = pc[q]
        /\ UNCHANGED <<victims, asked, doomed>>
    BY <1>11 DEF Boot, Goto, KeepKill, ProcOK
  <2>2. Listening' = Listening /\ Listening = {p}
    BY <2>1 DEF Listening, OnePort
  <2>3. OnePort' /\ SomebodyServes'
    BY <2>2 DEF OnePort, SomebodyServes
  <2>4. Awaited'
    BY <2>1, <2>2 DEF Awaited
  <2>5. Relieved'
    BY <2>1, <2>2 DEF Relieved, Untouched
  <2>6. Untouched'
    BY <2>1 DEF Untouched, Starting
  <2> QED BY <2>3, <2>4, <2>5, <2>6
<1>12. ASSUME NEW p \in Proxy, BootFails(p) \/ Exit(p) \/ SelfKill(p)
       PROVE  StopInv'
  <2>1. /\ pc[p] \in Alive /\ Goto(p, "gone") /\ Forget({p}) /\ UNCHANGED victims
        /\ mishap => mishap'
    BY <1>12 DEF BootFails, Exit, SelfKill, Alive
  <2>2. pc'[p] = "gone" /\ \A q \in Proxy \ {p} : pc'[q] = pc[q]
    BY <2>1 DEF Goto, ProcOK
  <2>3. SomebodyServes'
    <3>1. CASE p \notin Listening
      <4>1. Listening' = Listening
        BY <2>2, <3>1 DEF Listening
      <4> QED BY <2>1, <2>2, <4>1 DEF SomebodyServes, Starting, Alive
    <3>2. CASE p \in Listening /\ ~BootFails(p)
      <4>1. p \in asked \cup doomed
        BY <1>12, <3>2 DEF Exit, SelfKill, Listening
      <4>2. mishap \/ \E q \in Proxy : pc[q] \in {"listing", "naming", "killing"}
        BY <3>2, <4>1 DEF Awaited, Relieved
      <4> QED BY <2>1, <2>2, <4>2 DEF SomebodyServes, Starting, Alive
    <3>3. CASE BootFails(p)
      BY <3>3 DEF BootFails, SomebodyServes
    <3> QED BY <1>12, <3>1, <3>2, <3>3
  <2> QED BY <2>1, <2>2, <2>3, EndedStop
<1>13. ASSUME NEW p \in Proxy, Drain(p)
       PROVE  StopInv'
  <2>1. /\ pc[p] = "serving" /\ p \in asked /\ Goto(p, "draining")
        /\ UNCHANGED <<victims, asked, doomed, mishap>>
    BY <1>13 DEF Drain, KeepKill
  <2>2. PICK q \in Proxy : pc[q] = "killing"
    BY <2>1 DEF Awaited, Listening, ProcOK
  <2>3. SomebodyServes'
    BY <2>1, <2>2 DEF Goto, ProcOK, SomebodyServes, Starting
  <2> QED BY <2>1, <2>3, MovedStop DEF Stages, Starting
<1>14. ASSUME NEW p \in Proxy, NEW n \in Proxy, Restart(p, n)
       PROVE  StopInv'
  <2>1. /\ pc[p] \in Handling /\ pc[n] = "off" /\ pc'[n] = "listing"
        /\ \A q \in Proxy \ {n} : pc'[q] = pc[q]
        /\ doomed' = doomed \cup {p}
        /\ UNCHANGED <<victims, asked, mishap>>
    BY <1>14 DEF Restart, Goto, ProcOK
  <2>2. Listening' = Listening
    BY <2>1 DEF Listening
  <2>3. OnePort' /\ SomebodyServes'
    BY <2>1, <2>2 DEF OnePort, SomebodyServes, Starting
  <2>4. Awaited'
    BY <2>1, <2>2 DEF Awaited
  <2>5. Relieved'
    BY <2>1 DEF Relieved
  <2>6. Untouched'
    BY <2>1 DEF Untouched, Starting, Handling
  <2> QED BY <2>3, <2>4, <2>5, <2>6
<1>15. ASSUME NEW p \in Proxy, SaveStep(p) \/ Answer(p)
       PROVE  StopInv'
  BY <1>1, <1>15 DEF SaveStep, Answer, procVars
<1>16. ASSUME NEW p \in Proxy, NEW k \in Editable, Edit(p, k)
       PROVE  StopInv'
  BY <1>1, <1>16 DEF Edit, procVars
<1>17. CASE PowerLoss
  <2>1. /\ mishap' /\ asked' = {} /\ doomed' = {}
        /\ \A q \in Proxy : pc'[q] \in {"off", "lost"}
    BY <1>17 DEF PowerLoss, Forget, ProcOK
  <2> QED BY <2>1 DEF OnePort, Awaited, Relieved, Untouched, SomebodyServes, Listening
<1>18. CASE UNCHANGED vars
  BY <1>1, <1>18 DEF vars, procVars
<1>19. ASSUME NEW p \in Proxy, List(p) \/ Freed(p)
       PROVE  StopInv'
  BY <1>3, <1>4, <1>19 DEF List, Freed
<1> QED BY <1>2, <1>5, <1>6, <1>7, <1>8, <1>9, <1>10, <1>11, <1>12, <1>13, <1>14, <1>15, <1>16,
           <1>17, <1>18, <1>19 DEF Next, Start

-----------------------------------------------------------------------------
(* Promises.                                                               *)

LEMMA InitPromise == Init => SaversHandle /\ SavesItsPool /\ PromisesKept
<1> SUFFICES ASSUME Init PROVE SaversHandle /\ SavesItsPool /\ PromisesKept
  OBVIOUS
<1>1. durable \cup {file.keys} = {InitKeys} /\ \A p \in Proxy : ~Saving(p)
  BY DEF Init, FileInit, Saving, NoSave
<1>2. Keeps(InitKeys, Key)
  BY DEF Init, Keeps, Has
<1>3. \A p \in Proxy : pc[p] \in Loaded => pool[p] = InitKeys
  BY DEF Init, Loaded, Alive
<1> QED BY <1>1, <1>2, <1>3 DEF SaversHandle, SavesItsPool, PromisesKept, Keeps

\* Nothing is told or written: who has loaded the keys has them as they were, or
\* just read the file.
LEMMA NothingPromised ==
  ASSUME SavesItsPool, PromisesKept, UNCHANGED promise,
         durable' \cup {file'.keys} \subseteq durable \cup {file.keys},
         \A q \in Proxy : Saving(q)' => save'[q] = save[q] /\ pool'[q] = pool[q],
         \A q \in Proxy : pc'[q] \in Loaded =>
            \/ pc[q] \in Loaded /\ pool'[q] = pool[q] /\ behind'[q] = behind[q]
            \/ pool'[q] = file.keys
  PROVE  SavesItsPool' /\ PromisesKept'
<1>1. SavesItsPool'
  BY DEF SavesItsPool, Saving
<1>2. \A keys, K : Keeps(keys, K)' <=> Keeps(keys, K)
  BY DEF Keeps
<1>3. \A keys \in durable' \cup {file'.keys} : Keeps(keys, Key)'
  BY <1>2 DEF PromisesKept
<1>4. ASSUME NEW q \in Proxy, pc'[q] \in Loaded
      PROVE  Keeps(pool[q], Key \ behind[q])'
  <2>1. CASE pc[q] \in Loaded /\ pool'[q] = pool[q] /\ behind'[q] = behind[q]
    BY <2>1 DEF PromisesKept, Keeps
  <2>2. CASE pool'[q] = file.keys
    BY <2>2 DEF PromisesKept, Keeps
  <2> QED BY <1>4, <2>1, <2>2
<1> QED BY <1>1, <1>3, <1>4 DEF PromisesKept

\* A step of p's save, next to the saves of others.
LEMMA SavePromise ==
  ASSUME FileOK, ProcOK, PromiseInv, NEW p \in Proxy, SaveStep(p) \/ Answer(p)
  PROVE  SavesItsPool' /\ PromisesKept'
<1> USE DEF PromiseInv
<1>1. /\ save \in [Proxy -> SaveType] /\ save[p].keys = pool[p]
      /\ Keeps(pool[p], Key \ behind[p])
  <2>1. Saving(p)
    BY DEF SaveStep, Answer, Saving, Backup, Stage, Sync, Replace, SyncDir, SaveFails
  <2>2. pc[p] \in Loaded
    BY <2>1 DEF SaversHandle, Handling, Loaded, Alive
  <2> QED BY <2>1, <2>2 DEF FileOK, FileTypeOK, SaveType, SavesItsPool, PromisesKept
<1>2. UNCHANGED <<pc, pool>>
  BY DEF SaveStep, Answer, procVars
<1>3. \A q \in Proxy : Saving(q)' => Saving(q) /\ save'[q].keys = save[q].keys
  <2>1. CASE Replace(p)
    BY <1>1, <2>1 DEF Replace, SaveType, Saving
  <2>2. CASE Backup(p) \/ Stage(p) \/ Sync(p) \/ SyncDir(p) \/ SaveFails(p)
    BY <1>1, <2>2 DEF Backup, Stage, Sync, SyncDir, SaveFails, SaveType, Saving, NoSave
  <2> QED BY <2>1, <2>2 DEF SaveStep, Answer
<1>4. SavesItsPool'
  BY <1>2, <1>3 DEF SavesItsPool
<1>5. CASE SaveStep(p) /\ UNCHANGED <<file, durable, promise>>
  <2>1. UNCHANGED behind
    BY <1>5 DEF SaveStep
  <2> QED BY <1>2, <1>4, <1>5, <2>1 DEF PromisesKept, Keeps
<1>6. CASE Replace(p) /\ Overwrite(p) /\ UNCHANGED behind
  <2>1. file'.keys = pool[p] /\ durable' = durable \cup {pool[p]}
    BY <1>1, <1>6 DEF FileOK, SyncedFirst, Replace, Survivor
  <2>2. \A k \in Key : \/ promise'[k] = promise[k] \/ promise'[k] = "open"
    BY <1>6 DEF Overwrite
  <2>3. ASSUME NEW keys, NEW K \in SUBSET Key, Keeps(keys, K)
        PROVE  Keeps(keys, K)'
    BY <2>2, <2>3 DEF Keeps
  <2>4. Keeps(pool[p], Key)'
    <3> SUFFICES ASSUME NEW k \in Key, promise'[k] # "open"
                 PROVE  promise'[k] = Has(pool[p], k)
      BY <1>2 DEF Keeps
    <3>1. promise'[k] = promise[k] /\ (k \notin behind[p] \/ promise[k] = Has(pool[p], k))
      BY <1>1, <1>6 DEF Overwrite
    <3> QED BY <1>1, <3>1 DEF Keeps
  <2>5. \A q \in Proxy : pc[q] \in Loaded => Keeps(pool[q], Key \ behind[q])'
    BY <1>2, <1>6, <2>2 DEF PromisesKept, Keeps
  <2>6. \A keys \in durable : Keeps(keys, Key)'
    BY <2>3 DEF PromisesKept
  <2> QED BY <1>2, <1>4, <1>6, <2>1, <2>4, <2>5, <2>6 DEF PromisesKept, Keeps
<1>7. CASE Answer(p)
  <2>1. /\ durable' = {file.keys} /\ UNCHANGED file
        /\ promise' = Promised(pool[p])
    BY <1>1, <1>7 DEF Answer, Told, SyncDir, Survivor, FileOK, SyncedFirst
  <2>2. \A k \in Key : /\ promise'[k] \in {"open", Has(pool[p], k)}
                       /\ promise'[k] \in {"open", Has(file.keys, k)}
    BY <2>1 DEF Promised
  <2>3. ASSUME NEW q \in Proxy, NEW k \in Key \ behind'[q]
        PROVE  promise'[k] \in {"open", Has(pool[q], k)}
    <3>1. CASE q = p
      BY <2>2, <3>1
    <3>2. CASE q # p
      BY <1>7, <2>3, <3>2 DEF Answer, Told
    <3> QED BY <3>1, <3>2
  <2> QED BY <1>2, <1>4, <2>1, <2>2, <2>3 DEF PromisesKept, Keeps
<1>8. SaveStep(p) => UNCHANGED <<file, durable, promise>> \/ (Replace(p) /\ Overwrite(p) /\ UNCHANGED behind)
  BY DEF SaveStep, Backup, Stage, Sync, SaveFails
<1> QED BY <1>5, <1>6, <1>7, <1>8

LEMMA NextPromise ==
  ASSUME FileOK, ProcOK, PromiseInv, [Next]_vars
  PROVE  SavesItsPool' /\ PromisesKept'
<1> USE DEF PromiseInv
<1>1. save \in [Proxy -> SaveType]
  BY DEF FileOK, FileTypeOK, SaveType
<1>2. ASSUME UNCHANGED <<fileVars, userVars>>,
             \A q \in Proxy : pc'[q] \in Loaded => pc[q] \in Loaded
      PROVE  SavesItsPool' /\ PromisesKept'
  BY <1>2, NothingPromised DEF fileVars, userVars
<1>3. ASSUME NEW p \in Proxy,
             Launch(p) \/ List(p) \/ Unnamed(p) \/ Ask(p) \/ Freed(p) \/ Refused(p)
               \/ Bind(p) \/ Boot(p) \/ Drain(p) \/ \E q \in Proxy : Restart(p, q)
      PROVE  SavesItsPool' /\ PromisesKept'
  <2>1. UNCHANGED <<fileVars, userVars>>
    BY <1>3 DEF Launch, List, Unnamed, Ask, Freed, Refused, Bind, Boot, Drain, Restart, MakeRoom,
                KeepFile
  <2>2. PICK q \in Proxy, stage \in Stages :
          /\ stage \in Loaded => pc[q] \in Loaded
          /\ pc' = [pc EXCEPT ![q] = stage]
    BY <1>3 DEF Launch, List, Unnamed, Ask, Freed, Refused, Bind, Boot, Drain, Restart, MakeRoom,
                Goto, Stages, Loaded, Alive
  <2> QED BY <1>2, <2>1, <2>2 DEF ProcOK
<1>4. ASSUME NEW S, Forget(S), UNCHANGED <<file, durable, promise>>,
             Abandon(S) \/ (UNCHANGED save /\ \A q \in S \cap Proxy : ~Saving(q)),
             \A q \in Proxy : pc'[q] \in Loaded => pc[q] \in Loaded /\ q \notin S
      PROVE  SavesItsPool' /\ PromisesKept'
  <2>1. \A q \in Proxy : q \notin S => pool'[q] = pool[q] /\ behind'[q] = behind[q]
    BY <1>4 DEF Forget
  <2>2. \A q \in Proxy : Saving(q)' => save'[q] = save[q] /\ q \notin S
    BY <1>4 DEF Abandon, Saving, NoSave
  <2> QED BY <1>4, <2>1, <2>2, NothingPromised
<1>5. ASSUME NEW p \in Proxy, GraceOver(p)
      PROVE  SavesItsPool' /\ PromisesKept'
  <2> DEFINE killed == {v \in victims[p] : pc[v] \in Alive}
  <2>1. /\ Abandon(killed) /\ Forget(killed) /\ UNCHANGED <<file, durable, promise>>
        /\ pc' = [q \in Proxy |-> IF q = p THEN "freeing"
                                  ELSE IF q \in killed THEN "gone" ELSE pc[q]]
    BY <1>5 DEF GraceOver
  <2> HIDE DEF killed
  <2>2. \A q \in Proxy : pc'[q] \in Loaded => pc[q] \in Loaded /\ q \notin killed
    BY <2>1 DEF Loaded, Alive
  <2> QED BY <1>4, <2>1, <2>2
<1>6. ASSUME NEW p \in Proxy, BootFails(p) \/ Exit(p) \/ SelfKill(p)
      PROVE  SavesItsPool' /\ PromisesKept'
  <2>1. Forget({p}) /\ UNCHANGED <<file, durable, promise>> /\ Goto(p, "gone")
    BY <1>6 DEF BootFails, Exit, SelfKill, fileVars
  <2>2. Abandon({p}) \/ (UNCHANGED save /\ ~Saving(p))
    <3>1. pc[p] = "booting" => ~Saving(p)
      BY DEF SaversHandle, Handling
    <3> QED BY <1>6, <3>1 DEF BootFails, Exit, SelfKill, fileVars
  <2>3. \A q \in Proxy : pc'[q] \in Loaded => pc[q] \in Loaded /\ q \notin {p}
    BY <2>1 DEF Goto, ProcOK, Loaded, Alive
  <2>4. \A q \in {p} \cap Proxy : q = p
    OBVIOUS
  <2> QED BY <1>4, <2>1, <2>2, <2>3, <2>4
<1>7. ASSUME NEW p \in Proxy, Load(p)
      PROVE  SavesItsPool' /\ PromisesKept'
  <2>1. /\ pc[p] = "loading" /\ pool'[p] = file.keys
        /\ \A q \in Proxy \ {p} : pc'[q] = pc[q] /\ pool'[q] = pool[q] /\ behind'[q] = behind[q]
        /\ UNCHANGED <<fileVars, promise>>
    BY <1>7 DEF Load, Goto, ProcOK, FileOK, KeyFileWhole
  <2>2. ~Saving(p)
    BY <2>1 DEF SaversHandle, Handling
  <2>3. \A q \in Proxy : Saving(q)' => save'[q] = save[q] /\ pool'[q] = pool[q]
    BY <2>1, <2>2 DEF fileVars, Saving
  <2> QED BY <2>1, <2>3, NothingPromised DEF fileVars
<1>8. ASSUME NEW p \in Proxy, SaveStep(p) \/ Answer(p)
      PROVE  SavesItsPool' /\ PromisesKept'
  BY <1>8, SavePromise
<1>9. ASSUME NEW p \in Proxy, NEW k \in Editable, Edit(p, k)
      PROVE  SavesItsPool' /\ PromisesKept'
  <2>1. PICK keys :
          /\ keys = IF k \in pool[p] THEN pool[p] \ {k} ELSE pool[p] \cup {k}
          /\ pool' = [pool EXCEPT ![p] = keys] /\ BeginSave(p, keys)
    BY <1>9 DEF Edit
  <2>2. /\ promise' = [promise EXCEPT ![k] = "open"]
        /\ UNCHANGED <<pc, file, durable, behind>> /\ k \in Key
    BY <1>9, <2>1, RestartSizes DEF Edit, BeginSave, procVars
  <2>3. /\ \A q \in Proxy \ {p} : pool'[q] = pool[q] /\ save'[q] = save[q]
        /\ pool'[p] = keys /\ save'[p].keys = keys
    BY <1>1, <2>1 DEF BeginSave, ProcOK, NoSave
  <2>4. SavesItsPool'
    BY <2>3 DEF SavesItsPool, Saving
  <2>5. /\ promise'[k] = "open"
        /\ \A x \in Key \ {k} : promise'[x] = promise[x] /\ Has(keys, x) = Has(pool[p], x)
    BY <2>1, <2>2 DEF ProcOK, Has
  <2>6. \A x \in durable' \cup {file'.keys} : Keeps(x, Key)'
    BY <2>2, <2>5 DEF PromisesKept, Keeps
  <2>7. \A q \in Proxy : pc'[q] \in Loaded => Keeps(pool[q], Key \ behind[q])'
    BY <2>2, <2>3, <2>5 DEF PromisesKept, Keeps
  <2> QED BY <2>4, <2>6, <2>7 DEF PromisesKept
<1>10. CASE PowerLoss
  <2>1. PICK keys \in durable : file'.keys = keys /\ durable' = {keys}
    BY <1>10 DEF PowerLoss, FilePowerLoss
  <2>2. /\ \A q \in Proxy : save'[q] = NoSave /\ pc'[q] \notin Loaded
        /\ UNCHANGED promise
    BY <1>10 DEF PowerLoss, FilePowerLoss, Loaded, Alive
  <2>3. \A q \in Proxy : ~Saving(q)'
    BY <2>2 DEF Saving, NoSave
  <2> QED BY <2>1, <2>2, <2>3, NothingPromised
<1>11. CASE UNCHANGED vars
  BY <1>2, <1>11 DEF vars, procVars
<1> QED BY <1>3, <1>5, <1>6, <1>7, <1>8, <1>9, <1>10, <1>11 DEF Next, Start

-----------------------------------------------------------------------------
(* The theorems.                                                           *)

LEMMA FileInductive == Spec => [](FileOK /\ ProcOK)
<1>1. Init => FileOK /\ ProcOK
  BY InitFile, InitProc
<1>2. (FileOK /\ ProcOK) /\ [Next]_vars => (FileOK /\ ProcOK)'
  BY FileNext, ProcNext
<1> QED BY <1>1, <1>2, PTL DEF Spec

\* The processes, the file, its backups and its saves have their types, and
\* never more than MaxBackups backups are kept.
THEOREM Typed == Spec => []TypeOK
<1>1. FileOK /\ ProcOK => TypeOK
  BY TypeParts DEF FileOK
<1> QED BY <1>1, FileInductive, PTL

\* However many processes save, and whenever they are killed or the power
\* fails, the key file is one that was saved whole.
THEOREM KeyFileStaysWhole == Spec => []KeyFileWhole
<1>1. FileOK /\ ProcOK => KeyFileWhole
  BY DEF FileOK
<1> QED BY <1>1, FileInductive, PTL

\* However many processes save at once, what a save overwrites is the backup it
\* made, unless another one renamed its version in between.
THEOREM OverwritesAreBackedUp == Spec => OverwrittenIsBackedUp
<1>1. Init => BackedFirst
  BY DEF Init, FileInit, BackedFirst, NoSave
<1>2. (FileOK /\ ProcOK) /\ BackedFirst /\ [Next]_vars => BackedFirst'
  BY NextBacked
<1>3. (FileOK /\ ProcOK) /\ BackedFirst /\ [Next]_vars =>
        [\A p \in Proxy :
           /\ save[p].backed /\ ~save[p].overtaken /\ ~file.late
           /\ save[p].step = "replace" /\ save'[p].step = "syncdir"
           => \E i \in DOMAIN backups' : backups'[i] = file.keys]_vars
  <2> SUFFICES ASSUME FileOK, ProcOK, BackedFirst, Next, NEW p \in Proxy,
                      save[p].backed, ~save[p].overtaken, ~file.late,
                      save[p].step = "replace", save'[p].step = "syncdir"
               PROVE  \E i \in DOMAIN backups' : backups'[i] = file.keys
    OBVIOUS
  <2>1. backups \in Seq(Pools \cup {Torn}) /\ backups # <<>> /\ backups[1] = file.keys
    BY DEF FileOK, FileTypeOK, BackedFirst
  <2>2. save \in [Proxy -> SaveType]
    BY DEF FileOK, FileTypeOK, SaveType
  <2>3. ASSUME NEW q \in Proxy, Backup(q)
        PROVE  FALSE
    <3>1. save'[p] = save[p] \/ save'[p].step = "stage"
      BY <2>2, <2>3 DEF Backup, SaveType
    <3> QED BY <3>1
  <2>4. ~PowerLoss
    BY DEF PowerLoss, FilePowerLoss, NoSave
  <2>5. UNCHANGED backups
    BY <2>3, <2>4 DEF Next, Start, Launch, List, Unnamed, Ask, GraceOver, Freed, Refused, Load,
       Bind, Boot, BootFails, Drain, Exit, SelfKill, Restart, Edit, BeginSave, MakeRoom, KeepFile,
       fileVars, SaveStep, Answer, Stage, Sync, Replace, SyncDir, SaveFails
  <2> QED BY <2>1, <2>5
<1> QED BY <1>1, <1>2, <1>3, FileInductive, PTL DEF Spec, OverwrittenIsBackedUp

\* However many processes are started, restarted and stopped by one another,
\* in whatever order, they never end with nobody listening and nobody starting,
\* unless one that was starting went wrong by itself or the power failed.
THEOREM SomebodyKeepsServing == Spec => []SomebodyServes
<1>1. Init => StopInv
  BY InitStop
<1>2. (FileOK /\ ProcOK) /\ StopInv /\ [Next]_vars => StopInv'
  BY NextStop
<1>3. StopInv => SomebodyServes
  BY DEF StopInv
<1> QED BY <1>1, <1>2, <1>3, FileInductive, PTL DEF Spec

\* However many processes serve, drain, save and replace one another: an edit of
\* the keys that was answered with ok is in the file, in what a power loss leaves
\* of it and in every process that loaded the file, whatever crashes, whatever
\* saves fail and whoever is killed in the middle of one; but for the processes
\* that read the file before that edit and were never told, and what they save.
THEOREM PromisesHold == Spec => []PromisesKept
<1>1. Init => PromiseInv
  BY InitPromise DEF PromiseInv
<1>2. (FileOK /\ ProcOK) /\ PromiseInv /\ [Next]_vars => PromiseInv'
  <2> SUFFICES ASSUME FileOK, ProcOK, PromiseInv, [Next]_vars
               PROVE  PromiseInv'
    OBVIOUS
  <2>1. SaversHandle'
    BY SaversStay DEF PromiseInv
  <2>2. SavesItsPool' /\ PromisesKept'
    BY NextPromise
  <2> QED BY <2>1, <2>2 DEF PromiseInv
<1>3. PromiseInv => PromisesKept
  BY DEF PromiseInv
<1> QED BY <1>1, <1>2, <1>3, FileInductive, PTL DEF Spec

=============================================================================
