------------------------------ MODULE Restarts ------------------------------
(***************************************************************************)
(* Proxy processes that replace one another: openvidia/__main__.py,        *)
(* server_manager.start and shutdown, the dashboard's restart and its      *)
(* edits of the keys (webui.py), over the file of KeyFile.                 *)
(*                                                                         *)
(* A process that starts makes room for itself before it loads anything:   *)
(*                                                                         *)
(*   off -> listing -> naming -> killing -> freeing                        *)
(*       -> loading -> binding -> booting -> serving                       *)
(*                                                                         *)
(* and a process that was asked to stop goes from serving to draining (its *)
(* socket is closed, its open requests are not) to gone.  Its socket is    *)
(* bound from "booting" on; requests are answered from "serving" on.       *)
(***************************************************************************)
EXTENDS KeyFile

CONSTANTS
  First,        \* the process that is serving at the start
  InitKeys,     \* the keys it holds
  Desktop,      \* the processes that the user starts with the desktop launcher
  Editable      \* the keys the dashboard adds and removes

ASSUME RestartSizes ==
  /\ First \in Proxy
  /\ InitKeys \in SUBSET Key /\ InitKeys # {}
  /\ Desktop \subseteq Proxy
  /\ Editable \subseteq Key

VARIABLES
  pc,       \* how far each process is
  desk,     \* processes still run by the desktop launcher, which frees the
            \* port itself before it starts the proxy that does so again
  victims,  \* the processes found on the port
  asked,    \* processes that received a SIGTERM
  doomed,   \* processes whose restart thread is about to kill them
  pool,     \* state.keys of each process
  promise,  \* what the user was last told of each key: it is in, it is out, or
            \* nothing certain
  behind,   \* the keys of which the user was told otherwise than a process has
            \* it, by another process, since it read the file
  mishap    \* since a process last began to serve, one that was starting went
            \* wrong by itself, or the power failed

procVars == <<pc, desk, victims, asked, doomed>>
userVars == <<pool, promise, behind>>
vars == <<fileVars, procVars, userVars, mishap>>

Stages == {"off", "listing", "naming", "killing", "freeing", "loading", "binding",
           "booting", "serving", "draining", "gone", "lost"}
Starting == {"listing", "naming", "killing", "freeing", "loading", "binding"}
Alive == {"booting", "serving", "draining"}
Loaded == Alive \cup {"binding"}
\* The stages in which requests are under way.
Handling == {"serving", "draining"}

\* Type invariant: the state of the processes and of the file has its type.
TypeOK ==
  /\ FileTypeOK
  /\ pc \in [Proxy -> Stages]
  /\ desk \in SUBSET Proxy
  /\ victims \in [Proxy -> SUBSET Proxy]
  /\ asked \in SUBSET Proxy /\ doomed \in SUBSET Proxy
  /\ pool \in [Proxy -> Pools]
  /\ promise \in [Key -> {"in", "out", "open"}]
  /\ behind \in [Proxy -> SUBSET Key]
  /\ mishap \in BOOLEAN

Init ==
  /\ FileInit(InitKeys)
  /\ pc = [p \in Proxy |-> IF p = First THEN "serving" ELSE "off"]
  /\ desk = {} /\ asked = {} /\ doomed = {}
  /\ victims = [p \in Proxy |-> {}]
  /\ pool = [p \in Proxy |-> IF p = First THEN InitKeys ELSE {}]
  /\ promise = [k \in Key |-> IF k \in InitKeys THEN "in" ELSE "out"]
  /\ behind = [p \in Proxy |-> {}]
  /\ mishap = FALSE

Listening == {p \in Proxy : pc[p] \in {"booting", "serving"}}

-----------------------------------------------------------------------------
(* Starting, and making room (_kill_stale_port).                           *)

Goto(p, stage) == pc' = [pc EXCEPT ![p] = stage]
KeepFile == UNCHANGED <<fileVars, userVars>>
KeepKill == UNCHANGED <<victims, asked, doomed>>

\* The processes of S end, with what they remember and what was asked of them.
Forget(S) ==
  /\ asked' = asked \ S /\ doomed' = doomed \ S
  /\ pool' = [p \in Proxy |-> IF p \in S THEN {} ELSE pool[p]]
  /\ behind' = [p \in Proxy |-> IF p \in S THEN {} ELSE behind[p]]

\* The user starts a proxy, in a terminal or with the desktop launcher.
Launch(p) ==
  /\ pc[p] = "off"
  /\ Goto(p, "listing")
  /\ desk' = desk \cup ({p} \cap Desktop)
  /\ UNCHANGED mishap /\ KeepKill /\ KeepFile

\* The port looks free, which it always does to a process that may not list the
\* sockets: the launcher starts the proxy, the proxy goes on.
MakeRoom(p) ==
  /\ Goto(p, IF p \in desk THEN "listing" ELSE "loading")
  /\ desk' = desk \ {p}
  /\ mishap' = (mishap \/ Listening # {})
  /\ KeepKill /\ KeepFile

\* The sockets are listed, or psutil may not or cannot list them: nobody is found.
List(p) ==
  /\ pc[p] = "listing"
  /\ \/ MakeRoom(p)
     \/ /\ Listening # {}
        /\ Goto(p, "naming")
        /\ victims' = [victims EXCEPT ![p] = Listening]
        /\ UNCHANGED <<desk, asked, doomed, mishap>> /\ KeepFile

\* The name of a process that ended meanwhile raises NoSuchProcess, which nobody
\* catches.
Unnamed(p) ==
  /\ pc[p] = "naming" /\ \E v \in victims[p] : pc[v] \notin Alive
  /\ Goto(p, "gone")
  /\ victims' = [victims EXCEPT ![p] = {}]
  /\ mishap' = TRUE
  /\ UNCHANGED <<desk, asked, doomed>> /\ KeepFile

\* The processes found are asked to stop (one that ended may still have a name).
Ask(p) ==
  /\ pc[p] = "naming"
  /\ Goto(p, "killing")
  /\ asked' = asked \cup {v \in victims[p] : pc[v] \in Alive}
  /\ UNCHANGED <<desk, victims, doomed, mishap>> /\ KeepFile

\* Mutant: whoever is still there after the grace period is left alone.
OnlyAsked(p) ==
  /\ pc[p] = "killing"
  /\ Goto(p, "freeing")
  /\ victims' = [victims EXCEPT ![p] = {}]
  /\ UNCHANGED <<desk, asked, doomed, mishap>> /\ KeepFile

\* The grace period is over: whoever is still there is killed.
GraceOver(p) ==
  /\ pc[p] = "killing"
  /\ LET left == {v \in victims[p] : pc[v] \in Alive}
     IN  /\ pc' = [q \in Proxy |-> IF q = p THEN "freeing"
                                   ELSE IF q \in left THEN "gone" ELSE pc[q]]
         /\ Abandon(left) /\ Forget(left)
  /\ victims' = [victims EXCEPT ![p] = {}]
  /\ UNCHANGED <<desk, file, durable, backups, promise, mishap>>

\* The port is polled until it is free, or looks so ...
Freed(p) == pc[p] = "freeing" /\ MakeRoom(p)

\* ... or somebody else took it: no second instance on top of that one.
Refused(p) ==
  /\ pc[p] = "freeing" /\ Listening # {}
  /\ Goto(p, "gone")
  /\ UNCHANGED <<desk, mishap>> /\ KeepKill /\ KeepFile

\* The keys are read; there is no proxy without any.
Load(p) ==
  /\ pc[p] = "loading"
  /\ LET found == IF file.keys = Torn THEN {} ELSE file.keys
     IN  /\ Goto(p, IF found = {} THEN "gone" ELSE "binding")
         /\ pool' = [pool EXCEPT ![p] = found]
         /\ mishap' = (mishap \/ found = {})
  /\ behind' = [behind EXCEPT ![p] = {}]
  /\ UNCHANGED <<desk, fileVars, promise>> /\ KeepKill

\* Two sockets cannot listen on one port.
Bind(p) ==
  /\ pc[p] = "binding"
  /\ Goto(p, IF Listening = {} THEN "booting" ELSE "gone")
  /\ UNCHANGED <<desk, mishap>> /\ KeepKill /\ KeepFile

\* The server reports that it started, and serves ...
Boot(p) ==
  /\ pc[p] = "booting"
  /\ Goto(p, "serving")
  /\ mishap' = FALSE
  /\ UNCHANGED desk /\ KeepKill /\ KeepFile

\* ... or does not within two seconds, and start raises.
BootFails(p) ==
  /\ pc[p] = "booting"
  /\ Goto(p, "gone") /\ Forget({p})
  /\ mishap' = TRUE
  /\ UNCHANGED <<desk, victims, fileVars, promise>>

-----------------------------------------------------------------------------
(* Stopping.                                                               *)

\* uvicorn acts on the SIGTERM between two steps of its loop, so never in the
\* middle of a save: it closes the socket and lets the open requests finish.
Drain(p) ==
  /\ pc[p] = "serving" /\ p \in asked /\ ~Saving(p)
  /\ Goto(p, "draining")
  /\ UNCHANGED <<desk, mishap>> /\ KeepKill /\ KeepFile

\* Its requests are over, or the signal came before its server started.
Exit(p) ==
  /\ \/ pc[p] = "draining" /\ ~Saving(p)
     \/ pc[p] = "booting" /\ p \in asked
  /\ Goto(p, "gone") /\ Forget({p})
  /\ UNCHANGED <<desk, victims, fileVars, promise, mishap>>

\* Mutant: the process kills itself before it starts its replacement.
KillFirst(p, q) ==
  /\ pc[p] \in Handling /\ pc[q] = "off"
  /\ doomed' = doomed \cup {p}
  /\ UNCHANGED <<pc, desk, victims, asked, mishap>> /\ KeepFile

\* /api/restart: a thread starts the replacement q, and kills p a little later.
\* The request may be answered before p is asked to stop, and q start after.
Restart(p, q) ==
  /\ pc[p] \in Handling /\ pc[q] = "off"
  /\ Goto(q, "listing")
  /\ doomed' = doomed \cup {p}
  /\ UNCHANGED <<desk, victims, asked, mishap>> /\ KeepFile

\* The thread does not wait for what the loop is doing.
SelfKill(p) ==
  /\ p \in doomed /\ pc[p] \in Alive
  /\ Goto(p, "gone")
  /\ Abandon({p}) /\ Forget({p})
  /\ UNCHANGED <<desk, victims, file, durable, backups, promise, mishap>>

PowerLoss ==
  /\ FilePowerLoss
  /\ pc' = [p \in Proxy |-> IF pc[p] = "off" THEN "off" ELSE "lost"]
  /\ mishap' = TRUE
  /\ desk' = {} /\ victims' = [p \in Proxy |-> {}] /\ Forget(Proxy)
  /\ UNCHANGED promise

-----------------------------------------------------------------------------
(* Editing the keys.                                                       *)

\* The handler changes the pool and saves it, without a pause in between.  It
\* waits for its body and for the lock before, so it may do so in a process that
\* was asked to stop meanwhile, next to the one that takes over.
Edit(p, k) ==
  /\ pc[p] \in Handling /\ ~Saving(p)
  /\ LET keys == IF k \in pool[p] THEN pool[p] \ {k} ELSE pool[p] \cup {k}
     IN  /\ pool' = [pool EXCEPT ![p] = keys]
         /\ BeginSave(p, keys)
  /\ promise' = [promise EXCEPT ![k] = "open"]
  /\ UNCHANGED <<procVars, behind, mishap>>

Has(keys, k) == IF k \in keys THEN "in" ELSE "out"

\* The reply lists the whole pool.  Where another process has replaced the file
\* since the rename it promises nothing.
Promised(keys) ==
  [k \in Key |-> IF Has(keys, k) = Has(file.keys, k) THEN Has(keys, k) ELSE "open"]

\* What p tells the user is news to another process that has it otherwise.
Told(p) ==
  /\ promise' = Promised(save[p].keys)
  /\ behind' = [q \in Proxy |->
       IF q = p THEN {}
       ELSE behind[q] \cup {k \in Key : promise'[k] \notin {"open", Has(pool[q], k)}}]

\* A process that renames what it saved overwrites what it is behind on.
Overwrite(p) ==
  promise' = [k \in Key |-> IF k \in behind[p] /\ promise[k] # Has(save[p].keys, k)
                            THEN "open" ELSE promise[k]]

\* Mutant: the reply is not held back until the rename is on disk.
AnswerEarly(p) ==
  /\ Replace(p)
  /\ promise' = [k \in Key |-> Has(save[p].keys, k)]
  /\ UNCHANGED <<procVars, pool, behind, mishap>>

SaveStep(p) ==
  /\ \/ Backup(p) /\ UNCHANGED promise
     \/ Stage(p) /\ UNCHANGED promise
     \/ Sync(p) /\ UNCHANGED promise
     \/ SaveFails(p) /\ UNCHANGED promise
     \/ Replace(p) /\ Overwrite(p)
  /\ UNCHANGED <<procVars, pool, behind, mishap>>

\* {"ok": true}, and the pool that was saved.
Answer(p) ==
  /\ SyncDir(p)
  /\ Told(p)
  /\ UNCHANGED <<procVars, pool, mishap>>

-----------------------------------------------------------------------------
Start(p) ==
  \/ List(p) \/ Unnamed(p) \/ Ask(p) \/ GraceOver(p) \/ Freed(p) \/ Refused(p)
  \/ Load(p) \/ Bind(p) \/ Boot(p) \/ BootFails(p)

Next ==
  \/ \E p \in Proxy : \/ Launch(p) \/ Start(p)
                      \/ Drain(p) \/ Exit(p) \/ SelfKill(p)
                      \/ SaveStep(p) \/ Answer(p)
                      \/ \E q \in Proxy : Restart(p, q)
                      \/ \E k \in Editable : Edit(p, k)
  \/ PowerLoss

Spec == Init /\ [][Next]_vars

\* A process that starts goes on, whatever the others do: its waits are all bounded.
\* Nothing is assumed of the processes that serve, drain or save.
FairSpec == Spec /\ WF_vars(\E p \in Proxy : Start(p))

-----------------------------------------------------------------------------
(* Properties.                                                             *)

\* At whatever moment a process is killed or the power fails, and however many
\* save at once, the key file is a whole version somebody saved, never a torn one
\* (atomic_write syncs a temporary file of its own before it renames it).
KeyFileWhole == file.keys # Torn /\ Torn \notin durable

\* What the user was told of the keys of K is so in these keys.
Keeps(keys, K) == \A k \in K : promise[k] \in {"open", Has(keys, k)}

\* An edit of the keys that was answered with ok is in the file, in whatever a
\* power loss would leave of it, and in every process that loaded it, whatever
\* crashes, restarts and failed saves there are; unless the save of a process that
\* read the file before that edit and was never told of it has overwritten it, and
\* in the processes that are still that far behind.
PromisesKept ==
  /\ \A keys \in durable \cup {file.keys} : Keeps(keys, Key)
  /\ \A p \in Proxy : pc[p] \in Loaded => Keeps(pool[p], Key \ behind[p])

\* A version of the key file is only overwritten once it is among the backups,
\* unless the backup failed, or two processes saved at once: another one renamed
\* its version in the middle of this save, or the one overwritten was so itself.
OverwrittenIsBackedUp ==
  [][\A p \in Proxy :
       /\ save[p].backed /\ ~save[p].overtaken /\ ~file.late
       /\ save[p].step = "replace" /\ save'[p].step = "syncdir"
       => \E i \in DOMAIN backups' : backups'[i] = file.keys]_vars

\* Processes that start together, or replace one another, never end up with
\* nobody listening and nobody starting because they gave way to, or killed, one
\* another: it takes one that went wrong by itself since a proxy last began to
\* serve (a traceback over a dead process, sockets it could not list, no keys, a
\* server that did not start) or a power loss.
SomebodyServes ==
  Listening # {} \/ mishap \/ \E p \in Proxy : pc[p] \in Starting

\* Whenever nobody is listening somebody soon will be, but for such a mishap.
GapsClose == Listening = {} ~> Listening # {} \/ mishap
=============================================================================
