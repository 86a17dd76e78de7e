------------------------------- MODULE GraphHub -------------------------------
(***************************************************************************)
(* The graph engine, openvidia/graph_engine.py: a Hub shared by agents,    *)
(* each a run_agent coroutine in an asyncio task that talks to a model and *)
(* runs the tools the model asks for.  Orchestrators (run by the host with *)
(* a worker factory) spawn and kill workers; everybody sends and awaits    *)
(* messages; the host closes the hub.                                      *)
(*                                                                         *)
(* A step is what one task does between two awaits.  A body moves through  *)
(*                                                                         *)
(*   none -> starting -> thinking (the chat is awaited) -> over            *)
(*                         |   ^                                           *)
(*              waiting (mailbox), killing (gather of the victim)          *)
(*                                                                         *)
(* Cancelling a task only marks it: CancelledError reaches its body when   *)
(* it next runs, which for a killer is when its victim is over, because    *)
(* cancelling a gather cancels its child and waits for it.                 *)
(*                                                                         *)
(* Assumed of the host: it runs each orchestrator once, under a fresh name,*)
(* and closes the hub once.  A reply of the model asks for one tool.       *)
(***************************************************************************)
EXTENDS Naturals, Sequences, SequencesExt

CONSTANTS
  Root,          \* the orchestrators the host runs
  Worker,        \* the names an orchestrator may spawn
  MaxIterations, \* max_iterations of every agent
  MaxMail        \* messages a mailbox holds in this instance

ASSUME HubSizes ==
  /\ Root \cap Worker = {} /\ IsFiniteSet(Root \cup Worker)
  /\ MaxIterations \in Nat \ {0} /\ MaxMail \in Nat

Name == Root \cup Worker

VARIABLES
  status,  \* Hub._status, "none" before register
  tasks,   \* the keys of Hub._tasks, in the order of the dict
  mail,    \* how many messages wait in each mailbox
  body,    \* where the coroutine of each agent stands
  iters,   \* its iterations so far
  victims, \* the names a killing agent has yet to kill, the awaited one first
  pending, \* the CancelledError a task has yet to see: its timer's or another's
  host     \* "open", or what became of Hub.close

vars == <<status, tasks, mail, body, iters, victims, pending, host>>

Ended == {"done", "killed", "timeout", "crashed"}

\* Type invariant; an agent never begins an iteration past its limit.
TypeOK ==
  /\ status \in [Name -> Ended \cup {"none", "active"}]
  /\ tasks \in Seq(Name) /\ IsInjective(tasks)
  /\ mail \in [Name -> 0..MaxMail]
  /\ body \in [Name -> {"none", "starting", "thinking", "waiting", "killing", "over"}]
  /\ iters \in [Name -> 0..(MaxIterations - 1)]
  /\ victims \in [Name -> Seq(Name)]
  /\ pending \in [Name -> {"none", "timer", "cancel"}]
  /\ host \in {"open", "closing", "closed", "failed"}

Init ==
  /\ status = [n \in Name |-> "none"]
  /\ tasks = <<>>
  /\ mail = [n \in Name |-> 0]
  /\ body = [n \in Name |-> "none"]
  /\ iters = [n \in Name |-> 0]
  /\ victims = [n \in Name |-> <<>>]
  /\ pending = [n \in Name |-> "none"]
  /\ host = "open"

Alive(n) == body[n] \notin {"none", "over"}
\* Its code runs, or would if what it awaits came.
Running(n) == body[n] \in {"thinking", "waiting", "killing"}
\* n will go on from what it awaits, not be interrupted there.
At(n, place) == body[n] = place /\ pending[n] = "none"

Registered == {n \in Name : status[n] # "none"}

-----------------------------------------------------------------------------
(* The end of an agent, and of a turn.                                     *)

\* Mutant: the finally block reports every end as done.
LeaveAsDone(n, how, st, new) ==
  /\ status' = [st EXCEPT ![n] = "done"]
  /\ body' = [m \in Name |-> IF m = n THEN "over" ELSE body[m]]
  /\ tasks' = RemoveFirst(tasks \o new, n)
  /\ victims' = [victims EXCEPT ![n] = <<>>]
  /\ pending' = [pending EXCEPT ![n] = "none"]
  /\ UNCHANGED <<iters, host>>

\* run_agent leaves: its except clause, then its finally block.  st are the
\* statuses and new the workers spawned in the step that ends here.
Leave(n, how, st, new) ==
  /\ status' = [st EXCEPT ![n] = how]
  /\ body' = [m \in Name |-> IF m = n THEN "over"
                             ELSE IF Contains(new, m) THEN "starting" ELSE body[m]]
  /\ tasks' = RemoveFirst(tasks \o new, n)
  /\ victims' = [victims EXCEPT ![n] = <<>>]
  /\ pending' = [pending EXCEPT ![n] = "none"]
  /\ UNCHANGED <<iters, host>>

\* Mutant: one turn too many.
PastLimit(n) == iters[n] = MaxIterations

LastTurn(n) == iters[n] + 1 = MaxIterations

\* The tool has answered: the end by max_iterations or budget_tokens, or the
\* next chat.
Continue(n, st, new) ==
  \/ Leave(n, "done", st, new)
  \/ /\ ~LastTurn(n)
     /\ status' = st
     /\ body' = [m \in Name |-> IF m = n THEN "thinking"
                                ELSE IF Contains(new, m) THEN "starting" ELSE body[m]]
     /\ tasks' = tasks \o new
     /\ iters' = [iters EXCEPT ![n] = @ + 1]
     /\ victims' = [victims EXCEPT ![n] = <<>>]
     /\ UNCHANGED <<pending, host>>

-----------------------------------------------------------------------------
(* Cancelling a task.                                                      *)

Awaited(n) == IF body[n] = "killing" THEN {Head(victims[n])} ELSE {}

\* The tasks a cancellation of n reaches, through the gathers.
Reached(n) ==
  LET passedOn(S) == n \in S /\ \A k \in S : Awaited(k) \subseteq S
  IN  {m \in Name : Alive(m) /\ \A S \in SUBSET Name : passedOn(S) => m \in S}

\* An agent that awaits its own task: gather and task cancel each other until
\* Python gives up with a RecursionError, and neither is cancelled.
AwaitsItself(n) == n \in Awaited(n)

\* Cancelling n for its timer or from outside.  asyncio.timeout turns the
\* error into a TimeoutError only if nobody else cancelled.
Cancelled(p, n, why) ==
  [m \in Name |-> IF m \notin Reached(n) THEN p[m]
                  ELSE IF m = n /\ p[m] = "none" THEN why ELSE "cancel"]

-----------------------------------------------------------------------------
(* The host and the tasks.                                                 *)

\* The host awaits run_agent: register, and on to the first chat.
Run(n) ==
  /\ n \in Root \ Registered /\ host = "open"
  /\ status' = [status EXCEPT ![n] = "active"]
  /\ tasks' = Append(tasks, n)
  /\ body' = [body EXCEPT ![n] = "thinking"]
  /\ UNCHANGED <<mail, iters, victims, pending, host>>

\* The task of a worker gets its first turn.  Its name is registered already.
Begin(n) ==
  /\ At(n, "starting")
  /\ body' = [body EXCEPT ![n] = "thinking"]
  /\ UNCHANGED <<status, tasks, mail, iters, victims, pending, host>>

\* timeout_s is up.
Timeout(n) ==
  /\ Running(n) /\ pending[n] = "none" /\ ~AwaitsItself(n)
  /\ pending' = Cancelled(pending, n, "timer")
  /\ UNCHANGED <<status, tasks, mail, body, iters, victims, host>>

\* CancelledError reaches the body.
Interrupt(n) ==
  /\ Running(n) /\ pending[n] # "none"
  /\ \A v \in Awaited(n) : ~Alive(v)
  /\ Leave(n, IF pending[n] = "timer" THEN "timeout" ELSE "killed", status, <<>>)
  /\ UNCHANGED mail

\* A task cancelled before its first turn never runs the body: no except, no
\* finally.
NeverBegin(n) ==
  /\ body[n] = "starting" /\ pending[n] # "none"
  /\ body' = [body EXCEPT ![n] = "over"]
  /\ pending' = [pending EXCEPT ![n] = "none"]
  /\ UNCHANGED <<status, tasks, mail, iters, victims, host>>

\* Mutant: close does not wait for what it cancelled.
CloseAtOnce ==
  /\ host = "open"
  /\ host' = "closed"
  /\ pending' = [n \in Name |-> IF Contains(tasks, n) /\ Alive(n) THEN "cancel" ELSE pending[n]]
  /\ UNCHANGED <<status, tasks, mail, body, iters, victims>>

\* Hub.close cancels every task in turn, up to one it cannot cancel.
Close ==
  /\ host = "open"
  /\ LET bad  == {i \in DOMAIN tasks : AwaitsItself(tasks[i])}
         done == {i \in DOMAIN tasks : \A j \in bad : i < j}
     IN  /\ host' = IF bad = {} THEN "closing" ELSE "failed"
         /\ pending' = [n \in Name |->
              IF \E i \in done : n \in Reached(tasks[i]) THEN "cancel" ELSE pending[n]]
  /\ UNCHANGED <<status, tasks, mail, body, iters, victims>>

\* The gather over the tasks that close found.  A task is not in _tasks any
\* more once it is over, and none is added after the cancellation.
CloseReturns ==
  /\ host = "closing" /\ \A i \in DOMAIN tasks : ~Alive(tasks[i])
  /\ host' = "closed"
  /\ UNCHANGED <<status, tasks, mail, body, iters, victims, pending>>

-----------------------------------------------------------------------------
(* The model replies, and its tool is run.                                 *)

\* No choices, or the chat raised.
Crash(n) == At(n, "thinking") /\ Leave(n, "crashed", status, <<>>) /\ UNCHANGED mail

\* A plain text ends the run.
Reply(n) == At(n, "thinking") /\ Leave(n, "done", status, <<>>) /\ UNCHANGED mail

\* get_status, a tool of the host, or a call that ends in an error message.
UseTool(n) == At(n, "thinking") /\ Continue(n, status, <<>>) /\ UNCHANGED mail

\* send_message: every recipient is known before the first delivery.
SendMessage(n) ==
  /\ At(n, "thinking")
  /\ \E R \in SUBSET Registered :
       /\ R # {} /\ \A m \in R : mail[m] < MaxMail
       /\ mail' = [m \in Name |-> IF m \in R THEN mail[m] + 1 ELSE mail[m]]
  /\ Continue(n, status, <<>>)

\* wait_for_message: a message is there, or the agent waits.
WaitForMessage(n) ==
  /\ At(n, "thinking") /\ mail[n] = 0
  /\ body' = [body EXCEPT ![n] = "waiting"]
  /\ UNCHANGED <<status, tasks, mail, iters, victims, pending, host>>

Receive(n) ==
  /\ At(n, "thinking") \/ At(n, "waiting")
  /\ mail[n] > 0
  /\ mail' = [mail EXCEPT ![n] = @ - 1]
  /\ Continue(n, status, <<>>)

WaitExpires(n) == At(n, "waiting") /\ Continue(n, status, <<>>) /\ UNCHANGED mail

\* create_subagents: all the names are new, then one after the other they get a
\* status and a task; the factory or the system prompt of one may raise, which
\* ends the call: the earlier ones run, that one may be registered without a task.
CreateSubagents(n) ==
  /\ At(n, "thinking") /\ n \in Root
  /\ \E made, half \in SUBSET (Worker \ Registered) :
       /\ made \cap half = {} /\ made \cup half # {} /\ Cardinality(half) <= 1
       /\ \E new \in SetToSeqs(made) :
            Continue(n, [m \in Name |-> IF m \in made \cup half THEN "active"
                                        ELSE status[m]], new)
  /\ UNCHANGED mail

\* Mutants: the killer waits for its victim without cancelling it; it reports
\* the victim killed before that has stopped; it reports nothing.
NotCancelled(v) == pending
MarkNow(st, v) == [st EXCEPT ![v] = "killed"]
MarkNever(v) == status

CancelVictim(v) == Cancelled(pending, v, "cancel")
BeforeTheWait(st, v) == st
AfterTheWait(v) == [status EXCEPT ![v] = "killed"]

\* kill_subagents from the first of names on.  A name without a task ends it, as
\* does one that cannot be cancelled (see AwaitsItself).
KillFrom(n, names, st) ==
  IF names = <<>> \/ ~Contains(tasks, names[1]) \/ AwaitsItself(names[1])
  THEN Continue(n, st, <<>>)
  ELSE /\ status' = BeforeTheWait(st, names[1])
       /\ body' = [body EXCEPT ![n] = "killing"]
       /\ victims' = [victims EXCEPT ![n] = names]
       /\ pending' = IF names[1] = n THEN pending ELSE CancelVictim(names[1])
       /\ UNCHANGED <<tasks, iters, host>>

KillLists == [1..1 -> Name] \cup [1..2 -> Name]

KillSubagents(n) ==
  /\ At(n, "thinking") /\ n \in Root
  /\ \E names \in KillLists : KillFrom(n, names, status)
  /\ UNCHANGED mail

\* The victim is over: it is listed as killed, and the next one follows.
KillNext(n) ==
  /\ At(n, "killing") /\ \A v \in Awaited(n) : ~Alive(v)
  /\ KillFrom(n, Tail(victims[n]), AfterTheWait(Head(victims[n])))
  /\ UNCHANGED mail

-----------------------------------------------------------------------------
Step(n) ==
  \/ Begin(n) \/ Interrupt(n) \/ NeverBegin(n)
  \/ Crash(n) \/ Reply(n) \/ UseTool(n)
  \/ SendMessage(n) \/ WaitForMessage(n) \/ Receive(n) \/ WaitExpires(n)
  \/ CreateSubagents(n) \/ KillSubagents(n) \/ KillNext(n)

Next ==
  \/ \E n \in Name : Run(n) \/ Timeout(n) \/ Step(n)
  \/ Close \/ CloseReturns

Spec == Init /\ [][Next]_vars

\* asyncio runs what is ready, httpx ends every chat, waits expire; close
\* returns when what it gathers is over.
FairSpec == Spec /\ (\A n \in Name : WF_vars(Step(n))) /\ WF_vars(CloseReturns)

-----------------------------------------------------------------------------
(* Properties.                                                             *)

\* What get_status tells of a running agent is "active": nobody is listed as
\* done, killed or timed out while its code still runs, not even an agent whose
\* cancellation is under way (kill_subagents awaits it before it says killed).
RunningIsActive == \A n \in Name : Running(n) => status[n] = "active"

\* How an agent ended is settled once: a kill, a timeout, a crash and a close
\* that race for the same agent never rewrite each other's verdict.
StatusIsFinal ==
  [][\A n \in Name : status[n] \in Ended => status'[n] = status[n]]_status

\* An agent that is over is listed as active only if it was cancelled before its
\* first turn, and then by close, by a killer that was itself stopped meanwhile,
\* or for as long as its killer takes to mark it.
NoGhosts ==
  \A n \in Name :
    body[n] = "over" /\ status[n] = "active"
    => \/ host # "open"
       \/ \E k \in Root : status[k] \in {"killed", "timeout"} \/ n \in Awaited(k)

\* When Hub.close has returned, no agent runs or is about to: none escaped it by
\* being spawned, by not having begun or by waiting for another one's end.
CloseStopsEverything == host = "closed" => \A n \in Name : ~Alive(n)

\* Every agent ends, those that wait for the end of one another included, but for
\* one that waits for its own: whoever kills, awaits or closes around it, nobody
\* else is held up by it.  (A name is run once, so this says it of each of them.)
OthersEnd == <>[](\A n \in Name : Alive(n) => AwaitsItself(n))

-----------------------------------------------------------------------------
(* What the documentation says and the code does not do.                   *)

\* "run_agent caps every run with max_iterations, budget_tokens and timeout_s":
\* every agent that exists ends, whatever tools the model makes it call.
EveryRunEnds == \A n \in Name : Alive(n) ~> body[n] = "over"
=============================================================================
