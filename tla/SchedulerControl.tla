-------------------------- MODULE SchedulerControl --------------------------
(***************************************************************************)
(* The life of the scheduler of a process: its construction from the       *)
(* configuration (scheduler_factory.cpp, SchedulerClassic), tasks that     *)
(* several application threads create, notify and remove at once, the      *)
(* coroutines of the TaskManager, and the end: rcmw::Clear (init.cpp),     *)
(* Scheduler::Shutdown and Processor::Stop.                                *)
(*                                                                         *)
(* The scan of the queues is a single step here; module Scheduler has its  *)
(* steps, the priorities and the messages.  A coroutine's body is one of   *)
(* "subscriber" (yields and waits), "function" (returns) and "task" (the   *)
(* loop of the TaskManager).  stop_ of the scheduler is never set, so no   *)
(* test of it appears.  Names have distinct hashes.                        *)
(***************************************************************************)
EXTENDS Naturals, Sequences, SequencesExt, FiniteSets, Functions

CONSTANTS
  Callers,        \* application threads
  Names,          \* names of tasks
  Body,           \* the body of each
  Confs,          \* configurations: [groups: <<[name, processor_num]>>, tasks: name -> group]
  MaxRoutines,    \* bound: coroutines created
  MaxPooled,      \* bound: functions given to TaskManager::Enqueue
  MaxRemoves      \* bound: calls of RemoveTask

VARIABLES
  g_rcmw_state,
  conf,           \* the configuration the constructor uses
  processors,     \* <<group>> of each Processor; empty before Instance and after Shutdown
  ctx_stop, running_, step, on,   \* of each Processor and its context: flags, point, coroutine
  name, state, updated, force_stop,   \* of each coroutine
  id_cr_,         \* name -> coroutine
  rq,             \* the queues of all groups
  mutex,          \* name -> the thread that holds the MutexWrapper of its id
  call,           \* what each thread is doing
  cr_list,        \* ids that Shutdown has yet to remove
  stop_, pooled,  \* TaskManager::stop_ and the length of task_queue_
  enqueued, removes

routineVars == <<name, state, updated, force_stop>>
processorVars == <<ctx_stop, running_, step, on>>
poolVars == <<stop_, pooled, enqueued>>
controlVars == <<g_rcmw_state, conf, processors, processorVars, routineVars, id_cr_, rq, mutex, call,
                 cr_list, poolVars, removes>>

Main == "main"
Threads == Callers \cup {Main}
Nobody == "nobody"
NoCall == [op |-> "none", n |-> "", c |-> 0]
MaxProcessors == 4
Routines == DOMAIN name
Empty == [n \in {} |-> 0]

(* GetRcmwConfFromFile finds one of the configurations; the last is what   *)
(* the constructor makes up without a file.                                *)
ControlInit ==
  /\ g_rcmw_state = "INITIALIZED"
  /\ conf \in Confs /\ processors = <<>>
  /\ ctx_stop = [p \in 1 .. MaxProcessors |-> FALSE]
  /\ running_ = [p \in 1 .. MaxProcessors |-> TRUE]
  /\ step = [p \in 1 .. MaxProcessors |-> "none"]
  /\ on = [p \in 1 .. MaxProcessors |-> 0]
  /\ name = <<>> /\ state = <<>> /\ updated = <<>> /\ force_stop = <<>>
  /\ id_cr_ = Empty /\ rq = {}
  /\ mutex = [n \in Names |-> Nobody]
  /\ call = [t \in Threads |-> NoCall]
  /\ cr_list = {} /\ stop_ = FALSE /\ pooled = 0 /\ enqueued = 0 /\ removes = 0

Group(c) == LET n == name[c]
            IN  IF n \in DOMAIN conf.tasks THEN conf.tasks[n] ELSE conf.groups[1].name
Held(c) == \E p \in DOMAIN step : on[p] = c
Up == processors # <<>>

-----------------------------------------------------------------------------
(* Instance, CreateProcessor: a processor and its thread for each place of *)
(* each group.                                                             *)
CreateProcessor ==
  /\ ~ Up /\ g_rcmw_state = "INITIALIZED"
  /\ processors' = FlattenSeq([i \in 1 .. Len(conf.groups) |->
                     [j \in 1 .. conf.groups[i].processor_num |-> conf.groups[i].name]])
  /\ step' = [p \in DOMAIN step |-> IF p <= Len(processors') THEN "next" ELSE "none"]
  /\ UNCHANGED <<g_rcmw_state, conf, ctx_stop, running_, on, routineVars, id_cr_, rq, mutex, call,
                 cr_list, poolVars, removes>>

(* CreateTask: the coroutine is made, ... *)
CreateTask(t, n) ==
  /\ Up /\ call[t].op = "none" /\ Len(name) < MaxRoutines
  /\ name' = Append(name, n) /\ state' = Append(state, "READY")
  /\ updated' = Append(updated, TRUE) /\ force_stop' = Append(force_stop, FALSE)
  /\ call' = [call EXCEPT ![t] = [op |-> "dispatch", n |-> n, c |-> Len(name) + 1]]
  /\ UNCHANGED <<g_rcmw_state, conf, processors, processorVars, id_cr_, rq, mutex, cr_list, poolVars,
                 removes>>

(* ... DispatchTask refuses a name that is taken, ... *)
DispatchTaskRegister(t) ==
  /\ call[t].op = "dispatch" /\ mutex[call[t].n] = Nobody
  /\ IF call[t].n \in DOMAIN id_cr_
     THEN call' = [call EXCEPT ![t] = NoCall] /\ UNCHANGED <<id_cr_, mutex>>
     ELSE /\ id_cr_' = [n \in DOMAIN id_cr_ \cup {call[t].n} |->
                          IF n = call[t].n THEN call[t].c ELSE id_cr_[n]]
          /\ mutex' = [mutex EXCEPT ![call[t].n] = t]
          /\ call' = [call EXCEPT ![t].op = "queue"]
  /\ UNCHANGED <<g_rcmw_state, conf, processors, processorVars, routineVars, rq, cr_list, poolVars,
                 removes>>

(* Whether a removal has the write lock of the queue of c. *)
WriteLocked(g) == \E t \in Threads : call[t].op = "spin" /\ Group(call[t].c) = g

(* ... and queues the coroutine before it lets the name go. *)
DispatchTaskQueue(t) ==
  /\ call[t].op = "queue" /\ ~ WriteLocked(Group(call[t].c))
  /\ rq' = rq \cup {call[t].c}
  /\ mutex' = [mutex EXCEPT ![call[t].n] = Nobody]
  /\ call' = [call EXCEPT ![t] = NoCall]
  /\ UNCHANGED <<g_rcmw_state, conf, processors, processorVars, routineVars, id_cr_, cr_list, poolVars,
                 removes>>

(* NotifyTask, NotifyProcessor: a waiting coroutine is flagged. *)
NotifyTask(n) ==
  /\ Up /\ n \in DOMAIN id_cr_
  /\ state[id_cr_[n]] = "DATA_WAIT"
  /\ updated' = [updated EXCEPT ![id_cr_[n]] = FALSE]
  /\ UNCHANGED <<g_rcmw_state, conf, processors, processorVars, name, state, force_stop, id_cr_, rq, mutex,
                 call, cr_list, poolVars, removes>>

-----------------------------------------------------------------------------
(* RemoveTask: the coroutine of the name is stopped and unregistered ... *)
RemoveTask(t, n) ==
  /\ Up /\ call[t].op = "none" /\ removes < MaxRemoves
  /\ removes' = removes + 1
  /\ call' = [call EXCEPT ![t] = [op |-> "remove", n |-> n, c |-> 0]]
  /\ UNCHANGED <<g_rcmw_state, conf, processors, processorVars, routineVars, id_cr_, rq, mutex, cr_list,
                 poolVars>>

RemoveCRoutine(t) ==
  /\ call[t].op = "remove" /\ mutex[call[t].n] = Nobody
  /\ IF call[t].n \in DOMAIN id_cr_
     THEN LET c == id_cr_[call[t].n]
          IN  /\ force_stop' = [force_stop EXCEPT ![c] = TRUE]
              /\ id_cr_' = Restrict(id_cr_, DOMAIN id_cr_ \ {call[t].n})
              /\ mutex' = [mutex EXCEPT ![call[t].n] = t]
              /\ call' = [call EXCEPT ![t].op = "lock", ![t].c = c]
     ELSE call' = [call EXCEPT ![t] = NoCall] /\ UNCHANGED <<force_stop, id_cr_, mutex>>
  /\ UNCHANGED <<g_rcmw_state, conf, processors, processorVars, name, state, updated, rq, cr_list,
                 poolVars, removes>>

(* ... the write lock of its queue is taken; a coroutine that is not in    *)
(* the queue was not found ...                                             *)
RemoveLock(t) ==
  /\ call[t].op = "lock" /\ ~ WriteLocked(Group(call[t].c))
  /\ call' = IF call[t].c \in rq THEN [call EXCEPT ![t].op = "spin"] ELSE [call EXCEPT ![t] = NoCall]
  /\ mutex' = IF call[t].c \in rq \/ mutex[call[t].n] # t THEN mutex ELSE [mutex EXCEPT ![call[t].n] = Nobody]
  /\ UNCHANGED <<g_rcmw_state, conf, processors, processorVars, routineVars, id_cr_, rq, cr_list,
                 poolVars, removes>>

(* ... and held until the coroutine's own lock is free. *)
RemoveErase(t) ==
  /\ call[t].op = "spin" /\ ~ Held(call[t].c)
  /\ rq' = rq \ {call[t].c}
  /\ mutex' = IF mutex[call[t].n] = t THEN [mutex EXCEPT ![call[t].n] = Nobody] ELSE mutex
  /\ call' = [call EXCEPT ![t] = NoCall]
  /\ UNCHANGED <<g_rcmw_state, conf, processors, processorVars, routineVars, id_cr_, cr_list, poolVars,
                 removes>>

InCall(t) ==
  \/ DispatchTaskRegister(t) \/ DispatchTaskQueue(t)
  \/ RemoveCRoutine(t) \/ RemoveLock(t) \/ RemoveErase(t)

-----------------------------------------------------------------------------
(* Processor::Run. *)

Exit(p) ==
  /\ step[p] = "next" /\ ~ running_[p]
  /\ step' = [step EXCEPT ![p] = "exited"]
  /\ UNCHANGED <<g_rcmw_state, conf, processors, ctx_stop, running_, on, routineVars, id_cr_, rq, mutex,
                 call, cr_list, poolVars, removes>>

(* A ready coroutine of the group; without one, or after the context was   *)
(* shut down, the processor waits and looks again.                         *)
NextRoutine(p) ==
  /\ step[p] = "next" /\ running_[p] /\ ~ ctx_stop[p] /\ ~ WriteLocked(processors[p])
  /\ \E c \in rq :
       /\ Group(c) = processors[p] /\ ~ Held(c)
       /\ state[c] = "READY" \/ (state[c] = "DATA_WAIT" /\ ~ updated[c])
       /\ state' = [state EXCEPT ![c] = "READY"] /\ updated' = [updated EXCEPT ![c] = TRUE]
       /\ on' = [on EXCEPT ![p] = c]
  /\ step' = [step EXCEPT ![p] = "resume"]
  /\ UNCHANGED <<g_rcmw_state, conf, processors, ctx_stop, running_, name, force_stop, id_cr_, rq, mutex,
                 call, cr_list, poolVars, removes>>

Release(p) == step' = [step EXCEPT ![p] = "next"] /\ on' = [on EXCEPT ![p] = 0]

(* Fault: a coroutine that was stopped keeps its lock. *)
ResumeHeld(p) ==
  /\ step[p] = "resume"
  /\ force_stop[on[p]] \/ Body[name[on[p]]] # "task"
  /\ state' = [state EXCEPT ![on[p]] = IF ~ force_stop[on[p]] /\ Body[name[on[p]]] = "subscriber"
                                       THEN "DATA_WAIT" ELSE "FINISHED"]
  /\ step' = [step EXCEPT ![p] = "next"] /\ on' = IF force_stop[on[p]] THEN on ELSE [on EXCEPT ![p] = 0]
  /\ UNCHANGED <<g_rcmw_state, conf, processors, ctx_stop, running_, name, updated, force_stop, id_cr_, rq,
                 mutex, call, cr_list, poolVars, removes>>

(* Resume of a coroutine that was stopped, that is a function, or that     *)
(* waits for messages.                                                     *)
Resume(p) ==
  /\ step[p] = "resume"
  /\ force_stop[on[p]] \/ Body[name[on[p]]] # "task"
  /\ state' = [state EXCEPT ![on[p]] = IF ~ force_stop[on[p]] /\ Body[name[on[p]]] = "subscriber"
                                       THEN "DATA_WAIT" ELSE "FINISHED"]
  /\ Release(p)
  /\ UNCHANGED <<g_rcmw_state, conf, processors, ctx_stop, running_, name, updated, force_stop, id_cr_, rq,
                 mutex, call, cr_list, poolVars, removes>>

(* The loop of a TaskManager coroutine: HangUp sets the state and does not *)
(* yield, so that the loop goes round until stop_ is set.                  *)
ResumeTask(p) ==
  /\ step[p] = "task" \/ (step[p] = "resume" /\ ~ force_stop[on[p]] /\ Body[name[on[p]]] = "task")
  /\ IF stop_
     THEN state' = [state EXCEPT ![on[p]] = "FINISHED"] /\ Release(p) /\ UNCHANGED pooled
     ELSE /\ step' = [step EXCEPT ![p] = "task"] /\ UNCHANGED on
          /\ IF pooled > 0 THEN pooled' = pooled - 1 /\ UNCHANGED state
             ELSE state' = [state EXCEPT ![on[p]] = "DATA_WAIT"] /\ UNCHANGED pooled
  /\ UNCHANGED <<g_rcmw_state, conf, processors, ctx_stop, running_, name, updated, force_stop, id_cr_, rq,
                 mutex, call, cr_list, stop_, enqueued, removes>>

Run(p) == Exit(p) \/ NextRoutine(p) \/ Resume(p) \/ ResumeTask(p)

-----------------------------------------------------------------------------
(* TaskManager::Enqueue, and Shutdown before it removes its tasks. *)
Enqueue ==
  /\ Up /\ ~ stop_ /\ enqueued < MaxPooled
  /\ pooled' = pooled + 1 /\ enqueued' = enqueued + 1
  /\ UNCHANGED <<g_rcmw_state, conf, processors, processorVars, routineVars, id_cr_, rq, mutex, call,
                 cr_list, stop_, removes>>

TaskManagerStop ==
  /\ Up /\ ~ stop_ /\ \E c \in Routines : Body[name[c]] = "task"
  /\ stop_' = TRUE
  /\ UNCHANGED <<g_rcmw_state, conf, processors, processorVars, routineVars, id_cr_, rq, mutex, call,
                 cr_list, pooled, enqueued, removes>>

-----------------------------------------------------------------------------
(* Clear, registered with atexit: CleanUp and Shutdown of the scheduler.   *)
(* Other threads may go on.                                                *)
Clear ==
  /\ g_rcmw_state = "INITIALIZED"
  /\ IF Up THEN call' = [call EXCEPT ![Main] = [NoCall EXCEPT !.op = "contexts"]] /\ g_rcmw_state' = "SHUTTING_DOWN"
     ELSE g_rcmw_state' = "SHUTDOWN" /\ UNCHANGED call
  /\ UNCHANGED <<conf, processors, processorVars, routineVars, id_cr_, rq, mutex, cr_list, poolVars,
                 removes>>

Places == DOMAIN processors

(* The contexts, then the list of what is registered, ... *)
ShutdownContexts ==
  /\ call[Main].op = "contexts"
  /\ IF \E p \in Places : ~ ctx_stop[p]
     THEN /\ ctx_stop' = [ctx_stop EXCEPT ![CHOOSE p \in Places : ~ ctx_stop[p] /\ \A q \in 1 .. p - 1 : ctx_stop[q]] = TRUE]
          /\ UNCHANGED <<call, cr_list>>
     ELSE /\ cr_list' = DOMAIN id_cr_
          /\ call' = [call EXCEPT ![Main] = NoCall]
          /\ UNCHANGED ctx_stop
  /\ UNCHANGED <<g_rcmw_state, conf, processors, running_, step, on, routineVars, id_cr_, rq, mutex, poolVars,
                 removes>>

Listed == g_rcmw_state = "SHUTTING_DOWN" /\ call[Main].op = "none"

(* ... RemoveCRoutine for each of them, ... *)
ShutdownRemove ==
  /\ Listed /\ cr_list # {}
  /\ \E n \in cr_list :
       /\ cr_list' = cr_list \ {n}
       /\ call' = [call EXCEPT ![Main] = [op |-> "remove", n |-> n, c |-> 0]]
  /\ UNCHANGED <<g_rcmw_state, conf, processors, processorVars, routineVars, id_cr_, rq, mutex, poolVars,
                 removes>>

(* ... and Stop for each processor, which joins its thread. *)
ShutdownProcessors ==
  /\ Listed /\ cr_list = {}
  /\ IF \E p \in Places : step[p] # "exited"
     THEN LET p == CHOOSE p \in Places : step[p] # "exited" /\ \A q \in 1 .. p - 1 : step[q] = "exited"
          IN  /\ running_[p]
              /\ running_' = [running_ EXCEPT ![p] = FALSE]
              /\ UNCHANGED <<processors, g_rcmw_state>>
     ELSE processors' = <<>> /\ g_rcmw_state' = "SHUTDOWN" /\ UNCHANGED running_
  /\ UNCHANGED <<conf, ctx_stop, step, on, routineVars, id_cr_, rq, mutex, call, cr_list, poolVars, removes>>

Closing == ShutdownContexts \/ ShutdownRemove \/ ShutdownProcessors

ControlNext ==
  \/ CreateProcessor \/ Enqueue \/ TaskManagerStop \/ Clear \/ Closing
  \/ \E t \in Callers, n \in Names : CreateTask(t, n) \/ RemoveTask(t, n)
  \/ \E n \in Names : NotifyTask(n)
  \/ \E t \in Threads : InCall(t)
  \/ \E p \in Places : Run(p)

(* Threads that can run do. *)
ControlFairness ==
  /\ \A t \in Threads : WF_controlVars(InCall(t))
  /\ \A p \in 1 .. MaxProcessors : WF_controlVars(p \in Places /\ Run(p))
  /\ WF_controlVars(Closing)

ControlSpec == ControlInit /\ [][ControlNext]_controlVars

FairControlSpec == ControlSpec /\ ControlFairness

-----------------------------------------------------------------------------

(* A TaskManager coroutine keeps its processor. *)
Spinning == ~ stop_ /\ \E p \in DOMAIN step : step[p] = "task"

(* Clear returns, whatever the other threads do meanwhile, unless a        *)
(* coroutine of a TaskManager that nobody stopped has a processor: its     *)
(* removal waits for it (Scheduler::Shutdown, TaskManager's loop).         *)
ClearReturns == g_rcmw_state = "SHUTTING_DOWN" ~> (g_rcmw_state = "SHUTDOWN" \/ Spinning)
=============================================================================
