--------------------------- MODULE MCSchedulerLive ---------------------------
(***************************************************************************)
(* The scheduler's progress for TLC: its processors and messages, its      *)
(* control calls (Init, CreateTask, RemoveTask, Clear) and the switching   *)
(* of contexts, one of which the first state picks.                        *)
(***************************************************************************)
EXTENDS Scheduler

CONSTANTS
  Callers, Names, MaxCoroutines, MaxPooled, MaxRemoves,      \* SchedulerControl
  CtxProcessors, CtxRoutines, CtxBody(_), NoRoutine, Words, MaxNow   \* Croutine

(* A stack holds the reserved word, an address and the saved registers. *)
ASSUME ContextConstants ==
  /\ CtxProcessors \cap CtxRoutines = {} /\ NoRoutine \notin CtxRoutines
  /\ Words \in Nat /\ Words >= 9

VARIABLES
  which,                  \* "messages", "control" or "contexts"
  g_rcmw_state, conf, sc_processors, ctx_stop, running_, step, on, name,
  sc_state, sc_updated, sc_force_stop, id_cr_, sc_rq, mutex, call, cr_list,
  stop_, pooled, enqueued, removes,
  mem, sp, cpu, current, ctx_lock, ctx_state, ctx_updated, wake_time, now, owner

controls == <<g_rcmw_state, conf, sc_processors, ctx_stop, running_, step, on, name,
              sc_state, sc_updated, sc_force_stop, id_cr_, sc_rq, mutex, call, cr_list,
              stop_, pooled, enqueued, removes>>
contexts == <<mem, sp, cpu, current, ctx_lock, ctx_state, ctx_updated, wake_time,
              now, owner>>

(* Without a configuration there is one group; otherwise two, to the       *)
(* second of which the task b belongs.                                     *)
Group(n) == [name |-> n, processor_num |-> 1]
MCConfs ==
  {[groups |-> <<Group("default_grp")>>, tasks |-> [n \in {} |-> ""]],
   [groups |-> <<Group("g"), Group("h")>>, tasks |-> [n \in {"b"} |-> "h"]]}
MCBody == [n \in {"a", "b"} |-> IF n = "a" THEN "subscriber" ELSE "task"]

Control == INSTANCE SchedulerControl WITH
  Body <- MCBody, Confs <- MCConfs, MaxRoutines <- MaxCoroutines,
  processors <- sc_processors, state <- sc_state, updated <- sc_updated,
  force_stop <- sc_force_stop, rq <- sc_rq

MCBodyOf(r) == IF r = "f" THEN "function" ELSE "subscriber"

Contexts == INSTANCE Croutine WITH
  Processors <- CtxProcessors, Routines <- CtxRoutines, Body <- CtxBody,
  Nothing <- NoRoutine, lock <- ctx_lock, state <- ctx_state, updated <- ctx_updated

SchedulerInit ==
  /\ which \in {"messages", "control", "contexts"}
  /\ Init
  /\ Control!ControlInit
  /\ which # "control" => conf = CHOOSE c \in MCConfs : TRUE
  /\ Contexts!CtxInit

SchedulerNext ==
  \/ which = "messages" /\ Next /\ UNCHANGED <<which, controls, contexts>>
  \/ which = "control" /\ Control!ControlNext /\ UNCHANGED <<which, vars, contexts>>
  \/ which = "contexts" /\ Contexts!CtxNext /\ UNCHANGED <<which, vars, controls>>

(* The fairness of Scheduler and of SchedulerControl. *)
SchedulerFairness ==
  /\ \A p \in Processors : WF_vars(which = "messages" /\ Alive /\ Run(p))
  /\ WF_vars(which = "messages" /\ Alive /\ Dispatching)
  /\ WF_vars(/\ which = "messages" /\ Alive
             /\ \E r \in Routines : Removing(r) \/ Creating(r))
  /\ \A t \in Control!Threads : WF_controls(which = "control" /\ Control!InCall(t))
  /\ \A p \in 1 .. Control!MaxProcessors :
       WF_controls(which = "control" /\ p \in Control!Places /\ Control!Run(p))
  /\ WF_controls(which = "control" /\ Control!Closing)

SchedulerSpec ==
  SchedulerInit /\ [][SchedulerNext]_<<which, vars, controls, contexts>> /\ SchedulerFairness

-----------------------------------------------------------------------------
(* Clear returns, whatever the other threads do meanwhile, unless a        *)
(* coroutine of a TaskManager that nobody stopped keeps a processor.       *)
ClearReturns == Control!ClearReturns

(* Whoever runs after a ctx_swap finds its own stack, registers and code,  *)
(* and a finished coroutine is never resumed.                              *)
SwapsIntact == Contexts!SwapsIntact
=============================================================================
