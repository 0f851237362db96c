------------------------------ MODULE Croutine ------------------------------
(***************************************************************************)
(* Coroutines on the stacks of processors: MakeContext and ctx_swap        *)
(* (croutine_context.cpp, swap_x86_64.S), CRoutine (croutine.h, .cpp), the *)
(* bodies of RoutineFactory (croutine_factory.h) and the functions a       *)
(* callback may call (task/task.h).                                        *)
(*                                                                         *)
(* A stack is an array of eight-byte words that grows downwards, and a     *)
(* stack pointer is the index of its lowest word in use.  A register holds *)
(* a value named after who put it there, so a value that a swap loses or   *)
(* moves to another register is seen.  The scheduler's part, under         *)
(* CRoutine's lock_, is reduced to: a processor that gets the lock updates *)
(* the state and resumes the coroutine if it is READY.                     *)
(***************************************************************************)
EXTENDS Integers, Sequences, FiniteSets

CONSTANTS
  Processors,    \* threads
  Routines,      \* coroutines
  Body(_),       \* "subscriber" or "function"
  Words,         \* STACK_SIZE in words
  MaxNow,        \* bound on the clock
  Nothing

VARIABLES
  mem,           \* the words of each stack
  sp,            \* ctx->sp of each routine, main_stack_ of each processor
  cpu,           \* each processor: stack it runs on, stack pointer, registers,
                 \* and the code it is in
  current,       \* current_routine_ of each processor
  lock,          \* lock_ of each routine
  state, updated, wake_time,
  now,           \* the steady clock
  owner          \* history: the processor that resumed a routine

ctxVars == <<mem, sp, cpu, current, lock, state, updated, wake_time, now, owner>>
routineVars == <<lock, state, updated, wake_time, now>>

Stacks == Processors \cup Routines
Indexes == 0 .. Words - 1

(* The order in which ctx_swap pushes; popq goes the other way. *)
Saved == <<"rdi", "r12", "r13", "r14", "r15", "rbx", "rbp">>
REGISTERS_SIZE == Len(Saved)
Registers == {Saved[i] : i \in 1 .. REGISTERS_SIZE}
RegistersOf(who) == [r \in Registers |-> <<who, r>>]
Code(place) == <<"code", place>>
Argument(r) == <<"argument", r>>
Zero == <<"zero", "">>

(* Fault: the entry point is written one word too low. *)
MakeContextLow(r) ==
  [i \in Indexes |-> CASE i = Words - 3 -> Code("entry")
                       [] i = Words - 4 -> Argument(r)
                       [] OTHER -> Zero]

(* MakeContext: return address, argument in the place of rdi, zeros. *)
MakeContext(r) ==
  [i \in Indexes |-> CASE i = Words - 2 -> Code("entry")
                       [] i = Words - 3 -> Argument(r)
                       [] OTHER -> Zero]

InitialSp == Words - 2 - REGISTERS_SIZE

CtxInit ==
  /\ mem = [s \in Stacks |-> IF s \in Routines THEN MakeContext(s) ELSE [i \in Indexes |-> Zero]]
  /\ sp = [s \in Stacks |-> IF s \in Routines THEN InitialSp ELSE 0]
  /\ cpu = [p \in Processors |-> [on |-> p, sp |-> Words, regs |-> RegistersOf(p), pc |-> Code("main")]]
  /\ current = [p \in Processors |-> Nothing]
  /\ lock = [r \in Routines |-> FALSE] /\ state = [r \in Routines |-> "READY"]
  /\ updated = [r \in Routines |-> TRUE]
  /\ wake_time = [r \in Routines |-> 0] /\ now = 0
  /\ owner = [r \in Routines |-> Nothing]

At(p, place) == cpu[p].pc = Code(place)

-----------------------------------------------------------------------------
(* ctx_swap from stack src to stack dst: push the return address and the   *)
(* registers, store the pointer, load the other, pop the registers and     *)
(* return to the address below them.                                       *)
SwapContext(p, src, dst, back) ==
  LET low == cpu[p].sp - 1 - REGISTERS_SIZE
      top == sp[dst]
  IN  /\ mem' = [mem EXCEPT ![src] = [i \in Indexes |->
                   IF i = low + REGISTERS_SIZE THEN Code(back)
                   ELSE IF i \in low .. low + REGISTERS_SIZE - 1
                   THEN cpu[p].regs[Saved[low + REGISTERS_SIZE - i]]
                   ELSE mem[src][i]]]
      /\ sp' = [sp EXCEPT ![src] = low]
      /\ cpu' = [cpu EXCEPT ![p] =
           [on |-> dst, sp |-> top + REGISTERS_SIZE + 1,
            regs |-> [r \in Registers |->
                       mem[dst][CHOOSE i \in top .. top + REGISTERS_SIZE - 1 :
                                  Saved[top + REGISTERS_SIZE - i] = r]],
            pc |-> mem[dst][top + REGISTERS_SIZE]]]

UpdateState(r) ==
  IF state[r] = "SLEEP" /\ now > wake_time[r] THEN "READY"
  ELSE IF ~updated[r] /\ state[r] \in {"DATA_WAIT", "IO_WAIT"} THEN "READY" ELSE state[r]

(* A processor acquires a routine, updates its state and resumes it, or    *)
(* lets it go.  updated_ is left alone when the sleep is over.             *)
Resume(p, r) ==
  /\ At(p, "main") /\ ~lock[r]
  /\ state' = [state EXCEPT ![r] = UpdateState(r)]
  /\ updated' = [updated EXCEPT ![r] = @ \/ ~(state[r] = "SLEEP" /\ now > wake_time[r])]
  /\ IF state'[r] = "READY"
     THEN /\ lock' = [lock EXCEPT ![r] = TRUE]
          /\ current' = [current EXCEPT ![p] = r] /\ owner' = [owner EXCEPT ![r] = p]
          /\ SwapContext(p, p, r, "resumed")
     ELSE UNCHANGED <<lock, current, owner, mem, sp, cpu>>
  /\ UNCHANGED <<wake_time, now>>

(* Back in Resume, on the stack of the processor. *)
Resumed(p) ==
  /\ At(p, "resumed")
  /\ lock' = [lock EXCEPT ![current[p]] = FALSE]
  /\ current' = [current EXCEPT ![p] = Nothing]
  /\ cpu' = [cpu EXCEPT ![p].pc = Code("main")]
  /\ UNCHANGED <<mem, sp, state, updated, wake_time, now, owner>>

(* CRoutineEntry(arg): Run of the routine that rdi holds.  Its code uses   *)
(* every register.                                                         *)
Entry(p) ==
  /\ At(p, "entry")
  /\ cpu' = [cpu EXCEPT ![p].regs = RegistersOf(cpu[p].regs["rdi"][2]), ![p].pc = Code("body")]
  /\ UNCHANGED <<mem, sp, current, routineVars, owner>>

(* CRoutine::Yield(new): the state of the current routine, and the swap to *)
(* the main stack of this thread.                                          *)
Yield(p, new, back) ==
  LET r == current[p]
  IN  /\ state' = [state EXCEPT ![r] = new]
      /\ SwapContext(p, r, p, back)

(* The body of a subscriber: DATA_WAIT, TryFetch, and the callback, which  *)
(* may itself yield or sleep; then READY, or DATA_WAIT without a message.  *)
SubscriberBody(p) ==
  /\ At(p, "body") /\ Body(cpu[p].on) = "subscriber"
  /\ \/ Yield(p, "DATA_WAIT", "body") /\ UNCHANGED wake_time
     \/ Yield(p, "READY", "body") /\ UNCHANGED wake_time
     \/ Yield(p, "DATA_WAIT", "callback") /\ UNCHANGED wake_time
     \/ Yield(p, "SLEEP", "callback") /\ wake_time' = [wake_time EXCEPT ![current[p]] = now + 1]
  /\ UNCHANGED <<current, lock, updated, now, owner>>

(* The rest of a callback that yielded or slept. *)
SubscriberCallback(p) ==
  /\ At(p, "callback")
  /\ Yield(p, "READY", "body")
  /\ UNCHANGED <<current, lock, updated, wake_time, now, owner>>

(* A function: it may yield, and returns to CRoutineEntry. *)
FunctionBody(p) ==
  /\ At(p, "body") /\ Body(cpu[p].on) = "function"
  /\ \/ Yield(p, state[current[p]], "body")
     \/ Yield(p, "FINISHED", "off")
  /\ UNCHANGED <<current, lock, updated, wake_time, now, owner>>

(* NotifyProcessor: SetUpdateFlag. *)
SetUpdateFlag(r) ==
  /\ updated[r] /\ updated' = [updated EXCEPT ![r] = FALSE]
  /\ UNCHANGED <<mem, sp, cpu, current, lock, state, wake_time, now, owner>>

Tick ==
  /\ now < MaxNow /\ now' = now + 1
  /\ UNCHANGED <<mem, sp, cpu, current, lock, state, updated, wake_time, owner>>

CtxNext ==
  \/ \E p \in Processors :
       \/ Resumed(p) \/ Entry(p) \/ SubscriberBody(p) \/ SubscriberCallback(p) \/ FunctionBody(p)
       \/ \E r \in Routines : Resume(p, r)
  \/ \E r \in Routines : SetUpdateFlag(r)
  \/ Tick

CtxSpec == CtxInit /\ [][CtxNext]_ctxVars

-----------------------------------------------------------------------------
(***************************************************************************)
(* Whoever runs finds its own registers: a routine those it had when it    *)
(* yielded, on whichever processor it runs now, and a processor those it   *)
(* had when it resumed the routine.  A routine starts at CRoutineEntry     *)
(* with itself as the argument, runs on its own stack, and is the current  *)
(* routine of the processor that resumed it.  A finished routine is never  *)
(* resumed, whatever notifications still arrive: CRoutineEntry would       *)
(* return into the reserved word above its frame.                          *)
(***************************************************************************)
SwapsIntact ==
  \A p \in Processors :
    \/ /\ At(p, "main") \/ At(p, "resumed")
       /\ cpu[p].on = p /\ cpu[p].regs = RegistersOf(p) /\ cpu[p].sp = Words
    \/ /\ At(p, "entry") /\ current[p] = cpu[p].on
       /\ cpu[p].regs["rdi"] = Argument(cpu[p].on)
    \/ /\ At(p, "body") \/ At(p, "callback")
       /\ current[p] = cpu[p].on /\ owner[cpu[p].on] = p
       /\ cpu[p].regs = RegistersOf(cpu[p].on)
=============================================================================
