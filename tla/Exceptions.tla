----------------------------- MODULE Exceptions -----------------------------
(***************************************************************************)
(* Entering and leaving the kernel: the vectors and register saving of     *)
(* sophon/src/arch/aarch64/exception.rs, the stack of exception frames of  *)
(* a task and return_to_user of context.rs, and the acknowledgement of     *)
(* interrupts in modules/gic/src/lib.rs, as functions on a machine m:      *)
(*   m.sched, m.locks   the scheduler and the locks                        *)
(*   m.cpu              the registers of the core                          *)
(*   m.frames[t]        AArch64Context.exception_frames of task t          *)
(*   m.status[t]        AArch64Context.response_status, an Option          *)
(*   m.entries[t]       how often t was started at its entry point (at     *)
(*                      most 2 is counted)                                 *)
(*   m.iar              GIC.iar[0], the acknowledged interrupts            *)
(*   m.active           the interrupts active in the GIC (hardware)        *)
(*   m.fault            a failed unwrap, assertion or expectation, "none"  *)
(*                      when all went well                                 *)
(*                                                                         *)
(* Registers stand for groups: x0 carries arguments and results; x21, x22  *)
(* and x23 are the ones that push_all and pop_all also use for sp_el0,     *)
(* elr_el1 and spsr_el1; x30 stands for the rest of the general and vector *)
(* registers.  pc and pstate are the processor's, with pstate "el0", "el1" *)
(* (interrupts enabled) or "masked" (EL1, interrupts masked).              *)
(***************************************************************************)
EXTENDS LockOps, Steps

Faulty(m, why) == [m EXCEPT !.fault = why]

\* Vec::last and Vec::pop of a vector that is not empty.
Last(s)  == s[Len(s)]
Front(s) == SubSeq(s, 1, Len(s) - 1)

-----------------------------------------------------------------------------
(* Mutants.                                                                *)

\* pop_all restores the general registers before it uses them for the
\* special ones.
PopAllSwapped(c, f) ==
  [[[c EXCEPT !.x0 = f.x0, !.x21 = f.x21, !.x22 = f.x22, !.x23 = f.x23]
      EXCEPT !.x22 = f.elr_el1, !.x23 = f.spsr_el1, !.x30 = f.x30, !.x21 = f.x31]
      EXCEPT !.sp_el0 = f.x31, !.elr_el1 = f.elr_el1, !.spsr_el1 = f.spsr_el1]

\* push_exception_frame is forgotten in the interrupt handler.
InterruptedNoFrame(m, irq) ==
  [m EXCEPT !.active = @ \cup {irq},
            !.iar    = Append(@, irq),
            !.cpu    = [@ EXCEPT !.pstate = "masked"]]

-----------------------------------------------------------------------------
(* The core and the vectors.                                               *)

\* The core takes an exception (hardware).
Trap(c) ==
  [c EXCEPT !.elr_el1 = c.pc, !.spsr_el1 = c.pstate, !.pstate = "masked"]

\* push_all: x21, x22 and x23 are stored first and then reused.
PushAll(c) ==
  [x0 |-> c.x0, x21 |-> c.x21, x22 |-> c.x22, x23 |-> c.x23,
   x30 |-> c.x30, x31 |-> c.sp_el0,
   elr_el1 |-> c.elr_el1, spsr_el1 |-> c.spsr_el1]

\* What the compiled kernel leaves of the general registers.
Clobbered(c) ==
  [c EXCEPT !.x0 = "kernel", !.x21 = "kernel", !.x22 = "kernel",
            !.x23 = "kernel", !.x30 = "kernel", !.pc = "kernel"]

\* pop_all, in its order.
PopAll(c, f) ==
  LET special(r) == [r EXCEPT !.x22 = f.elr_el1, !.x23 = f.spsr_el1,
                              !.x30 = f.x30, !.x21 = f.x31]
      moved(r)   == [r EXCEPT !.sp_el0 = r.x21, !.elr_el1 = r.x22,
                              !.spsr_el1 = r.x23]
      general(r) == [r EXCEPT !.x0 = f.x0, !.x21 = f.x21, !.x22 = f.x22,
                              !.x23 = f.x23]
  IN  general(moved(special(c)))

\* eret (hardware)
Eret(c) == [c EXCEPT !.pc = c.elr_el1, !.pstate = c.spsr_el1]

-----------------------------------------------------------------------------
(* Frames.                                                                 *)

\* The vectors except and irq, up to push_exception_frame in the handler.
Entered(m) ==
  IF m.sched.current = NoTask THEN Faulty(m, "current task")
  ELSE [m EXCEPT !.frames[m.sched.current] = Append(@, PushAll(Trap(m.cpu))),
                 !.cpu = Clobbered(Trap(m.cpu))]

\* handle_exception writes the result of the system call to the frame.
WithResult(m, t, r) == [m EXCEPT !.frames[t][Len(m.frames[t])].x0 = r]

\* The frame that return_to_user makes at the top of the kernel stack of a
\* task with no frame; what it does not set is whatever was there.
EntryFrame ==
  [x0 |-> "junk", x21 |-> "junk", x22 |-> "junk", x23 |-> "junk",
   x30 |-> "junk", x31 |-> "junk", elr_el1 |-> "entry", spsr_el1 |-> "el1"]

TopFrame(m, t) == IF m.frames[t] = <<>> THEN EntryFrame ELSE Last(m.frames[t])

\* response_status.swap(None)
TakeStatus(m, t) == [m EXCEPT !.status[t] = {}]

ResultOf(m, t, f) ==
  IF m.status[t] = {} THEN f
  ELSE [f EXCEPT !.x0 = CHOOSE s \in m.status[t] : TRUE]

\* return_to_user, to exit_exception and eret.
ReturnTo(m, t) ==
  IF m.cpu.pstate # "masked" THEN Faulty(m, "unmasked return")
  ELSE TakeStatus(
         [m EXCEPT
            !.entries[t] = IF m.frames[t] = <<>> /\ @ < 2 THEN @ + 1 ELSE @,
            !.frames[t]  = IF @ = <<>> THEN @ ELSE Front(@),
            !.cpu = Eret(PopAll([@ EXCEPT !.ttbr0 = t],
                                ResultOf(m, t, TopFrame(m, t))))],
         t)

\* return_to_user in the context of the current task.
ReturnToUser(m) ==
  IF m.fault # "none" THEN m
  ELSE IF m.sched.panic \/ m.sched.current = NoTask THEN Faulty(m, "scheduler")
  ELSE ReturnTo(m, m.sched.current)

\* A system call made in the kernel itself, as libs/sync does to reach the
\* pm module and pm does to sleep: the same vector, on the same stack.
NestedSvc(m) == Entered(m)

-----------------------------------------------------------------------------
(* Interrupts.                                                             *)

\* handle_interrupt: interrupt_begin, then the frame is pushed.
Interrupted(m, irq) ==
  Then([m EXCEPT !.active = @ \cup {irq}, !.iar = Append(@, irq)], Entered)

\* interrupt_end; writing EOIR ends the interrupt in the GIC.
InterruptEnd(m) ==
  IF m.iar = <<>> THEN Faulty(m, "iar")
  ELSE [m EXCEPT !.iar = Front(@), !.active = @ \ {Last(m.iar)}]
=============================================================================
