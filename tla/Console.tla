------------------------------ MODULE Console -------------------------------
(***************************************************************************)
(* The serial line from the wire to the readers: user tasks read from the  *)
(* PL011 driver (modules/pl011/src/lib.rs), its interrupt handler fills    *)
(* the buffer, and the timer (modules/gic-timer/src/lib.rs) preempts, over *)
(* the kernel entry and exit of Exceptions.                                *)
(*                                                                         *)
(* The kernel runs masked on one core: a handler is one step, and ends     *)
(* where return_to_user leaves the kernel or resumes another task.  A      *)
(* reader sleeps inside two nested system calls and, when it is scheduled  *)
(* again, goes on masked; Resume is the only step possible then.           *)
(***************************************************************************)
EXTENDS Exceptions, SpawnedTasks, TLC

CONSTANTS
  Char,         \* the characters that arrive, strings
  MaxChars,     \* bound on their number
  Sizes         \* the lengths of the buffers that readers pass

\* PL011.monitor: its mutex and its condition variable.
Uart == "uart"

ASSUME UartAssumption == Mutex = {Uart} /\ Cond = {Uart}

ASSUME ConsoleAssumption == MaxChars \in Nat /\ Sizes \subseteq Nat

VARIABLES
  m,         \* the machine, see Exceptions
  timer,     \* the timer asserts its interrupt
  fifo,      \* the receiver of the UART: one character, as LCRH.FEN is 0
  buffer,    \* PL011.buffer
  reads,     \* task -> size of its read and number of characters missing
  sent,      \* history: characters that reached the receiver
  got,       \* history: characters delivered to readers, in order
  expect     \* history: what x0 of each user task should hold

vars == <<m, timer, fifo, buffer, reads, sent, got, expect>>

Users == Task \ {Idle}

NoRead == [size |-> 0, left |-> 0]

\* getchar turns a carriage return into a newline.
Cooked(c) == IF c = "\r" THEN "\n" ELSE c
CookedAll(s) == [i \in DOMAIN s |-> Cooked(s[i])]

\* _start runs masked on the boot stack.
BootCpu ==
  [x0 |-> "kernel", x21 |-> "kernel", x22 |-> "kernel", x23 |-> "kernel",
   x30 |-> "kernel", sp_el0 |-> "junk", ttbr0 |-> "kernel", pc |-> "kernel",
   pstate |-> "masked", elr_el1 |-> "junk", spsr_el1 |-> "junk"]

\* Every process is spawned, each with its context: the stack of frames is
\* empty and the status is the argument of the entry point.
BootMachine ==
  [sched   |-> Started,
   locks   |-> FreshLocks,
   cpu     |-> BootCpu,
   frames  |-> [t \in Task |-> <<>>],
   status  |-> [t \in Task |-> {"context"}],
   entries |-> [t \in Task |-> 0],
   iar     |-> <<>>,
   active  |-> {},
   fault   |-> "none"]

\* SCHEDULER.schedule() at the end of _start
Init ==
  /\ m = ReturnToUser(BootMachine)
  /\ timer = FALSE
  /\ fifo = <<>>
  /\ buffer = <<>>
  /\ reads = [t \in Task |-> NoRead]
  /\ sent = <<>>
  /\ got = <<>>
  /\ expect = [t \in Task |-> "none"]

Current == m.sched.current
Fine    == m.fault = "none" /\ ~m.sched.panic

-----------------------------------------------------------------------------
(* Mutants.                                                                *)

\* getchar tests the buffer with an if and not in a loop.
WaitedOnce(k, t) ==
  [k EXCEPT !.locks = Unlocked(@, Uart),
            !.fault = IF buffer = <<>> THEN "pop" ELSE @]

\* The handler of the UART fills the buffer and does not notify.
UartNotifiedNobody(k) ==
  [k EXCEPT !.sched = WakeAll(@, k.locks.mwait[Uart]),
            !.locks = Unlocked(@, Uart)]

\* The buffer is taken from its end.
TakenLast(n) == [i \in 1..n |-> buffer[Len(buffer) - i + 1]]

-----------------------------------------------------------------------------
(* Hardware.                                                               *)

TimerElapses ==
  /\ ~timer /\ timer' = TRUE
  /\ UNCHANGED <<m, fifo, buffer, reads, sent, got, expect>>

\* A character that arrives while the receiver is full is lost in hardware.
CharArrives(c) ==
  /\ Len(sent) < MaxChars
  /\ fifo = <<>>
  /\ fifo' = <<c>>
  /\ sent' = Append(sent, c)
  /\ UNCHANGED <<m, timer, buffer, reads, got, expect>>

\* The GIC signals a pending interrupt when none is active, as init_gic gives
\* all the same priority, and the core takes it when it is not masked.
Signals(irq) ==
  /\ Fine
  /\ m.active = {}
  /\ m.cpu.pstate # "masked"
  /\ \/ irq = "timer" /\ timer
     \/ irq = "uart" /\ fifo # <<>>

-----------------------------------------------------------------------------
(* Interrupt handlers.                                                     *)

\* The handler of the timer.  It ends the interrupt itself, because timer_tick
\* leaves through return_to_user and never comes back to handle_interrupt.
TimerHandled(k) ==
  LET Tick(e) == [e EXCEPT !.sched = TimerTick(@)]
  IN  Then(Then(InterruptEnd(k), Tick), ReturnToUser)

TimerIrq ==
  /\ Signals("timer")
  /\ m' = Then(Interrupted(m, "timer"), TimerHandled)
  /\ timer' = FALSE
  /\ UNCHANGED <<fifo, buffer, reads, sent, got, expect>>

\* notify_all and the drop of the guard in the handler of the UART.
UartNotified(k) ==
  [k EXCEPT !.sched = WakeAll(WakeAll(@, k.locks.cwait[Uart]), k.locks.mwait[Uart]),
            !.locks = Unlocked(Notified(@, Uart), Uart)]

\* The handler of the UART.  Were the monitor locked, it would go to sleep in
\* the name of whichever task was interrupted.
UartHandled(k) ==
  IF k.locks.locked[Uart] THEN Faulty(k, "handler sleeps")
  ELSE Then([k EXCEPT !.locks = Acquired(@, Uart)], UartNotified)

UartIrq ==
  /\ Signals("uart")
  /\ m' = Then(Then(Then(Interrupted(m, "uart"), UartHandled), InterruptEnd),
             ReturnToUser)
  /\ buffer' = buffer \o fifo
  /\ fifo' = <<>>
  /\ UNCHANGED <<timer, reads, sent, got, expect>>

-----------------------------------------------------------------------------
(* Readers.                                                                *)

\* UserTask::run ends in enter_usermode.  What the program keeps in its
\* registers from then on is called by its name.
EnterUsermode(t) ==
  /\ Fine /\ Current = t /\ t # Idle
  /\ m.cpu.pstate = "el1"
  /\ m' = [m EXCEPT !.cpu = [x0 |-> "argc", x21 |-> t, x22 |-> t, x23 |-> t,
                             x30 |-> t, sp_el0 |-> t, ttbr0 |-> t, pc |-> t,
                             pstate |-> "el0", elr_el1 |-> t, spsr_el1 |-> "el0"]]
  /\ expect' = [expect EXCEPT ![t] = "argc"]
  /\ UNCHANGED <<timer, fifo, buffer, reads, sent, got>>

\* The svc of RawCondvar::wait or RawMutex::lock that puts the caller to
\* sleep, inside the svc to the pm module.
Asleep(k) == Then([NestedSvc(k) EXCEPT !.sched = Sleep(@)], ReturnToUser)

\* PL011.monitor.wait(guard), which ends in a sleep.
MonitorWait(k, t) ==
  Then([NestedSvc(k) EXCEPT !.locks = Parked(@, Uart, Uart, t),
                            !.sched = WakeAll(@, k.locks.mwait[Uart])],
       Asleep)

\* getchar found the buffer empty: it locks the monitor and waits on it.
LocksAndWaits(k, t) ==
  IF k.locks.locked[Uart]
  THEN Then([NestedSvc(k) EXCEPT !.locks = Queued(@, Uart, t)], Asleep)
  ELSE Then([k EXCEPT !.locks = Acquired(@, Uart)], LAMBDA l : MonitorWait(l, t))

\* The n characters that n calls of getchar pop.
Taken(n) == SubSeq(buffer, 1, n)

\* The loop of PL011::read from where r.left characters are missing: it takes
\* what the buffer has, and returns to the caller or waits for the rest.
ReadOn(k, t, r) ==
  LET n == IF r.left < Len(buffer) THEN r.left ELSE Len(buffer)
      result == ToString(r.size)
  IN  /\ buffer' = SubSeq(buffer, n + 1, Len(buffer))
      /\ got' = got \o CookedAll(Taken(n))
      /\ IF n = r.left
         THEN /\ m' = Then(WithResult(k, t, result), ReturnToUser)
              /\ expect' = [expect EXCEPT ![t] = result]
              /\ reads' = [reads EXCEPT ![t] = NoRead]
         ELSE /\ m' = LocksAndWaits(k, t)
              /\ reads' = [reads EXCEPT ![t] = [r EXCEPT !.left = @ - n]]
              /\ UNCHANGED expect

\* A program reads: svc, VFSRequest::Read, DevFS::read, PL011::read.
SysRead(t, n) ==
  /\ Fine /\ Current = t
  /\ m.cpu.pstate = "el0"
  /\ \E k \in {Entered(m)} : ReadOn(k, t, [size |-> n, left |-> n])
  /\ UNCHANGED <<timer, fifo, sent>>

\* getchar behind lock or wait, with the monitor locked: it waits again if
\* the buffer is still empty and drops the guard otherwise.
Waited(k, t) ==
  IF buffer = <<>> THEN MonitorWait(k, t)
  ELSE [k EXCEPT !.locks = Unlocked(@, Uart),
                 !.sched = WakeAll(@, k.locks.mwait[Uart])]

\* fetch_or in RawMutex::lock found the mutex free, and the svc to the pm
\* module returns to getchar.
Relocked(k, t) ==
  Then(Then([k EXCEPT !.locks = Acquired(@, Uart)], ReturnToUser),
       LAMBDA l : Waited(l, t))

\* The reader goes on behind syscall::wait(), in RawMutex::lock, and stays in
\* the kernel or reads on.
SleepsAgain(t) ==
  /\ Fine /\ Current = t
  /\ m.cpu.pstate = "masked"
  /\ m.locks.locked[Uart] \/ buffer = <<>>
  /\ m' = IF m.locks.locked[Uart]
          THEN Then([m EXCEPT !.locks = Queued(@, Uart, t)], Asleep)
          ELSE Relocked(m, t)
  /\ UNCHANGED <<timer, fifo, sent, buffer, got, reads, expect>>

ReadsOn(t) ==
  /\ Fine /\ Current = t
  /\ m.cpu.pstate = "masked"
  /\ ~m.locks.locked[Uart] /\ buffer # <<>>
  /\ \E k \in {Relocked(m, t)} : ReadOn(k, t, reads[t])
  /\ UNCHANGED <<timer, fifo, sent>>

Resume(t) == SleepsAgain(t) \/ ReadsOn(t)

Next ==
  \/ TimerElapses
  \/ \E c \in Char : CharArrives(c)
  \/ TimerIrq
  \/ UartIrq
  \/ \E t \in Users :
       \/ EnterUsermode(t)
       \/ \E n \in Sizes : SysRead(t, n)
       \/ Resume(t)

Spec == Init /\ [][Next]_vars

\* The timer keeps running, an interrupt that is signalled is taken, and a
\* task in the kernel goes on.
FairSpec ==
  /\ Spec
  /\ WF_vars(TimerElapses)
  /\ WF_vars(TimerIrq)
  /\ WF_vars(UartIrq)
  /\ \A t \in Users : WF_vars(Resume(t))

-----------------------------------------------------------------------------
(* Properties.                                                             *)

\* What a register can hold here.
Val ==
  Task \cup {"argc", "context", "entry", "junk", "kernel", "none", "el0", "el1", "masked"}
       \cup {ToString(n) : n \in Sizes \cup {0}}

Mode == {"el0", "el1", "masked"}

Registers ==
  [x0 : Val, x21 : Val, x22 : Val, x23 : Val, x30 : Val, sp_el0 : Val,
   ttbr0 : Val, pc : Val, pstate : Mode, elr_el1 : Val, spsr_el1 : Val]

Frame ==
  [x0 : Val, x21 : Val, x22 : Val, x23 : Val, x30 : Val, x31 : Val,
   elr_el1 : Val, spsr_el1 : Mode]

Machine ==
  [sched   : SchedState,
   locks   : LockState,
   cpu     : Registers,
   frames  : [Task -> Seq(Frame)],
   status  : [Task -> SUBSET {"context"}],
   entries : [Task -> 0..2],
   iar     : Seq({"timer", "uart"}),
   active  : SUBSET {"timer", "uart"},
   fault   : {"none", "current task", "unmasked return", "scheduler", "iar",
              "handler sleeps"}]

\* The state has the shapes of its declarations.
TypeOK ==
  /\ m \in Machine
  /\ timer \in BOOLEAN
  /\ fifo \in Seq(Char) /\ Len(fifo) <= 1
  /\ buffer \in Seq(Char)
  /\ sent \in Seq(Char) /\ Len(sent) <= MaxChars
  /\ got \in Seq({Cooked(c) : c \in Char})
  /\ reads \in [Task -> [size : Sizes \cup {0}, left : Nat]]
  /\ expect \in [Task -> Val]

\* No unwrap on a missing task, interrupt or character fails, no assertion of
\* the scheduler or of return_to_user fails, and the interrupt handler of the
\* UART never goes to sleep.
NoFault == m.fault = "none" /\ ~m.sched.panic

\* Whatever interrupts, switches and system calls happened in between, a user
\* program finds its own registers, stack and page table, and in x0 its last
\* result (push_all and pop_all, return_to_user).
UserSeesOwnRegisters ==
  m.cpu.pstate = "el0" =>
    /\ {m.cpu.x21, m.cpu.x22, m.cpu.x23, m.cpu.x30, m.cpu.sp_el0, m.cpu.ttbr0,
        m.cpu.pc} = {Current}
    /\ m.cpu.x0 = expect[Current]

\* The frames of a task tell where it stands: none while it runs in its own
\* code or before its first run, one when it was preempted, and those of the
\* user's svc, of the svc to pm and of the svc that sleeps while it waits for
\* input.  The code keeps frame pointers into the kernel stack, so a frame
\* too many or too few is a return to the wrong place.
FramesFit ==
  \A t \in Task :
    LET asleep  == reads[t].left > 0
        resumed == t = Current /\ m.cpu.pstate = "masked"
        modes   == [i \in DOMAIN m.frames[t] |-> m.frames[t][i].spsr_el1]
    IN  IF asleep
        THEN modes = IF resumed THEN <<"el0", "masked">>
                     ELSE <<"el0", "masked", "masked">>
        ELSE IF t = Current \/ m.entries[t] = 0 THEN modes = <<>>
        ELSE modes \in {<<"el0">>, <<"el1">>}

\* Every character that the receiver accepted reaches a reader once and in
\* order, with carriage returns turned into newlines.
InputInOrder == got \o CookedAll(buffer) \o CookedAll(fifo) = CookedAll(sent)

Waiting == \E t \in Users : reads[t].left > 0

\* A character in the receiver, while a reader waits, is taken by a reader.
InputReachesReader ==
  (Waiting /\ (fifo # <<>> \/ buffer # <<>>))
    ~> (~Waiting \/ (fifo = <<>> /\ buffer = <<>>))
=============================================================================
