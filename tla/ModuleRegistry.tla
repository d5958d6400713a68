--------------------------- MODULE ModuleRegistry ---------------------------
(***************************************************************************)
(* The kernel's start: the registry of modules (sophon/src/modules), the   *)
(* entry of a module (libs/kernel-module) and the init function of each    *)
(* module under modules/.  k is the state of the kernel:                   *)
(*   names    the registered modules, in order of their ids                *)
(*   call     the modules whose call handler is set                        *)
(*   named    the NamedModules that have an instance                       *)
(*   locked   MODULE_NAMES and MODULES are write-locked                    *)
(*   masked   interrupts are masked                                        *)
(*   vbar     the vector table is installed                                *)
(*   handlers irq -> the driver whose handler it has                       *)
(*   enabled  the irqs that the GIC forwards                               *)
(*   mapped   driver -> the device frames it mapped, in order              *)
(*   fss      the registered file systems                                  *)
(*   mounted  /dev is mounted                                              *)
(*   devs     the devices of the devfs                                     *)
(*   tests    the kernel tests registered so far                           *)
(*   queue    the run queue                                                *)
(*   current  the current task, as a set                                   *)
(*   fault    "none", or why the kernel stopped: a panic, an undefined     *)
(*            dereference, or spinning on a lock that it holds itself      *)
(***************************************************************************)
EXTENDS DeviceTree, Steps, TLC

CONSTANTS
  ModuleTests,   \* module -> the number of its #[test] functions
  MaxTests       \* MAX_TESTS

NewKernel ==
  [names |-> <<>>, call |-> {}, named |-> {}, locked |-> FALSE, masked |-> TRUE,
   vbar |-> FALSE, handlers |-> <<>>, enabled |-> {}, mapped |-> <<>>, fss |-> {},
   mounted |-> FALSE, devs |-> {}, tests |-> 0, queue |-> <<>>, current |-> {},
   fault |-> "none"]

Stopped(k, why) == [k EXCEPT !.fault = why]

\* The next statement, unless the kernel has stopped
Go(k, Step(_)) == IF k.fault # "none" THEN k ELSE Then(k, Step)

-----------------------------------------------------------------------------
(* The registry and the services.                                          *)

\* NamedModule::deref
Deref(k, m) == IF m \in k.named THEN k ELSE Stopped(k, "unset instance")

\* NamedModule::set_instance, with the post-initializer of INTERRUPT
SetInstance(k, m) ==
  IF m \in k.named THEN Stopped(k, "instance set twice")
  ELSE [k EXCEPT !.named = @ \cup {m}, !.vbar = @ \/ m = "INTERRUPT"]

\* The spin lock is not reentrant.
ModulesLock(k) == IF k.locked THEN Stopped(k, "spins") ELSE k

\* raw_module_call: `handled` is what the handler of the module makes of k; a
\* module that has no handler answers -1.
ModuleCall(k, module, handled) ==
  Go(ModulesLock(k), LAMBDA g :
    IF ~ Contains(g.names, module) THEN Stopped(g, "unwrap")
    ELSE IF module \notin g.call THEN g
    ELSE handled)

RegisterModuleCall(k, module) ==
  Go(ModulesLock(k), LAMBDA g : [g EXCEPT !.call = @ \cup {module}])

MapDevicePage(k, driver, frame) ==
  [k EXCEPT !.mapped = (driver :> (IF driver \in DOMAIN @ THEN Append(@[driver], frame)
                                   ELSE <<frame>>)) @@ @]

SetIrqHandler(k, irq, driver) ==
  Go(Deref(k, "INTERRUPT"), LAMBDA g : [g EXCEPT !.handlers = (irq :> driver) @@ @])

EnableIrq(k, irq) ==
  Go(Deref(k, "INTERRUPT"), LAMBDA g : [g EXCEPT !.enabled = @ \cup {irq}])

\* KERNEL_TESTS.merge: add panics when the array is full.
MergeTests(k, n) ==
  IF k.tests + n > MaxTests THEN Stopped(k, "index") ELSE [k EXCEPT !.tests = @ + n]

-----------------------------------------------------------------------------
(* The init functions.                                                     *)

\* devtree.compatible(first).or_else(second)
Either(tree, first, second) ==
  IF Compatible(tree, first) # 0 THEN Compatible(tree, first)
  ELSE Compatible(tree, second)

WithNode(k, n, Step(_, _)) == IF n = 0 THEN Stopped(k, "unwrap") ELSE Step(k, n)

DeviceFrame(tree, n, i) == Translate(tree, n, Regs(tree, n)[i])

GpioInit(k, tree) ==
  LET n == Compatible(tree, "brcm,bcm2711-gpio")
  IN  IF n = 0 THEN k ELSE MapDevicePage(k, "gpio", DeviceFrame(tree, n, 1))

GicInit(k, tree) ==
  WithNode(k, Either(tree, "arm,cortex-a15-gic", "arm,gic-400"), LAMBDA g, n :
    Go(MapDevicePage([g EXCEPT !.masked = TRUE], "gic", DeviceFrame(tree, n, 1)),
      LAMBDA h : Go(MapDevicePage(h, "gic", DeviceFrame(tree, n, 2)),
      LAMBDA i : SetInstance([i EXCEPT !.enabled = {}], "INTERRUPT"))))

\* The timer's second interrupt is the one of the physical timer at EL1.
TimerIrqNumber(tree, n) == Interrupts(tree, n)[2]

TimerInit(k, tree) ==
  WithNode(k, Either(tree, "arm,armv7-timer", "arm,armv8-timer"), LAMBDA g, n :
    LET irq == TimerIrqNumber(tree, n)
    IN  Go(SetIrqHandler(g, irq, "timer"), LAMBDA h :
        Go(EnableIrq(h, irq), LAMBDA i : SetInstance(i, "TIMER"))))

VfsInit(k) ==
  Go(SetInstance(k, "VFS"), LAMBDA g : [g EXCEPT !.fss = @ \cup {"rootfs"}])

\* The mount is a module call to the VFS, which unwraps its outcome.
Mounted(k) ==
  IF {"rootfs", "devfs"} \subseteq k.fss THEN [k EXCEPT !.mounted = TRUE]
  ELSE Stopped(k, "unwrap")

DevInit(k) ==
  Go(Deref(k, "VFS"), LAMBDA g :
    Then([g EXCEPT !.fss = @ \cup {"devfs"}], LAMBDA h :
         ModuleCall(h, "vfs", Mounted(h))))

UartInit(k, tree) ==
  WithNode(k, Compatible(tree, "arm,pl011"), LAMBDA g, n :
    LET irq == Interrupts(tree, n)[1]
    IN  Go(MapDevicePage(g, "uart", DeviceFrame(tree, n, 1)), LAMBDA h :
        Go(SetIrqHandler(h, irq, "uart"), LAMBDA i :
        Go(EnableIrq(i, irq), LAMBDA j :
           ModuleCall(j, "dev", [j EXCEPT !.devs = @ \cup {"tty.serial"}])))))

ModuleInit(k, module, tree) ==
  CASE module = "hello"        -> k
    [] module = "bcm2711-gpio" -> GpioInit(k, tree)
    [] module = "gic"          -> GicInit(k, tree)
    [] module = "gic-timer"    -> TimerInit(k, tree)
    [] module = "vfs"          -> VfsInit(k)
    [] module = "pm"           -> SetInstance(k, "PROCESS_MANAGER")
    [] module = "dev"          -> DevInit(k)
    [] module = "pl011"        -> UartInit(k, tree)
    [] module = "round-robin"  -> SetInstance(k, "SCHEDULER")

\* The modules with a ModuleRequest type other than !
HandlesCalls == {"vfs", "pm", "dev"}

\* init_kernel_module, called through the module's _start
InitKernelModule(k, module, tree, test) ==
  Go(IF module \in HandlesCalls THEN RegisterModuleCall(k, module) ELSE k, LAMBDA g :
  Go(ModuleInit(g, module, tree), LAMBDA h :
     IF test THEN MergeTests(h, ModuleTests[module]) ELSE h))

-----------------------------------------------------------------------------
(* register: the locks are held while the module is loaded, and given up   *)
(* before it starts.                                                       *)

LockAndLoad(k, module) ==
  Go(ModulesLock(k), LAMBDA g :
    [g EXCEPT !.names = Append(@, module), !.locked = TRUE])

RegisterInScope(k, module, tree, test) ==
  Go(LockAndLoad(k, module), LAMBDA g :
  Go(InitKernelModule(g, module, tree, test), LAMBDA h : [h EXCEPT !.locked = FALSE]))

Register(k, module, tree, test) ==
  IF Contains(k.names, module) THEN k
  ELSE Go(LockAndLoad(k, module), LAMBDA g :
       Go([g EXCEPT !.locked = FALSE], LAMBDA h : InitKernelModule(h, module, tree, test)))

\* PROCESS_MANAGER.spawn: the process gets three descriptors of the serial line,
\* and its main thread enters the run queue.
SpawnTask(k, task) ==
  Go(Deref(k, "PROCESS_MANAGER"), LAMBDA g :
  Go(Deref(g, "VFS"), LAMBDA h :
    IF ~ h.mounted \/ "tty.serial" \notin h.devs THEN Stopped(h, "unwrap")
    ELSE Go(Deref(h, "SCHEDULER"), LAMBDA i : [i EXCEPT !.queue = Append(@, task)])))

\* SCHEDULER.schedule with no current task: the first task of the queue runs,
\* with interrupts enabled.
FirstSchedule(k) ==
  Go(Deref(k, "SCHEDULER"), LAMBDA g :
    IF g.queue = <<>> THEN Stopped(g, "No more tasks to run!")
    ELSE Go(Deref(g, "PROCESS_MANAGER"), LAMBDA h :
         [h EXCEPT !.current = {Head(h.queue)}, !.queue = Tail(@), !.masked = FALSE]))

\* handle_interrupt.  The timer's handler puts the current task, whose slice is
\* one tick, behind the others.
TakeInterrupt(k, irq) ==
  IF ~ k.vbar THEN Stopped(k, "no vector table")
  ELSE Go(Deref(k, "INTERRUPT"), LAMBDA g :
       Go(Deref(g, "PROCESS_MANAGER"), LAMBDA h :
       Go(Deref(h, "SCHEDULER"), LAMBDA i :
         IF i.current = {} THEN Stopped(i, "unwrap")
         ELSE IF irq \in DOMAIN i.handlers /\ i.handlers[irq] = "timer"
         THEN LET q == i.queue \o SetToSeq(i.current)
              IN  [i EXCEPT !.current = {Head(q)}, !.queue = Tail(q)]
         ELSE i)))
=============================================================================
