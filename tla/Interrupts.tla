----------------------------- MODULE Interrupts -----------------------------
(***************************************************************************)
(* Interrupt dispatch: the interrupt controllers as cpu/isr.c programs     *)
(* them, the processor's interrupt flag, the stubs of cpu/interrupt.asm    *)
(* and the table of handlers.  A handler runs masked and is one step; it   *)
(* may not return, when it switches tasks, in which case the processor     *)
(* goes on in another task.  Lines are 0 (timer), 1 (keyboard) and 12      *)
(* (second PS/2 port), which is the slave's and reaches the master on 2.   *)
(***************************************************************************)
EXTENDS Integers, FiniteSetsExt

VARIABLES
    irr,            \* lines with a request the processor has not taken
    inService,      \* lines the controllers hold to be in service
    iflag,          \* the interrupt flag
    irq,            \* the line or vector whose stub runs, NoIrq if none
    handlers        \* the vectors with a registered handler

dispatch == <<irr, inService, iflag, irq, handlers>>

NoIrq == -1
Line == {0, 1, 12}
SyscallVector == 128
VectorOf(l) == 32 + l

DispatchInit ==
    /\ irr \in SUBSET {0, 1} /\ inService = {} /\ iflag = FALSE /\ irq = NoIrq
    /\ handlers = {}

-----------------------------------------------------------------------------
(* Plausible bugs of the code, for the mutation checks of the README.      *)

EoiAfterHandler(vector, switched) ==
    IF switched THEN inService ELSE inService \ {12, 1, 2, 0}

HandlersShifted(n) == handlers \cup {n - 32}

-----------------------------------------------------------------------------
(* A controller passes a line on if nothing of its priority or a higher    *)
(* one is in service.  IRQ 8 to 15 have the priority of line 2.            *)
Priority(l) == IF l >= 8 THEN 2 ELSE l

Served(l) == IF l >= 8 THEN {2, l} ELSE {l}

TakeIrq(l) ==
    /\ iflag /\ irq = NoIrq /\ l \in irr
    /\ \A m \in irr \ {l} : Priority(l) < Priority(m)
    /\ \A m \in inService : Priority(l) < Priority(m)
    /\ irr' = irr \ {l} /\ inService' = inService \cup Served(l)
    /\ irq' = l /\ iflag' = FALSE
    /\ UNCHANGED handlers

(* PIC_sendEOI, which irq_handler calls before the handler: what is in     *)
(* service when the stub is left, by its end or through a task switch.     *)
AfterEoi(vector, switched) ==
    LET master == inService \cap (0..7)
        top == IF master = {} THEN {} ELSE {Min(master)}
    IN  (inService \ top) \ (IF vector >= 40 THEN {12} ELSE {})

(* irq_handler and the end of the stub.  A task it switches to may go on   *)
(* with interrupts off, if it was suspended inside sleep().                *)
IrqHandler(l, switched) ==
    /\ irq = l /\ l \in Line
    /\ switched => VectorOf(l) \in handlers
    /\ inService' = AfterEoi(VectorOf(l), switched)
    /\ irq' = NoIrq /\ iflag' \in (IF switched THEN BOOLEAN ELSE {TRUE})
    /\ UNCHANGED handlers

(* Such a task sleeps again, and the next one's stub lets interrupts in.   *)
Unmask ==
    /\ irq = NoIrq /\ ~iflag /\ iflag' = TRUE
    /\ UNCHANGED <<irr, inService, irq, handlers>>

(* int 0x80 from user mode, which has interrupts on, and isr_handler with  *)
(* its stub.                                                               *)
Int80 ==
    /\ iflag /\ irq = NoIrq
    /\ irq' = SyscallVector /\ iflag' = FALSE
    /\ UNCHANGED <<irr, inService, handlers>>

IsrHandler ==
    /\ irq = SyscallVector
    /\ irq' = NoIrq /\ iflag' = TRUE
    /\ UNCHANGED <<irr, inService, handlers>>

Registered(n) == handlers \cup {n}

RegisterInterruptHandler(n) ==
    /\ handlers' = Registered(n)
    /\ UNCHANGED <<irr, inService, iflag, irq>>

(* PIC_remap resets the controllers, which forget their requests.          *)
PicRemap == irr' = {} /\ inService' = {}

(* isr_install: masked, it fills the gates, remaps and lets interrupts in. *)
IsrInstall ==
    /\ PicRemap /\ iflag' = TRUE
    /\ UNCHANGED <<irq, handlers>>

Raise(lines) == irr' = irr \cup lines

-----------------------------------------------------------------------------
DispatchTypeOK ==
    /\ irr \subseteq Line /\ inService \subseteq Line \cup {2}
    /\ iflag \in BOOLEAN /\ irq \in Line \cup {NoIrq, SyscallVector}
    /\ handlers \subseteq {VectorOf(l) : l \in Line} \cup {SyscallVector}

(***************************************************************************)
(* Outside of the interrupt stubs the controllers have nothing in service: *)
(* a handler that switches tasks and does not come back for a long time    *)
(* does not keep its line, or those of lower priority, from interrupting   *)
(* the task it switched to.                                                *)
(***************************************************************************)
NothingLeftInService == irq \notin Line => inService = {}
=============================================================================
