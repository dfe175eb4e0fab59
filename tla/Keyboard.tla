------------------------------ MODULE Keyboard ------------------------------
(***************************************************************************)
(* The keyboard at boot and afterwards: main of kernel/kernel.c up to and  *)
(* including init_keyboard, the interrupts that arrive meanwhile, and the  *)
(* handler that takes the bytes.  The PS/2 controller is external: one     *)
(* output buffer that keeps a byte until it is read, raising an interrupt  *)
(* if its configuration says so; a command that asks for a reply gets it   *)
(* at once, but behind a byte that is in the buffer already.  Bytes are    *)
(* told apart by where they come from: "key", "aux" or "ctl" (a reply).    *)
(* What a test replies, whether the input buffer is busy when it is looked *)
(* at, and when keys are pressed is open.                                  *)
(***************************************************************************)
EXTENDS Interrupts

CONSTANTS
    MaxKeys,        \* a bound on the keys pressed
    Retries         \* PORT_SEND_NUM_RETRIES

ASSUME KeyboardAssumption == MaxKeys \in Nat /\ Retries \in Nat \ {0}

VARIABLES
    pc,             \* where main is; "idle" or "failed" once init_keyboard is over
    tries,          \* polls left in send_port
    probe, dual,    \* should_probe_second_channel, is_dual_channel
    out,            \* the output buffer
    config,         \* the controller's configuration byte
    has2,           \* whether there is a second channel
    devq, auxq,     \* bytes the keyboard and the mouse have yet to deliver
    keys,           \* keys pressed
    corrupt,        \* history: a device byte was taken for the configuration
    timedOut        \* history: a send_port gave up

boot == <<pc, tries, probe, dual>>
ps2 == <<out, config, has2, devq, auxq, keys>>
vars == <<dispatch, boot, ps2, corrupt, timedOut>>

Over == {"idle", "failed", "hung", "reset"}
Stage == Over \cup {"a20_ad", "a20_d0", "a20_d1", "a20_ae", "install", "timer",
    "disable1", "disable2", "flush", "config", "selftest", "probe", "present",
    "test", "enable1", "enable2", "enable", "register", "reset1", "reset2",
    "set_f0", "set_01", "poll"}

Init ==             \* the firmware may leave a byte, and has interrupts on
    /\ DispatchInit
    /\ pc = "a20_ad" /\ tries = Retries + 1 /\ probe = TRUE /\ dual = FALSE
    /\ out \in {"empty", "key"} /\ has2 \in BOOLEAN
    /\ config = [irq1 |-> TRUE, irq2 |-> FALSE, off1 |-> FALSE, off2 |-> FALSE]
    /\ devq = 0 /\ auxq = 0 /\ keys = 0 /\ corrupt = FALSE /\ timedOut = FALSE

-----------------------------------------------------------------------------
(* Plausible bugs of the code, for the mutation checks of the README.      *)

ScancodeNotPolled ==
    /\ pc = "poll" /\ irq = NoIrq /\ pc' = "idle"
    /\ UNCHANGED <<dispatch, tries, probe, dual, ps2, corrupt, timedOut>>

FlushUnread ==      \* (the loop polls the status and never reads the data)
    /\ out = "empty" /\ irq = NoIrq /\ pc = "flush" /\ pc' = "config"
    /\ UNCHANGED <<dispatch, tries, probe, dual, ps2, corrupt, timedOut>>

ByteNotRead == out

-----------------------------------------------------------------------------
(* Device side: external.                                                  *)

RaisedBy(byte, c) ==    \* the lines a byte in the output buffer asserts
    CASE byte \in {"key", "ctl"} /\ c.irq1 -> {1}
      [] byte = "aux" /\ c.irq2            -> {12}
      [] OTHER                             -> {}

KeyPress ==
    /\ keys < MaxKeys /\ keys' = keys + 1 /\ devq' = devq + 1
    /\ UNCHANGED <<dispatch, boot, out, config, has2, auxq, corrupt, timedOut>>

Deliver(byte) ==
    /\ out = "empty" /\ out' = byte
    /\ \/ byte = "key" /\ ~config.off1 /\ devq > 0 /\ devq' = devq - 1 /\ UNCHANGED auxq
       \/ byte = "aux" /\ ~config.off2 /\ auxq > 0 /\ auxq' = auxq - 1 /\ UNCHANGED devq
    /\ Raise(RaisedBy(byte, config))
    /\ UNCHANGED <<inService, iflag, irq, handlers, boot, config, has2, keys,
                   corrupt, timedOut>>

(* A tick does not come while the one before is being handled.             *)
Tick ==
    /\ 0 \notin irr /\ irq # 0 /\ Raise({0})
    /\ UNCHANGED <<inService, iflag, irq, handlers, boot, ps2, corrupt, timedOut>>

-----------------------------------------------------------------------------
(* Interrupts.  keyboard_callback reads the data port, whatever is there.  *)

Take(l) == TakeIrq(l) /\ UNCHANGED <<boot, ps2, corrupt, timedOut>>

ReadByKeyboardCallback == "empty"

Serve(l, switched) ==
    /\ IrqHandler(l, switched)
    /\ out' = IF l = 1 /\ VectorOf(1) \in handlers THEN ReadByKeyboardCallback ELSE out
    /\ switched => pc \in Over
    /\ UNCHANGED <<irr, boot, config, has2, devq, auxq, keys, corrupt, timedOut>>

SleepAgain ==
    /\ pc \in {"idle", "failed"} /\ Unmask
    /\ UNCHANGED <<boot, ps2, corrupt, timedOut>>

SystemCall ==
    /\ pc \in {"idle", "failed"} /\ SyscallVector \in handlers
    /\ Int80 /\ UNCHANGED <<boot, ps2, corrupt, timedOut>>

EndSystemCall == IsrHandler /\ UNCHANGED <<boot, ps2, corrupt, timedOut>>

InitialiseSyscalls ==
    /\ pc \in {"idle", "failed"} /\ irq = NoIrq /\ SyscallVector \notin handlers
    /\ RegisterInterruptHandler(SyscallVector)
    /\ UNCHANGED <<boot, ps2, corrupt, timedOut>>

-----------------------------------------------------------------------------
(* main.  A step of it is taken when no interrupt stub runs.               *)

Main(from, to) == irq = NoIrq /\ pc = from /\ pc' = to

Quiet == UNCHANGED <<dispatch, out, devq, auxq, keys, has2, corrupt, timedOut>>

(* init_A20.  wait_keyboard looks at the status once and, if the input     *)
(* buffer is busy, prints for ever.                                        *)
Hang(from) ==
    /\ Main(from, "hung") /\ Quiet /\ UNCHANGED <<tries, probe, dual, config>>

A20Disable ==
    \/ Hang("a20_ad")
    \/ /\ Main("a20_ad", "a20_d0") /\ config' = [config EXCEPT !.off1 = TRUE]
       /\ Quiet /\ UNCHANGED <<tries, probe, dual>>

(* A command and the read of its reply: the reply is right if nothing was  *)
(* in the buffer, and is left there itself otherwise.                      *)
RightReply == out = "empty"

Ask ==
    /\ out' = IF RightReply THEN "empty" ELSE "ctl"
    /\ Raise(RaisedBy("ctl", config))
    /\ UNCHANGED <<inService, iflag, irq, handlers, devq, auxq, keys, has2>>

(* A wrong reply is written back to the output port, which may reset the   *)
(* machine.                                                                *)
A20Read ==
    \/ Hang("a20_d0")
    \/ /\ Main("a20_d0", "a20_d1") \/ (~RightReply /\ Main("a20_d0", "reset"))
       /\ Ask /\ UNCHANGED <<tries, probe, dual, config, corrupt, timedOut>>

A20Write ==
    \/ Hang("a20_d1")
    \/ Main("a20_d1", "a20_ae") /\ Quiet /\ UNCHANGED <<tries, probe, dual, config>>

A20Enable ==
    \/ Hang("a20_ae")
    \/ /\ Main("a20_ae", "install") /\ config' = [config EXCEPT !.off1 = FALSE]
       /\ Quiet /\ UNCHANGED <<tries, probe, dual>>

Install ==
    /\ Main("install", "timer") /\ IsrInstall
    /\ UNCHANGED <<tries, probe, dual, ps2, corrupt, timedOut>>

InitTimer ==
    /\ Main("timer", "disable1") /\ RegisterInterruptHandler(VectorOf(0))
    /\ UNCHANGED <<tries, probe, dual, ps2, corrupt, timedOut>>

(* disable_devices.  Without a second channel its bit stays clear.         *)
DisablePorts ==
    /\ \/ Main("disable1", "disable2") /\ config' = [config EXCEPT !.off1 = TRUE]
       \/ Main("disable2", "flush") /\ config' = [config EXCEPT !.off2 = has2]
    /\ Quiet /\ UNCHANGED <<tries, probe, dual>>

ReadPort == out' = "empty" /\ UNCHANGED <<dispatch, devq, auxq, keys, has2>>

Flush ==
    /\ \/ out # "empty" /\ Main("flush", "flush")
       \/ out = "empty" /\ Main("flush", "config")
    /\ ReadPort /\ UNCHANGED <<tries, probe, dual, config, corrupt, timedOut>>

DisableConfig ==
    /\ Main("config", "selftest") /\ Ask
    /\ config' = [config EXCEPT !.irq1 = FALSE, !.irq2 = FALSE]
    /\ probe' = config.off2
    /\ UNCHANGED <<tries, dual, corrupt, timedOut>>

SelfTest ==         \* i8042_self_test reads until it has its reply
    /\ \E to \in {"probe", "failed"} : Main("selftest", to)
    /\ out' = "empty" /\ Raise(RaisedBy("ctl", config))
    /\ UNCHANGED <<inService, iflag, irq, handlers, devq, auxq, keys, has2>>
    /\ UNCHANGED <<tries, probe, dual, config, corrupt, timedOut>>

(* is_channel2_present: enable, read the configuration, disable.           *)
ProbeStart ==
    /\ \/ ~probe /\ Main("probe", "test") /\ UNCHANGED config
       \/ probe /\ Main("probe", "present") /\ config' = [config EXCEPT !.off2 = FALSE]
    /\ Quiet /\ UNCHANGED <<tries, probe, dual>>

ProbeEnd ==
    /\ Main("present", "test") /\ Ask
    /\ dual' \in IF RightReply THEN {~config.off2} ELSE BOOLEAN
    /\ config' = [config EXCEPT !.off2 = has2]
    /\ UNCHANGED <<tries, probe, corrupt, timedOut>>

TestPorts ==
    /\ \E to \in {"enable1", "failed"} : Main("test", to)
    /\ Ask /\ UNCHANGED <<tries, probe, dual, config, corrupt, timedOut>>

EnablePorts ==
    /\ \/ Main("enable1", "enable2") /\ config' = [config EXCEPT !.off1 = FALSE]
       \/ Main("enable2", "enable") /\ config' = [config EXCEPT !.off2 = FALSE]
    /\ Quiet /\ UNCHANGED <<tries, probe, dual>>

(* The ports deliver already: a byte in the buffer is read instead of the  *)
(* configuration and written back as such.                                 *)
EnableConfig ==
    /\ Main("enable", "register")
    /\ out' = IF RightReply THEN "empty" ELSE "ctl"
    /\ config' \in IF RightReply
                   THEN {[config EXCEPT !.irq1 = TRUE, !.irq2 = TRUE]}
                   ELSE [irq1 : {TRUE}, irq2 : {TRUE}, off1 : BOOLEAN, off2 : BOOLEAN]
    /\ corrupt' = (corrupt \/ ~RightReply)
    /\ Raise(RaisedBy(out', config'))
    /\ UNCHANGED <<inService, iflag, irq, handlers, tries, probe, dual, devq,
                   auxq, keys, has2, timedOut>>

RegisterKeyboard ==
    /\ Main("register", "reset1") /\ RegisterInterruptHandler(VectorOf(1))
    /\ UNCHANGED <<tries, probe, dual, ps2, corrupt, timedOut>>

(***************************************************************************)
(* send_port at stage from.  tries counts the first look at the status     *)
(* too; when it has run out the call fails, even if that last look found   *)
(* the buffer free.  The device answers a command with `answers' bytes.    *)
(***************************************************************************)
TriesLeft == tries - 1

SendPort(from, to, onFailure, toAux, answers) ==
    /\ \/ TriesLeft > 0 /\ Main(from, from) /\ tries' = TriesLeft     \* busy
          /\ UNCHANGED <<devq, auxq, timedOut>>
       \/ /\ TriesLeft > 0 /\ Main(from, to) /\ tries' = Retries + 1
          /\ devq' = IF toAux THEN devq ELSE devq + answers
          /\ auxq' = IF toAux THEN auxq + answers ELSE auxq
          /\ UNCHANGED timedOut
       \/ /\ TriesLeft = 0 /\ Main(from, onFailure) /\ tries' = Retries + 1
          /\ timedOut' = TRUE /\ UNCHANGED <<devq, auxq>>
    /\ UNCHANGED <<dispatch, out, config, has2, keys, probe, dual, corrupt>>

ResetDevices ==
    \/ SendPort("reset1", "reset2", "failed", FALSE, 2)
    \/ dual /\ SendPort("reset2", "set_f0", "failed", TRUE, 2)
    \/ /\ ~dual /\ Main("reset2", "set_f0")
       /\ Quiet /\ UNCHANGED <<tries, probe, dual, config>>

(* set_keyboard_scancode.  init_keyboard goes on if it fails.              *)
SetScancode ==
    \/ SendPort("set_f0", "set_01", "idle", FALSE, 1)
    \/ SendPort("set_01", "poll", "idle", FALSE, 1)

PollScancode ==
    /\ Main("poll", "idle") /\ ReadPort
    /\ UNCHANGED <<tries, probe, dual, config, corrupt, timedOut>>

BootStep ==
    \/ A20Disable \/ A20Read \/ A20Write \/ A20Enable \/ Install \/ InitTimer
    \/ DisablePorts \/ Flush \/ DisableConfig \/ SelfTest \/ ProbeStart
    \/ ProbeEnd \/ TestPorts \/ EnablePorts \/ EnableConfig \/ RegisterKeyboard
    \/ ResetDevices \/ SetScancode \/ PollScancode

Next ==
    \/ BootStep
    \/ KeyPress \/ Tick \/ \E byte \in {"key", "aux"} : Deliver(byte)
    \/ \E l \in Line : Take(l) \/ \E switched \in BOOLEAN : Serve(l, switched)
    \/ SleepAgain \/ SystemCall \/ EndSystemCall \/ InitialiseSyscalls

(***************************************************************************)
(* Fairness: the interrupted program goes on between interrupts, a handler *)
(* comes to its end, a masked task sleeps again (Scheduler shows that it   *)
(* can), requests that are let in again and again are taken, and a device  *)
(* delivers its bytes when the buffer is free.  The processor keeps up     *)
(* with the timer: again and again no tick is waiting.                     *)
(***************************************************************************)
Fairness ==
    /\ SF_vars(BootStep)
    /\ \A l \in Line : SF_vars(Take(l)) /\ WF_vars(\E s \in BOOLEAN : Serve(l, s))
    /\ WF_vars(EndSystemCall) /\ WF_vars(SleepAgain)
    /\ []<>(pc \in {"idle", "failed"} => iflag /\ irq = NoIrq /\ 0 \notin irr)
    /\ WF_vars(Deliver("key")) /\ WF_vars(Deliver("aux"))

Spec == Init /\ [][Next]_vars /\ Fairness

-----------------------------------------------------------------------------
(* Interrupt controllers, boot program and PS/2 controller are in states   *)
(* of their kinds.                                                         *)
TypeOK ==
    /\ DispatchTypeOK
    /\ pc \in Stage /\ tries \in 1..(Retries + 1) /\ {probe, dual} \subseteq BOOLEAN
    /\ out \in {"empty", "key", "aux", "ctl"}
    /\ config \in [irq1 : BOOLEAN, irq2 : BOOLEAN, off1 : BOOLEAN, off2 : BOOLEAN]
    /\ devq \in 0..(MaxKeys + 4) /\ auxq \in 0..2

(***************************************************************************)
(* When init_keyboard has returned true, the keyboard is on, and no byte   *)
(* of it and no late reply of the controller is stuck in the output        *)
(* buffer: an interrupt for it is requested or its handler about to run.   *)
(* This although interrupts are on before the handler is registered, and a *)
(* byte that arrives in between is acknowledged and not read: the poll of  *)
(* set_keyboard_scancode takes it.  The only byte that can stay there is   *)
(* one of a second port: init_keyboard enables such a port and resets the  *)
(* device, whose answers have no handler: one that comes after the poll    *)
(* fills the buffer for ever; so if none was found, no byte is stuck.      *)
(* Excepted are a send_port that gave up and a byte that was taken for the *)
(* configuration.                                                          *)
(***************************************************************************)
KeyboardAlive ==
    (pc = "idle" /\ ~corrupt /\ ~timedOut) =>
       /\ config.irq1 /\ ~config.off1
       /\ out \in {"key", "ctl"} => 1 \in irr \/ irq = 1
       /\ out = "aux" => dual

(* Liveness: main gets through the initialisation, or to one of its ends.  *)
BootEnds == <>(pc \in Over)

(***************************************************************************)
(* Every byte of the keyboard is read in the end, also if task switches in *)
(* handlers and system calls come in between, if there is no second port.  *)
(* (Bytes of a second port have no handler, and block the buffer.)         *)
(***************************************************************************)
BytesRead ==
    (pc = "idle" /\ ~corrupt /\ ~timedOut /\ ~has2 /\ devq > 0)
       ~> (devq = 0 /\ out = "empty")
=============================================================================
