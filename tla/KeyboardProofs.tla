--------------------------- MODULE KeyboardProofs ---------------------------
(***************************************************************************)
(* Proofs about Keyboard, and with it about Interrupts, for every number   *)
(* of keys and every number of polls in send_port.                         *)
(***************************************************************************)
EXTENDS Keyboard, TLAPS

-----------------------------------------------------------------------------
(* The controllers.                                                        *)

(* With one line in service, PIC_sendEOI for that line leaves none.        *)
LEMMA EoiFacts ==
    ASSUME NEW l \in Line, NEW switched, inService = Served(l)
    PROVE  AfterEoi(VectorOf(l), switched) = {}
<1> DEFINE master == inService \cap (0..7)
<1>1. CASE l = 12
  <2>1. inService = {2, 12} /\ master = {2} /\ VectorOf(l) = 44
    BY <1>1 DEF Served, VectorOf
  <2>2. Min({2}) = 2
    BY DEF Min
  <2> QED
    BY <2>1, <2>2 DEF AfterEoi
<1>2. CASE l # 12
  <2>1. /\ l \in {0, 1} /\ inService = {l} /\ master = {l}
        /\ ~(VectorOf(l) >= 40)
    BY <1>2 DEF Served, VectorOf, Line
  <2>2. Min({l}) = l
    BY <2>1 DEF Min
  <2> QED
    BY <2>1, <2>2 DEF AfterEoi
<1> QED
  BY <1>1, <1>2

(* A byte in the output buffer asserts lines of the keyboard controller    *)
(* only, and a keyboard byte asserts line 1 if the configuration says so.  *)
LEMMA RaisedByFacts ==
    ASSUME NEW byte, NEW c
    PROVE  /\ RaisedBy(byte, c) \subseteq Line
           /\ byte \in {"key", "ctl"} /\ c.irq1 => 1 \in RaisedBy(byte, c)
  BY DEF RaisedBy, Line

-----------------------------------------------------------------------------
(* Types.  The queues of the devices are bounded by the keys pressed and   *)
(* the answers to the commands that main has sent by now.                  *)

Answers(stage) ==
    CASE stage \in {"reset2", "set_f0"} -> 2
      [] stage = "set_01"               -> 3
      [] stage \in Over \cup {"poll"}   -> 4
      [] OTHER                          -> 0

AuxAnswers(stage) ==
    IF stage \in Over \cup {"set_f0", "set_01", "poll"} THEN 2 ELSE 0

TypeInv ==
    /\ TypeOK
    /\ keys \in 0..MaxKeys
    /\ devq <= keys + Answers(pc)
    /\ auxq <= AuxAnswers(pc)
    /\ corrupt \in BOOLEAN /\ timedOut \in BOOLEAN /\ has2 \in BOOLEAN

(* Interrupts: what is taken, served and raised are lines that exist.      *)
LEMMA InterruptTypes ==
    ASSUME TypeInv, NEW l \in Line, NEW switched \in BOOLEAN,
           \/ Take(l) \/ Serve(l, switched)
           \/ SleepAgain \/ SystemCall \/ EndSystemCall \/ InitialiseSyscalls
    PROVE  TypeInv'
<1> USE KeyboardAssumption
<1> USE DEF TypeInv, TypeOK, DispatchTypeOK, Answers, AuxAnswers, boot, ps2
<1>1. CASE Take(l)
  BY <1>1 DEF Take, TakeIrq, Served, Line
<1>2. CASE Serve(l, switched)
  <2>1. AfterEoi(VectorOf(l), switched) \subseteq inService
    BY DEF AfterEoi
  <2> QED
    BY <1>2, <2>1 DEF Serve, IrqHandler, ReadByKeyboardCallback
<1>3. CASE SleepAgain
  BY <1>3 DEF SleepAgain, Unmask
<1>4. CASE SystemCall
  BY <1>4 DEF SystemCall, Int80
<1>5. CASE EndSystemCall
  BY <1>5 DEF EndSystemCall, IsrHandler
<1>6. CASE InitialiseSyscalls
  BY <1>6 DEF InitialiseSyscalls, RegisterInterruptHandler, Registered
<1> QED
  BY <1>1, <1>2, <1>3, <1>4, <1>5, <1>6

(* The devices deliver what they have.                                     *)
LEMMA DeviceTypes ==
    ASSUME TypeInv, NEW byte \in {"key", "aux"},
           KeyPress \/ Tick \/ Deliver(byte)
    PROVE  TypeInv'
<1> USE KeyboardAssumption
<1> USE DEF TypeInv, TypeOK, DispatchTypeOK, Answers, AuxAnswers, boot, ps2
<1>1. CASE KeyPress
  BY <1>1 DEF KeyPress, dispatch
<1>2. CASE Tick
  BY <1>2 DEF Tick, Raise, Line
<1>3. CASE Deliver(byte)
  BY <1>3, RaisedByFacts DEF Deliver, Raise
<1> QED
  BY <1>1, <1>2, <1>3

(* The three ways a poll in send_port ends: busy, sent, given up.  The     *)
(* queues stay within the answers due at the stage it leads to.            *)
LEMMA SendPortTypes ==
    ASSUME TypeInv, NEW from \in Stage, NEW to \in Stage,
           NEW onFailure \in Stage, NEW toAux \in BOOLEAN, NEW answers \in Nat,
           Answers(from) \in 0..4, AuxAnswers(from) \in 0..2,
           Answers(to) \in 0..4, AuxAnswers(to) \in 0..2,
           Answers(onFailure) \in 0..4, AuxAnswers(onFailure) \in 0..2,
           Answers(from) <= Answers(onFailure),
           AuxAnswers(from) <= AuxAnswers(onFailure),
           Answers(from) + (IF toAux THEN 0 ELSE answers) <= Answers(to),
           AuxAnswers(from) + (IF toAux THEN answers ELSE 0) <= AuxAnswers(to),
           SendPort(from, to, onFailure, toAux, answers)
    PROVE  TypeInv'
<1>t. /\ tries \in 1..(Retries + 1) /\ timedOut \in BOOLEAN
      /\ Retries \in Nat /\ MaxKeys \in Nat /\ keys \in 0..MaxKeys
      /\ devq \in Nat /\ auxq \in Nat
      /\ devq <= keys + Answers(pc) /\ auxq <= AuxAnswers(pc)
  BY KeyboardAssumption DEF TypeInv, TypeOK
<1>1. /\ UNCHANGED <<irr, inService, iflag, irq, handlers>>
      /\ UNCHANGED <<out, config, has2, keys, probe, dual, corrupt>>
  BY DEF SendPort, dispatch
<1>2. pc = from /\ tries' \in 1..(Retries + 1)
  BY <1>t DEF SendPort, Main, TriesLeft
<1>3. timedOut' \in BOOLEAN
  BY <1>t DEF SendPort
<1>4. \/ pc' \in {from, onFailure} /\ UNCHANGED <<devq, auxq>>
      \/ /\ pc' = to
         /\ devq' = IF toAux THEN devq ELSE devq + answers
         /\ auxq' = IF toAux THEN auxq + answers ELSE auxq
  BY DEF SendPort, Main
<1>5. /\ pc' \in Stage
      /\ devq' \in Nat /\ devq' <= keys + Answers(pc') /\ Answers(pc') \in 0..4
      /\ auxq' \in Nat /\ auxq' <= AuxAnswers(pc') /\ AuxAnswers(pc') \in 0..2
  <2>1. CASE pc' = from /\ UNCHANGED <<devq, auxq>>
    BY <1>t, <1>2, <2>1
  <2>2. CASE pc' = onFailure /\ UNCHANGED <<devq, auxq>>
    BY <1>t, <1>2, <2>2
  <2>3. CASE pc' = to /\ toAux /\ devq' = devq /\ auxq' = auxq + answers
    BY <1>t, <1>2, <2>3
  <2>4. CASE pc' = to /\ ~toAux /\ devq' = devq + answers /\ auxq' = auxq
    BY <1>t, <1>2, <2>4
  <2> QED
    BY <1>4, <2>1, <2>2, <2>3, <2>4
<1>6. devq' \in 0..(MaxKeys + 4) /\ auxq' \in 0..2
  BY <1>t, <1>5
<1>7. TypeOK'
  BY <1>1, <1>2, <1>5, <1>6 DEF TypeInv, TypeOK, DispatchTypeOK
<1> QED
  BY <1>1, <1>3, <1>5, <1>7 DEF TypeInv

(* The commands of init_keyboard and set_keyboard_scancode.                *)
LEMMA CommandTypes ==
    ASSUME TypeInv, ResetDevices \/ SetScancode
    PROVE  TypeInv'
<1>s. {"reset1", "reset2", "set_f0", "set_01", "poll", "idle", "failed"} \subseteq Stage
  BY DEF Stage, Over
<1>a. /\ Answers("reset1") = 0 /\ Answers("reset2") = 2 /\ Answers("set_f0") = 2
      /\ Answers("set_01") = 3 /\ Answers("poll") = 4
      /\ Answers("idle") = 4 /\ Answers("failed") = 4
  BY DEF Answers, Over
<1>b. /\ AuxAnswers("reset1") = 0 /\ AuxAnswers("reset2") = 0
      /\ AuxAnswers("set_f0") = 2 /\ AuxAnswers("set_01") = 2
      /\ AuxAnswers("poll") = 2 /\ AuxAnswers("idle") = 2 /\ AuxAnswers("failed") = 2
  BY DEF AuxAnswers, Over
<1>c. /\ \A s \in {"reset1", "reset2", "set_f0", "set_01", "poll", "idle", "failed"} :
            Answers(s) \in 0..4 /\ AuxAnswers(s) \in 0..2
      /\ \A s \in {"reset1", "reset2", "set_f0", "set_01"}, u \in {"idle", "failed"} :
            Answers(s) <= Answers(u) /\ AuxAnswers(s) <= AuxAnswers(u)
      /\ 1 \in Nat /\ 2 \in Nat
  BY <1>a, <1>b
<1>1. CASE SendPort("reset1", "reset2", "failed", FALSE, 2)
  <2>1. /\ Answers("reset1") + (IF FALSE THEN 0 ELSE 2) <= Answers("reset2")
        /\ AuxAnswers("reset1") + (IF FALSE THEN 2 ELSE 0) <= AuxAnswers("reset2")
    BY <1>a, <1>b
  <2> QED
    BY <1>s, <1>c, <1>1, <2>1, SendPortTypes, Zenon
<1>2. CASE SendPort("reset2", "set_f0", "failed", TRUE, 2)
  <2>1. /\ Answers("reset2") + (IF TRUE THEN 0 ELSE 2) <= Answers("set_f0")
        /\ AuxAnswers("reset2") + (IF TRUE THEN 2 ELSE 0) <= AuxAnswers("set_f0")
    BY <1>a, <1>b
  <2> QED
    BY <1>s, <1>c, <1>2, <2>1, SendPortTypes, Zenon
<1>3. CASE Main("reset2", "set_f0") /\ Quiet /\ UNCHANGED <<tries, probe, dual, config>>
  BY <1>3, <1>s, <1>a, <1>b, KeyboardAssumption
     DEF Main, Quiet, dispatch, TypeInv, TypeOK, DispatchTypeOK
<1>4. CASE SendPort("set_f0", "set_01", "idle", FALSE, 1)
  <2>1. /\ Answers("set_f0") + (IF FALSE THEN 0 ELSE 1) <= Answers("set_01")
        /\ AuxAnswers("set_f0") + (IF FALSE THEN 1 ELSE 0) <= AuxAnswers("set_01")
    BY <1>a, <1>b
  <2> QED
    BY <1>s, <1>c, <1>4, <2>1, SendPortTypes, Zenon
<1>5. CASE SendPort("set_01", "poll", "idle", FALSE, 1)
  <2>1. /\ Answers("set_01") + (IF FALSE THEN 0 ELSE 1) <= Answers("poll")
        /\ AuxAnswers("set_01") + (IF FALSE THEN 1 ELSE 0) <= AuxAnswers("poll")
    BY <1>a, <1>b
  <2> QED
    BY <1>s, <1>c, <1>5, <2>1, SendPortTypes, Zenon
<1> QED
  BY <1>1, <1>2, <1>3, <1>4, <1>5 DEF ResetDevices, SetScancode

(* The steps of main keep the kinds of the controller's state.             *)
LEMMA BootTypes ==
    ASSUME TypeInv, BootStep
    PROVE  TypeInv'
<1> USE KeyboardAssumption
<1> USE DEF TypeInv, TypeOK, DispatchTypeOK, Answers, AuxAnswers, Stage, Over,
            Main, dispatch, ps2
<1>a. ASSUME NEW from \in Stage, Hang(from) PROVE TypeInv'
  BY <1>a DEF Hang, Quiet
<1>1. CASE A20Disable \/ A20Enable
  BY <1>1, <1>a DEF A20Disable, A20Enable, Quiet
<1>2. CASE A20Read
  BY <1>2, <1>a, RaisedByFacts DEF A20Read, Ask, Raise
<1>3. CASE A20Write
  BY <1>3, <1>a DEF A20Write, Quiet
<1>4. CASE Install
  BY <1>4 DEF Install, IsrInstall, PicRemap
<1>5. CASE InitTimer \/ RegisterKeyboard
  BY <1>5 DEF InitTimer, RegisterKeyboard, RegisterInterruptHandler,
              Registered, Line
<1>6. CASE DisablePorts
  BY <1>6 DEF DisablePorts, Quiet
<1>7. CASE Flush \/ PollScancode
  BY <1>7 DEF Flush, PollScancode, ReadPort
<1>8. CASE DisableConfig
  BY <1>8, RaisedByFacts DEF DisableConfig, Ask, Raise
<1>9. CASE SelfTest
  BY <1>9, RaisedByFacts DEF SelfTest, Raise
<1>10. CASE ProbeStart
  BY <1>10 DEF ProbeStart, Quiet
<1>11. CASE ProbeEnd
  BY <1>11, RaisedByFacts DEF ProbeEnd, Ask, Raise
<1>12. CASE TestPorts
  BY <1>12, RaisedByFacts DEF TestPorts, Ask, Raise
<1>13. CASE EnablePorts
  BY <1>13 DEF EnablePorts, Quiet
<1>14. CASE EnableConfig
  BY <1>14, RaisedByFacts DEF EnableConfig, Raise
<1>15. CASE ResetDevices \/ SetScancode
  BY <1>15, CommandTypes
<1> HIDE DEF TypeInv, Main
<1> QED
  BY <1>1, <1>2, <1>3, <1>4, <1>5, <1>6, <1>7, <1>8, <1>9, <1>10, <1>11,
     <1>12, <1>13, <1>14, <1>15 DEF BootStep

(* At power-on no key has been pressed and nothing has been asked for.     *)
LEMMA TypeInvInit == Init => TypeInv
<1> USE KeyboardAssumption
<1> SUFFICES ASSUME Init PROVE TypeInv
  OBVIOUS
<1>1. DispatchTypeOK
  BY DEF Init, DispatchInit, DispatchTypeOK, Line, NoIrq
<1>2. pc \in Stage /\ Answers(pc) = 0 /\ AuxAnswers(pc) = 0
  BY DEF Init, Stage, Over, Answers, AuxAnswers
<1>3. config \in [irq1 : BOOLEAN, irq2 : BOOLEAN, off1 : BOOLEAN, off2 : BOOLEAN]
  BY DEF Init
<1>4. /\ {probe, dual} \subseteq BOOLEAN
      /\ corrupt \in BOOLEAN /\ timedOut \in BOOLEAN /\ has2 \in BOOLEAN
      /\ out \in {"empty", "key", "aux", "ctl"}
  BY Zenon DEF Init
<1>5. TypeOK
  BY <1>1, <1>2, <1>3, <1>4 DEF Init, TypeOK
<1> QED
  BY <1>2, <1>4, <1>5 DEF Init, TypeInv

(* Every step of main, of the devices and of the interrupts keeps TypeInv. *)
LEMMA TypeInvStep == TypeInv /\ [Next]_vars => TypeInv'
<1> SUFFICES ASSUME TypeInv, [Next]_vars PROVE TypeInv'
  OBVIOUS
<1>1. CASE UNCHANGED vars
  BY <1>1 DEF vars, dispatch, boot, ps2, TypeInv, TypeOK, DispatchTypeOK,
              Answers, AuxAnswers
<1>2. 0 \in Line /\ TRUE \in BOOLEAN /\ "key" \in {"key", "aux"}
  BY DEF Line
<1> QED
  BY <1>1, <1>2, InterruptTypes, DeviceTypes, BootTypes DEF Next

(* The controllers, main and the PS/2 controller stay in states of their   *)
(* kinds; in particular the devices never have more bytes to deliver than  *)
(* were typed and asked for.                                               *)
THEOREM TypeCorrect == Spec => []TypeOK
<1>1. TypeInv => TypeOK
  BY DEF TypeInv
<1> QED
  BY <1>1, TypeInvInit, TypeInvStep, PTL DEF Spec

-----------------------------------------------------------------------------
(* The controllers hold in service exactly the line whose stub runs.       *)

ServiceInv == inService = IF irq \in Line THEN Served(irq) ELSE {}

(* main touches the controllers in isr_install only.                       *)
LEMMA BootService ==
    ASSUME BootStep
    PROVE  irq' = irq /\ irq = NoIrq /\ (inService' = inService \/ inService' = {})
<1> USE DEF Main, dispatch
<1>1. CASE A20Disable \/ A20Read \/ A20Write \/ A20Enable
  BY <1>1 DEF A20Disable, A20Read, A20Write, A20Enable, Hang, Quiet, Ask
<1>2. CASE Install \/ InitTimer \/ RegisterKeyboard
  BY <1>2 DEF Install, IsrInstall, PicRemap, InitTimer, RegisterKeyboard,
              RegisterInterruptHandler
<1>3. CASE DisablePorts \/ ProbeStart \/ EnablePorts
  BY <1>3 DEF DisablePorts, ProbeStart, EnablePorts, Quiet
<1>4. CASE Flush \/ PollScancode
  BY <1>4 DEF Flush, PollScancode, ReadPort
<1>5. CASE DisableConfig \/ ProbeEnd \/ TestPorts
  BY <1>5 DEF DisableConfig, ProbeEnd, TestPorts, Ask
<1>6. CASE SelfTest \/ EnableConfig
  BY <1>6 DEF SelfTest, EnableConfig
<1>7. CASE ResetDevices \/ SetScancode
  BY <1>7 DEF ResetDevices, SetScancode, SendPort, Quiet
<1> HIDE DEF Main
<1> QED
  BY <1>1, <1>2, <1>3, <1>4, <1>5, <1>6, <1>7 DEF BootStep

(* An interrupt is taken when nothing is in service, since the flag is off *)
(* in a stub, and its end-of-interrupt finds its own line only.            *)
LEMMA ServiceStep == ServiceInv /\ [Next]_vars => ServiceInv'
<1> SUFFICES ASSUME ServiceInv, [Next]_vars PROVE ServiceInv'
  OBVIOUS
<1>n. NoIrq \notin Line /\ SyscallVector \notin Line
  BY DEF NoIrq, SyscallVector, Line
<1>1. CASE UNCHANGED <<irq, inService>>
  BY <1>1 DEF ServiceInv
<1>2. CASE BootStep
  BY <1>2, <1>n, BootService DEF ServiceInv
<1>3. ASSUME NEW l \in Line, Take(l) PROVE ServiceInv'
  BY <1>3, <1>n DEF Take, TakeIrq, ServiceInv
<1>4. ASSUME NEW l \in Line, NEW switched \in BOOLEAN, Serve(l, switched)
      PROVE  ServiceInv'
  <2>1. irq = l /\ inService' = AfterEoi(VectorOf(l), switched) /\ irq' = NoIrq
    BY <1>4 DEF Serve, IrqHandler
  <2>2. inService = Served(l)
    BY <2>1 DEF ServiceInv
  <2> QED
    BY <1>n, <2>1, <2>2, EoiFacts DEF ServiceInv
<1>5. CASE SystemCall \/ EndSystemCall
  BY <1>5, <1>n DEF SystemCall, EndSystemCall, Int80, IsrHandler, ServiceInv
<1>6. CASE KeyPress \/ Tick \/ \E byte \in {"key", "aux"} : Deliver(byte)
  BY <1>1, <1>6 DEF KeyPress, Tick, Deliver, dispatch
<1>7. CASE SleepAgain \/ InitialiseSyscalls
  BY <1>1, <1>7 DEF SleepAgain, InitialiseSyscalls, Unmask, RegisterInterruptHandler
<1>8. CASE UNCHANGED vars
  BY <1>1, <1>8 DEF vars, dispatch
<1> QED
  BY <1>2, <1>3, <1>4, <1>5, <1>6, <1>7, <1>8 DEF Next

(* However handlers switch tasks and whatever arrives during the boot, no  *)
(* line stays in service outside of the stubs: no interrupt is ever locked *)
(* out by an acknowledgement that did not come.                            *)
THEOREM LinesReleased == Spec => []NothingLeftInService
<1>1. Init => ServiceInv
  BY DEF Init, DispatchInit, ServiceInv, NoIrq, Line
<1>2. ServiceInv => NothingLeftInService
  BY DEF ServiceInv, NothingLeftInService
<1> QED
  BY <1>1, <1>2, ServiceStep, PTL DEF Spec

-----------------------------------------------------------------------------
(* What init_keyboard has achieved by the stage it is at.                  *)

Registered1 == {"reset1", "reset2", "set_f0", "set_01", "poll", "idle"}

AliveInv ==
    /\ pc \in {"enable2", "enable"} => ~config.off1
    /\ pc \in Registered1 \cup {"register"} /\ ~corrupt => config.irq1 /\ ~config.off1
    /\ pc \in Registered1 => VectorOf(1) \in handlers
    /\ pc = "idle" /\ ~corrupt /\ ~timedOut /\ out \in {"key", "ctl"}
          => 1 \in irr \/ irq = 1

(* main: the port is enabled before the interrupt is, the handler is there *)
(* before the commands are, and the poll empties the output buffer.        *)
LEMMA BootAlive ==
    ASSUME TypeInv, AliveInv, BootStep
    PROVE  AliveInv'
<1> USE DEF AliveInv, Registered1, Main, dispatch
<1>t. config \in [irq1 : BOOLEAN, irq2 : BOOLEAN, off1 : BOOLEAN, off2 : BOOLEAN]
  BY DEF TypeInv, TypeOK
<1>a. ASSUME pc' \notin Registered1 \cup {"enable2", "enable", "register"}
      PROVE  AliveInv'
  BY <1>a
<1>1. CASE A20Disable \/ A20Read \/ A20Write \/ A20Enable
  BY <1>1, <1>a DEF A20Disable, A20Read, A20Write, A20Enable, Hang
<1>2. CASE Install \/ InitTimer
  BY <1>2, <1>a DEF Install, InitTimer
<1>3. CASE DisablePorts \/ ProbeStart \/ Flush
  BY <1>3, <1>a DEF DisablePorts, ProbeStart, Flush
<1>4. CASE DisableConfig \/ ProbeEnd \/ TestPorts \/ SelfTest
  BY <1>4, <1>a DEF DisableConfig, ProbeEnd, TestPorts, SelfTest
<1>5. CASE EnablePorts
  BY <1>5, <1>t DEF EnablePorts
<1>6. CASE EnableConfig
  BY <1>6, <1>t DEF EnableConfig
<1>7. CASE RegisterKeyboard
  BY <1>7 DEF RegisterKeyboard, RegisterInterruptHandler, Registered, ps2
<1>8. ASSUME NEW from \in Registered1 \ {"idle"}, NEW to \in Registered1 \ {"idle"},
             NEW onFailure \in {"idle", "failed"}, NEW toAux, NEW answers,
             SendPort(from, to, onFailure, toAux, answers)
      PROVE  AliveInv'
  BY <1>8 DEF SendPort
<1>9. CASE Main("reset2", "set_f0") /\ Quiet /\ UNCHANGED <<tries, probe, dual, config>>
  BY <1>9 DEF Quiet
<1>10. CASE ResetDevices \/ SetScancode
  BY <1>8, <1>9, <1>10 DEF ResetDevices, SetScancode
<1>11. CASE PollScancode
  BY <1>11 DEF PollScancode, ReadPort
<1> HIDE DEF AliveInv, Main
<1> QED
  BY <1>1, <1>2, <1>3, <1>4, <1>5, <1>6, <1>7, <1>10, <1>11 DEF BootStep

(* Afterwards: a byte that arrives asks for the handler, which reads it.   *)
LEMMA AliveStep == TypeInv /\ AliveInv /\ [Next]_vars => AliveInv'
<1> SUFFICES ASSUME TypeInv, AliveInv, [Next]_vars PROVE AliveInv'
  OBVIOUS
<1> USE DEF AliveInv, Registered1, boot, ps2, dispatch
<1>n. NoIrq # 1 /\ SyscallVector # 1
  BY DEF NoIrq, SyscallVector
<1>1. CASE UNCHANGED vars
  BY <1>1 DEF vars
<1>2. ASSUME NEW l \in Line, Take(l) PROVE AliveInv'
  BY <1>2, <1>n DEF Take, TakeIrq
<1>3. ASSUME NEW l \in Line, NEW switched \in BOOLEAN, Serve(l, switched)
      PROVE  AliveInv'
  BY <1>3 DEF Serve, IrqHandler, ReadByKeyboardCallback
<1>4. CASE SystemCall \/ EndSystemCall
  BY <1>4, <1>n DEF SystemCall, EndSystemCall, Int80, IsrHandler
<1>5. CASE KeyPress \/ Tick
  BY <1>5 DEF KeyPress, Tick, Raise
<1>6. ASSUME NEW byte \in {"key", "aux"}, Deliver(byte) PROVE AliveInv'
  BY <1>6, RaisedByFacts DEF Deliver, Raise
<1>7. CASE SleepAgain \/ InitialiseSyscalls
  BY <1>7 DEF SleepAgain, InitialiseSyscalls, Unmask, RegisterInterruptHandler,
              Registered
<1> HIDE DEF AliveInv
<1> QED
  BY <1>1, <1>2, <1>3, <1>4, <1>5, <1>6, <1>7, BootAlive DEF Next

(* Bytes come from a second port only if init_keyboard found it.           *)
AuxInv == out = "aux" \/ auxq > 0 => dual

(* Only the reset of a second port that was found makes it answer.         *)
LEMMA AuxStep == TypeInv /\ AuxInv /\ [Next]_vars => AuxInv'
<1> SUFFICES ASSUME TypeInv, AuxInv, [Next]_vars PROVE AuxInv'
  OBVIOUS
<1> USE DEF AuxInv, boot, ps2
<1>t. auxq \in Nat /\ auxq <= AuxAnswers(pc)
  BY DEF TypeInv, TypeOK
<1>1. CASE UNCHANGED vars
  BY <1>1 DEF vars
<1>2. ASSUME NEW l \in Line, Take(l) PROVE AuxInv'
  BY <1>2 DEF Take
<1>3. ASSUME NEW l \in Line, NEW switched \in BOOLEAN, Serve(l, switched)
      PROVE  AuxInv'
  BY <1>3 DEF Serve, ReadByKeyboardCallback
<1>4. CASE \/ SystemCall \/ EndSystemCall \/ SleepAgain \/ InitialiseSyscalls
           \/ KeyPress \/ Tick
  BY <1>4 DEF SystemCall, EndSystemCall, SleepAgain, InitialiseSyscalls, KeyPress, Tick
<1>5. ASSUME NEW byte \in {"key", "aux"}, Deliver(byte) PROVE AuxInv'
  BY <1>5, <1>t DEF Deliver
<1>6. CASE A20Disable \/ A20Write \/ A20Enable \/ Install \/ InitTimer
  BY <1>6 DEF A20Disable, A20Write, A20Enable, Install, InitTimer, Hang, Quiet
<1>7. CASE A20Read \/ DisableConfig \/ TestPorts \/ SelfTest
  BY <1>7 DEF A20Read, DisableConfig, TestPorts, SelfTest, Ask, Hang, Quiet
<1>8. CASE DisablePorts \/ ProbeStart \/ Flush \/ EnablePorts \/ PollScancode
  BY <1>8 DEF DisablePorts, ProbeStart, Flush, EnablePorts, PollScancode, ReadPort, Quiet
<1>9. CASE ProbeEnd
  <2>1. auxq = 0
    BY <1>9, <1>t DEF ProbeEnd, Main, AuxAnswers, Over
  <2> QED
    BY <1>9, <2>1 DEF ProbeEnd, Ask
<1>10. CASE EnableConfig \/ RegisterKeyboard
  BY <1>10 DEF EnableConfig, RegisterKeyboard
<1>11. ASSUME NEW from, NEW to, NEW onFailure, NEW toAux \in BOOLEAN, NEW answers,
              toAux => dual, SendPort(from, to, onFailure, toAux, answers)
       PROVE  AuxInv'
  BY <1>11 DEF SendPort
<1>12. CASE ResetDevices \/ SetScancode
  BY <1>11, <1>12 DEF ResetDevices, SetScancode, Quiet
<1> HIDE DEF AuxInv
<1> QED
  BY <1>1, <1>2, <1>3, <1>4, <1>5, <1>6, <1>7, <1>8, <1>9, <1>10, <1>12
     DEF Next, BootStep

(***************************************************************************)
(* Whenever keys and interrupts arrive during the boot, a keyboard that    *)
(* init_keyboard reports to work is on, and has neither a byte of its own  *)
(* nor a reply of the controller stuck in the output buffer, nor, unless a *)
(* second port was found, any other byte; except if a send_port gave up or *)
(* a byte passed for the configuration.                                    *)
(***************************************************************************)
THEOREM KeyboardStaysAlive == Spec => []KeyboardAlive
<1>1. Init => TypeInv /\ AliveInv /\ AuxInv
  BY TypeInvInit DEF Init, AliveInv, Registered1, AuxInv
<1>2. TypeInv /\ AliveInv /\ AuxInv /\ [Next]_vars => (TypeInv /\ AliveInv /\ AuxInv)'
  BY TypeInvStep, AliveStep, AuxStep
<1>3. TypeInv /\ AliveInv /\ AuxInv => KeyboardAlive
  BY DEF AliveInv, AuxInv, KeyboardAlive, Registered1
<1> QED
  BY <1>1, <1>2, <1>3, PTL DEF Spec
=============================================================================
