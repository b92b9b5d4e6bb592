-------------------------- MODULE HwSessionProofs ---------------------------
(***************************************************************************)
(* Type correctness and the safety of the interrupt forwarding of          *)
(* HwSession, for every set of lines, models and other vectors.            *)
(***************************************************************************)
EXTENDS HwSession, SequenceTheorems, TLAPS

\* Each forwarded vector has at most one session-backed model, and what QEMU
\* raises by itself concerns none of them.  The fan-out run shows that the
\* first half is needed.
SoleOwner ==
  /\ \A v \in Vectors : \A m, n \in Owners(v) : m = n
  /\ \A v \in Others : Owners(v) = {} /\ \A l \in Forwardable : v # Vector(l)

\* Connecting to the board does not leave a line number in r0.
ConnectQuiet == \A r \in ConnectR0 : ~InRange(r)

\* A halt is a monitor halt, or the one of connecting.
HaltInv ==
  halted =>
    \/ frames = <<>> /\ ~InRange(r0)
    \/ frames # <<>> /\ Top.at = "bkpt" /\ Top.line = r0

\* The poll thread raises what it captured.
RaiseInv == poll = "raise" => firing_line # 0 /\ firing_line = irq_pending

\* Exit hooks run for a vector that has owners, and none was called yet.
ServeInv == cpu = "serve" => exiting \in Vectors /\ todo = Owners(exiting)

\* No element of the stack s occurs twice.
Distinct(s) == \A i, j \in 1 .. Len(s) : s[i] = s[j] => i = j

\* An exception is not active twice.
NoReentry == Distinct(active)

IInv ==
  /\ TypeOK /\ HaltInv /\ RaiseInv /\ ServeInv /\ NoReentry
  /\ PendingIsHalted /\ OneAtATime

-----------------------------------------------------------------------------
(* Stacks, as the active exceptions and the board's handlers are.          *)

\* What pushing does to the content of a stack.
LEMMA PushStack ==
  ASSUME NEW S, NEW s \in Seq(S), NEW e \in S
  PROVE  /\ Append(s, e) \in Seq(S)
         /\ Append(s, e) # <<>>
         /\ Last(Append(s, e)) = e
         /\ \A x : Contains(Append(s, e), x) <=> Contains(s, x) \/ x = e
         /\ Distinct(s) /\ ~ Contains(s, e) => Distinct(Append(s, e))
<1> DEFINE t == Append(s, e)
<1>1. /\ t \in Seq(S) /\ Len(t) = Len(s) + 1 /\ Len(s) \in Nat
      /\ \A i \in 1 .. Len(s) : t[i] = s[i]
      /\ t[Len(s) + 1] = e
  BY AppendProperties, LenProperties
<1>2. t # <<>> /\ Last(t) = e
  BY <1>1 DEF Last
<1>3. ASSUME NEW x PROVE Contains(t, x) <=> Contains(s, x) \/ x = e
  BY <1>1 DEF Contains
<1>4. Distinct(s) /\ ~ Contains(s, e) => Distinct(t)
  BY <1>1 DEF Distinct, Contains
<1> QED
  BY <1>1, <1>2, <1>3, <1>4

\* What is left of a stack when its top is taken off.
LEMMA FrontAt ==
  ASSUME NEW S, NEW s \in Seq(S), s # <<>>
  PROVE  /\ Len(s) \in Nat \ {0} /\ \A i \in 1 .. Len(s) : s[i] \in S
         /\ Front(s) \in Seq(S) /\ Len(Front(s)) = Len(s) - 1
         /\ \A i \in 1 .. Len(s) - 1 : Front(s)[i] = s[i]
<1>1. /\ Len(s) \in Nat \ {0}
      /\ \A i \in 1 .. Len(s) : s[i] \in S
  BY LenProperties, EmptySeq, ElementOfSeq
<1>2. \A i \in 1 .. Len(s) - 1 : s[i] \in S
  BY <1>1
<1> DEFINE t == Front(s)
           n == Len(s) - 1
<1>3. n \in Int /\ 1 \in Int /\ n - 1 + 1 = n /\ \A i \in 1 .. n : 1 + i - 1 = i
  BY <1>1
<1>4. t = SubSeq(s, 1, n)
  BY DEF Front
<1> HIDE DEF t, n
<1>5. /\ SubSeq(s, 1, n) \in Seq(S)
      /\ Len(SubSeq(s, 1, n)) = IF 1 <= n THEN n - 1 + 1 ELSE 0
      /\ \A i \in 1 .. n - 1 + 1 : SubSeq(s, 1, n)[i] = s[1 + i - 1]
  <2>1. \A i \in 1 .. n : s[i] \in S
    BY <1>2 DEF n
  <2> QED
    BY <1>3, <2>1, SubSeqProperties
<1>6. n >= 0
  BY <1>1 DEF n
<1> QED
  BY <1>1, <1>3, <1>4, <1>5, <1>6 DEF n, t

\* What popping does to the content of a stack.
LEMMA PopStack ==
  ASSUME NEW S, NEW s \in Seq(S), s # <<>>
  PROVE  /\ Front(s) \in Seq(S)
         /\ Last(s) \in S
         /\ \A x : Contains(Front(s), x) => Contains(s, x)
         /\ \A x : Contains(s, x) => Contains(Front(s), x) \/ x = Last(s)
         /\ Contains(s, Last(s))
         /\ Distinct(s) => Distinct(Front(s))
         /\ Distinct(s) => ~ Contains(Front(s), Last(s))
<1> DEFINE t == Front(s)
<1>1. /\ Len(s) \in Nat \ {0}
      /\ \A i \in 1 .. Len(s) : s[i] \in S
  BY FrontAt
<1>2. /\ t \in Seq(S) /\ Len(t) = Len(s) - 1
      /\ \A i \in 1 .. Len(s) - 1 : t[i] = s[i]
  BY FrontAt
<1>3. Last(s) \in S
  BY <1>1 DEF Last
<1>4. ASSUME NEW x PROVE Contains(t, x) => Contains(s, x)
  BY <1>1, <1>2 DEF Contains
<1>5. Contains(s, Last(s))
  BY <1>1 DEF Contains, Last
<1>6. Distinct(s) => Distinct(t)
  BY <1>1, <1>2 DEF Distinct
<1>7. Distinct(s) => ~ Contains(t, Last(s))
  BY <1>1, <1>2 DEF Distinct, Contains, Last
<1>8. ASSUME NEW x PROVE Contains(s, x) => Contains(t, x) \/ x = Last(s)
  <2>1. \A i \in 1 .. Len(s) : i = Len(s) \/ i \in 1 .. Len(s) - 1
    BY <1>1
  <2> QED
    BY <1>2, <2>1 DEF Contains, Last
<1> QED
  BY <1>2, <1>3, <1>4, <1>5, <1>6, <1>7, <1>8

\* Moving the innermost handler of the board to another instruction.
LEMMA MoveTopType ==
  ASSUME frames \in Seq(Frame), frames # <<>>, NEW at \in {"mov", "bkpt", "cmp"}
  PROVE  /\ MoveTop(at) \in Seq(Frame)
         /\ MoveTop(at) # <<>>
         /\ Last(MoveTop(at)).at = at
         /\ Last(MoveTop(at)).line = Top.line
         /\ Top \in Frame
<1>1. /\ Front(frames) \in Seq(Frame)
      /\ Top \in Frame
  BY PopStack DEF Top
<1>2. [Top EXCEPT !.at = at] \in Frame
  BY <1>1 DEF Frame
<1> QED
  BY <1>1, <1>2, PushStack DEF MoveTop, Frame

-----------------------------------------------------------------------------
(* Type correctness.                                                       *)

\* A forwardable line has a vector of its own, and is not the mark for none.
LEMMA VectorsType == \A l \in Forwardable : Vector(l) \in Vectors /\ l # 0
  BY DEF Vectors, Forwardable, InRange, IRQ_FIRING_LINE_MIN, IRQ_FIRING_LINE_MAX

\* The initial states have the types.
LEMMA InitType == Init => TypeOK
  BY AttemptsAssumption, EmptySeq DEF Init, TypeOK, NoLine

\* Resuming the board keeps its types.
LEMMA ResumeType ==
  ASSUME TypeOK, Resume
  PROVE  frames' \in Seq(Frame) /\ halted' \in BOOLEAN
  BY MoveTopType DEF TypeOK, Resume

\* A step of the board keeps the types.
LEMMA BoardType == ASSUME TypeOK, Board PROVE TypeOK'
<1> USE DEF TypeOK, board, session, qemu
<1>1. ASSUME NEW l \in Lines, BoardEnter(l) PROVE TypeOK'
  <2>1. PICK r \in Lines \cup {NoLine} :
          r1' = r /\ frames' = Append(frames, [line |-> l, at |-> "mov", saved |-> r])
    BY <1>1 DEF BoardEnter
  <2>2. [line |-> l, at |-> "mov", saved |-> r] \in Frame
    BY DEF Frame
  <2>3. frames' \in Seq(Frame)
    BY <2>1, <2>2, PushStack
  <2> QED
    BY <1>1, <2>1, <2>3 DEF BoardEnter
<1>2. ASSUME NEW l \in Lines, BoardBreak(l) PROVE TypeOK'
  <2>1. frames' \in Seq(Frame)
    BY <1>2, MoveTopType DEF BoardBreak
  <2> QED
    BY <1>2, <2>1 DEF BoardBreak
<1>3. ASSUME NEW l \in Lines, BoardCompare(l) PROVE TypeOK'
  <2>1. Front(frames) \in Seq(Frame) /\ MoveTop("mov") \in Seq(Frame) /\ Top \in Frame
    BY <1>3, MoveTopType, PopStack DEF BoardCompare
  <2>2. frames' \in Seq(Frame) /\ r1' \in Lines \cup {NoLine}
    BY <1>3, <2>1 DEF BoardCompare, Frame
  <2> QED
    BY <1>3, <2>2 DEF BoardCompare
<1> QED
  BY <1>1, <1>2, <1>3 DEF Board

\* A step of the poll thread keeps the types.
LEMMA PollType == ASSUME TypeOK, ConnectQuiet, HaltInv, RaiseInv, Poll PROVE TypeOK'
<1> USE DEF TypeOK, board, session, qemu
<1>1. CASE PollCapture
  <2>1. r0 \in Forwardable
    BY <1>1 DEF PollCapture, NothingPending, ConnectQuiet, Forwardable
  <2> QED
    BY <1>1, <2>1 DEF PollCapture, NothingPending
<1>2. CASE PollSpurious
  BY <1>2, ResumeType DEF PollSpurious, NothingPending
<1>3. CASE PollRaise
  <2>1. Vector(firing_line) \in Vectors
    BY <1>3, VectorsType DEF PollRaise, RaiseIrq, RaiseInv
  <2> QED
    BY <1>3, <2>1 DEF PollRaise, RaiseIrq
<1> QED
  BY <1>1, <1>2, <1>3 DEF Poll

\* A step of the emulated CPU keeps the types.
LEMMA CpuType == ASSUME TypeOK, Cpu PROVE TypeOK'
<1> USE DEF TypeOK, board, session, qemu
<1>1. ASSUME NEW v \in Others, OtherRaise(v) PROVE TypeOK'
  BY <1>1 DEF OtherRaise, Vectors
<1>2. ASSUME NEW v \in Vectors, TakeIrq(v) PROVE TypeOK'
  <2>1. active' \in Seq(Vectors)
    BY <1>2, PushStack DEF TakeIrq
  <2> QED
    BY <1>2, <2>1 DEF TakeIrq
<1>3. ASSUME NEW v \in Vectors, ReturnIrq(v) PROVE TypeOK'
  <2>1. active' \in Seq(Vectors)
    BY <1>3, PopStack DEF ReturnIrq
  <2>2. Owners(v) \subseteq Models
    BY DEF Owners
  <2> QED
    BY <1>3, <2>1, <2>2 DEF ReturnIrq
<1>4. ASSUME NEW m \in Models, Serve(m) PROVE TypeOK'
  <2>1. CASE irq_pending = 0
    BY <1>4, <2>1 DEF Serve
  <2>2. CASE irq_pending # 0
    <3>1. r1' \in Lines \cup {NoLine}
      BY <1>4, <2>2 DEF Serve, AnswerR1, Forwardable
    <3> QED
      BY <1>4, <2>2, <3>1, ResumeType DEF Serve, ClearPending
  <2> QED
    BY <2>1, <2>2
<1>5. CASE AccessStart
  BY <1>5 DEF AccessStart
<1>6. CASE AccessDone
  BY <1>6, AttemptsAssumption DEF AccessDone
<1>7. CASE AccessFail
  BY <1>7, AttemptsAssumption DEF AccessFail
<1> QED
  BY <1>1, <1>2, <1>3, <1>4, <1>5, <1>6, <1>7 DEF Cpu

\* So does a step that changes nothing.
LEMMA StutterType == ASSUME TypeOK, UNCHANGED vars PROVE TypeOK'
  BY DEF TypeOK, vars, board, session, qemu

-----------------------------------------------------------------------------
(* The inductive invariant.                                                *)

\* Steps that leave the session and QEMU alone keep what IInv says of them.
LEMMA QemuUntouched ==
  ASSUME OneAtATime, RaiseInv, ServeInv, NoReentry, UNCHANGED <<session, qemu>>
  PROVE  OneAtATime' /\ RaiseInv' /\ ServeInv' /\ NoReentry'
<1> USE DEF session, qemu, Raising, Queued, Running, Serving
<1>1. OneAtATime'
  BY DEF OneAtATime
<1>2. RaiseInv' /\ ServeInv' /\ NoReentry'
  BY DEF RaiseInv, ServeInv, NoReentry, Distinct
<1> QED
  BY <1>1, <1>2

\* The board moves only when it is not halted, hence when nothing is captured.
LEMMA BoardSafe == ASSUME IInv, Board PROVE IInv'
<1> USE DEF IInv
<1>1. TypeOK'
  BY BoardType
<1>2. UNCHANGED <<session, qemu>> /\ ~halted
  BY DEF Board, BoardEnter, BoardBreak, BoardCompare
<1>3. OneAtATime' /\ RaiseInv' /\ ServeInv' /\ NoReentry'
  BY <1>2, QemuUntouched
<1>4. PendingIsHalted'
  BY <1>2 DEF PendingIsHalted, session
<1>5. HaltInv'
  <2>1. ASSUME NEW l \in Lines, BoardEnter(l) PROVE HaltInv'
    BY <2>1 DEF BoardEnter, HaltInv
  <2>2. ASSUME NEW l \in Lines, BoardBreak(l) PROVE HaltInv'
    <3>1. frames' # <<>> /\ Last(frames').at = "bkpt" /\ Last(frames').line = l
      BY <2>2, MoveTopType DEF BoardBreak, TypeOK
    <3> QED
      BY <2>2, <3>1 DEF BoardBreak, HaltInv, Top
  <2>3. ASSUME NEW l \in Lines, BoardCompare(l) PROVE HaltInv'
    BY <2>3 DEF BoardCompare, HaltInv
  <2> QED
    BY <2>1, <2>2, <2>3 DEF Board
<1> QED
  BY <1>1, <1>3, <1>4, <1>5

\* The poll thread captures only when nothing is captured, and raises only
\* what nobody in QEMU works on yet.
LEMMA PollSafe == ASSUME ConnectQuiet, IInv, Poll PROVE IInv'
<1> USE DEF IInv
<1>1. TypeOK'
  BY PollType
<1>2. CASE PollCapture
  <2>1. /\ UNCHANGED <<halted, r0, r1, frames>>
        /\ r0 # 0 /\ irq_pending' = r0 /\ firing_line' = r0 /\ irq_pending = 0
        /\ frames # <<>> /\ Top.at = "bkpt" /\ Top.line = r0 /\ halted
    BY <1>2 DEF PollCapture, NothingPending, HaltInv, InRange, IRQ_FIRING_LINE_MIN, board
  <2>2. HaltInv' /\ PendingIsHalted'
    BY <2>1 DEF HaltInv, PendingIsHalted, Top
  <2>3. RaiseInv' /\ ServeInv' /\ NoReentry'
    BY <1>2, <2>1 DEF PollCapture, RaiseInv, ServeInv, NoReentry, Distinct, qemu
  <2>4. \A l \in Forwardable : l # 0 /\ ~ Queued(l) /\ ~ Running(l) /\ ~ Serving(l)
    BY <2>1, VectorsType DEF OneAtATime
  <2>5. \A l \in Forwardable : ~ Queued(l)' /\ ~ Running(l)' /\ ~ Serving(l)'
    BY <1>2, <2>4 DEF PollCapture, NothingPending, qemu, Queued, Running, Serving
  <2>6. \A l \in Forwardable : Raising(l)' => irq_pending' = l
    BY <2>1 DEF Raising
  <2>7. OneAtATime'
    BY <2>5, <2>6 DEF OneAtATime
  <2> QED
    BY <1>1, <2>2, <2>3, <2>7
<1>3. CASE PollSpurious
  <2>1. UNCHANGED <<session, qemu>> /\ irq_pending = 0 /\ ~halted'
    BY <1>3 DEF PollSpurious, NothingPending, Resume
  <2>2. HaltInv' /\ PendingIsHalted'
    BY <2>1 DEF HaltInv, PendingIsHalted, session
  <2> QED
    BY <1>1, <2>1, <2>2, QemuUntouched
<1>4. CASE PollRaise
  <2>1. /\ UNCHANGED <<halted, r0, r1, frames, irq_pending, firing_line, active,
                       cpu, exiting, todo>>
        /\ poll' = "check" /\ nvic' = nvic \cup {Vector(firing_line)}
        /\ firing_line = irq_pending /\ firing_line \in Forwardable
    BY <1>4 DEF PollRaise, RaiseIrq, RaiseInv, board, TypeOK
  <2>2. HaltInv' /\ PendingIsHalted' /\ RaiseInv' /\ ServeInv' /\ NoReentry'
    BY <2>1 DEF HaltInv, PendingIsHalted, Top, RaiseInv, ServeInv, NoReentry, Distinct
  <2>3. \A l \in Forwardable : ~ Raising(l)' /\ (Running(l)' <=> Running(l))
                                /\ (Serving(l)' <=> Serving(l))
    BY <2>1 DEF Raising, Running, Serving
  <2>4. \A l \in Forwardable : Queued(l)' <=> Queued(l) \/ l = firing_line
    BY <2>1, LinesAssumption DEF Queued, Vector, Forwardable, IRQ_QEMU_VECTOR_BASE
  <2>5. Raising(firing_line)
    BY <1>4 DEF PollRaise, RaiseIrq, Raising
  <2>6. OneAtATime'
    BY <2>1, <2>3, <2>4, <2>5 DEF OneAtATime
  <2> QED
    BY <1>1, <2>2, <2>6
<1> QED
  BY <1>2, <1>3, <1>4 DEF Poll

\* Vectors of different lines differ, and a claimed vector is that of a line.
LEMMA VectorFacts ==
  /\ \A k, l \in Forwardable : Vector(k) = Vector(l) => k = l
  /\ SoleOwner => \A v \in Vectors : Owners(v) # {} =>
                     \E l \in Forwardable : v = Vector(l)
<1>1. \A k, l \in Forwardable : Vector(k) = Vector(l) => k = l
  BY LinesAssumption DEF Vector, Forwardable, IRQ_QEMU_VECTOR_BASE
<1>2. SoleOwner => \A v \in Vectors : Owners(v) # {} =>
                     \E l \in Forwardable : v = Vector(l)
  BY DEF SoleOwner, Vectors
<1> QED
  BY <1>1, <1>2

\* A serve handler runs for the vector of the captured line and is the only
\* one of it: after it the line has no business left in QEMU.
LEMMA ServeSafe ==
  ASSUME SoleOwner, IInv, NEW m \in Models, Serve(m)
  PROVE  IInv' /\ (irq_pending # 0 => exiting = Vector(irq_pending))
<1> USE DEF IInv
<1>1. TypeOK'
  BY CpuType DEF Cpu
<1>2. PICK l \in Forwardable : exiting = Vector(l) /\ Serving(l)
  BY VectorFacts DEF Serve, ServeInv, Serving
<1>3. irq_pending = l
  BY <1>2 DEF OneAtATime
<1>4. todo = {m}
  BY <1>2 DEF Serve, ServeInv, SoleOwner
<1>5. /\ irq_pending # 0 /\ irq_pending' = 0 /\ cpu' = "run" /\ ~halted'
      /\ UNCHANGED <<poll, firing_line, nvic, active>>
  BY <1>3, <1>4, VectorsType DEF Serve, ClearPending, Resume
<1>6. ~ Raising(l) /\ \A k \in Forwardable \ {l} :
        ~ Raising(k) /\ ~ Queued(k) /\ ~ Running(k) /\ ~ Serving(k)
  BY <1>2, <1>3 DEF OneAtATime
<1>7. ~ Queued(l) /\ ~ Running(l)
  BY <1>2 DEF OneAtATime
<1>8. \A k \in Forwardable :
        ~ Raising(k)' /\ ~ Queued(k)' /\ ~ Running(k)' /\ ~ Serving(k)'
  BY <1>5, <1>6, <1>7 DEF Raising, Queued, Running, Serving
<1>9. OneAtATime'
  BY <1>8 DEF OneAtATime
<1>10. poll # "raise"
  BY <1>3, <1>6 DEF RaiseInv, Raising
<1>11. HaltInv' /\ PendingIsHalted' /\ RaiseInv' /\ ServeInv' /\ NoReentry'
  BY <1>5, <1>10 DEF HaltInv, PendingIsHalted, RaiseInv, ServeInv, NoReentry, Distinct
<1> QED
  BY <1>1, <1>2, <1>3, <1>9, <1>11

\* The other steps of the emulated CPU move an interrupt from one place to the
\* next one.
LEMMA CpuSafe == ASSUME SoleOwner, IInv, Cpu PROVE IInv'
<1> USE DEF IInv
<1>1. TypeOK'
  BY CpuType
<1>2. ASSUME UNCHANGED <<board, session>>
      PROVE  HaltInv' /\ PendingIsHalted' /\ RaiseInv'
  BY <1>2 DEF board, session, HaltInv, PendingIsHalted, Top, RaiseInv
<1>3. ASSUME NEW v \in Others, OtherRaise(v) PROVE IInv'
  <2>1. \A l \in Forwardable : /\ Queued(l)' <=> Queued(l)
                               /\ Raising(l)' <=> Raising(l)
                               /\ Running(l)' <=> Running(l)
                               /\ Serving(l)' <=> Serving(l)
    BY <1>3 DEF OtherRaise, SoleOwner, Queued, Raising, Running, Serving, session
  <2>2. OneAtATime'
    BY <1>3, <2>1 DEF OtherRaise, OneAtATime, session
  <2>3. ServeInv' /\ NoReentry'
    BY <1>3 DEF OtherRaise, ServeInv, NoReentry, Distinct
  <2> QED
    BY <1>1, <1>2, <1>3, <2>2, <2>3 DEF OtherRaise
<1>4. ASSUME NEW v \in Vectors, TakeIrq(v) PROVE IInv'
  <2>1. /\ \A x : Contains(active', x) <=> Contains(active, x) \/ x = v
        /\ NoReentry'
    BY <1>4, PushStack DEF TakeIrq, TypeOK, NoReentry
  <2>2. \A l \in Forwardable : /\ Queued(l)' <=> Queued(l) /\ Vector(l) # v
                               /\ Running(l)' <=> Running(l) \/ Vector(l) = v
                               /\ Raising(l)' <=> Raising(l)
                               /\ Serving(l)' <=> Serving(l)
    BY <1>4, <2>1 DEF TakeIrq, Queued, Raising, Running, Serving, session
  <2>3. \A l \in Forwardable : Vector(l) = v => Queued(l)
    BY <1>4 DEF TakeIrq, Queued
  <2>4. OneAtATime'
    BY <1>4, <2>2, <2>3 DEF TakeIrq, OneAtATime, session
  <2>5. ServeInv'
    BY <1>4 DEF TakeIrq, ServeInv
  <2> QED
    BY <1>1, <1>2, <1>4, <2>1, <2>4, <2>5 DEF TakeIrq
<1>5. ASSUME NEW v \in Vectors, ReturnIrq(v) PROVE IInv'
  <2>1. /\ Contains(active, v)
        /\ \A x : Contains(active', x) => Contains(active, x)
        /\ ~ Contains(active', v)
        /\ NoReentry'
    BY <1>5, PopStack DEF ReturnIrq, TypeOK, NoReentry
  <2>2. \A l \in Forwardable : /\ Queued(l)' <=> Queued(l)
                               /\ Raising(l)' <=> Raising(l)
                               /\ Running(l)' => Running(l) /\ Vector(l) # v
    BY <1>5, <2>1 DEF ReturnIrq, Queued, Raising, Running, session
  <2>3. \A l \in Forwardable : Serving(l)' => Running(l) /\ Vector(l) = v
    BY <1>5, <2>1 DEF ReturnIrq, Serving, Running
  <2>4. OneAtATime'
    BY <1>5, <2>2, <2>3 DEF ReturnIrq, OneAtATime, session
  <2>5. ServeInv'
    BY <1>5 DEF ReturnIrq, ServeInv
  <2> QED
    BY <1>1, <1>2, <1>5, <2>1, <2>4, <2>5 DEF ReturnIrq
<1>6. ASSUME NEW m \in Models, Serve(m) PROVE IInv'
  BY <1>6, ServeSafe
<1>7. CASE AccessStart \/ AccessDone \/ AccessFail
  <2>1. UNCHANGED <<board, session, nvic, active>> /\ cpu # "serve" /\ cpu' # "serve"
    BY <1>7 DEF AccessStart, AccessDone, AccessFail
  <2>2. OneAtATime'
    BY <2>1 DEF OneAtATime, Raising, Queued, Running, Serving, session
  <2>3. ServeInv' /\ NoReentry'
    BY <2>1 DEF ServeInv, NoReentry, Distinct
  <2> QED
    BY <1>1, <1>2, <2>1, <2>2, <2>3
<1> QED
  BY <1>3, <1>4, <1>5, <1>6, <1>7 DEF Cpu

-----------------------------------------------------------------------------
(* The theorems.                                                           *)

\* The invariant holds when the session has been acquired.
LEMMA InitSafe == ASSUME ConnectQuiet, Init PROVE IInv
<1>1. TypeOK
  BY InitType
<1>2. \A v : ~ Contains(active, v)
  BY DEF Init, Contains
<1>3. OneAtATime
  BY <1>2 DEF Init, OneAtATime, Raising, Queued, Running, Serving
<1>4. HaltInv /\ RaiseInv /\ ServeInv /\ NoReentry /\ PendingIsHalted
  BY DEF Init, ConnectQuiet, HaltInv, RaiseInv, ServeInv, NoReentry, Distinct,
         PendingIsHalted
<1> QED
  BY <1>1, <1>3, <1>4 DEF IInv

\* Every step keeps the invariant.
LEMMA StepSafe == ASSUME SoleOwner, ConnectQuiet, IInv, [Next]_vars PROVE IInv'
<1>1. CASE Board
  BY <1>1, BoardSafe
<1>2. CASE Poll
  BY <1>2, PollSafe
<1>3. CASE Cpu
  BY <1>3, CpuSafe
<1>4. CASE UNCHANGED vars
  <2>1. UNCHANGED <<board, session, qemu>>
    BY <1>4 DEF vars
  <2>2. HaltInv' /\ PendingIsHalted'
    BY <2>1 DEF IInv, HaltInv, PendingIsHalted, Top, board, session
  <2> QED
    BY <1>4, <2>1, <2>2, StutterType, QemuUntouched DEF IInv
<1> QED
  BY <1>1, <1>2, <1>3, <1>4 DEF Next

\* Hence it always holds.
LEMMA Inductive == ASSUME SoleOwner, ConnectQuiet PROVE Spec => []IInv
<1>1. Init => IInv
  BY InitSafe
<1>2. IInv /\ [Next]_vars => IInv'
  BY StepSafe
<1> QED
  BY <1>1, <1>2, PTL DEF Spec

\* Every variable of the session, the board and QEMU keeps its range.
THEOREM TypeCorrect == ASSUME SoleOwner, ConnectQuiet PROVE Spec => []TypeOK
<1>1. IInv => TypeOK
  BY DEF IInv
<1> QED
  BY <1>1, Inductive, PTL

\* While the session holds a captured line, the board stands at the breakpoint
\* of that line's handler.
THEOREM CapturedBoardStands ==
  ASSUME SoleOwner, ConnectQuiet PROVE Spec => []PendingIsHalted
<1>1. IInv => PendingIsHalted
  BY DEF IInv
<1> QED
  BY <1>1, Inductive, PTL

\* Only the captured line is under way in QEMU, and in one place.
THEOREM OneInterruptAtATime ==
  ASSUME SoleOwner, ConnectQuiet PROVE Spec => []OneAtATime
<1>1. IInv => OneAtATime
  BY DEF IInv
<1> QED
  BY <1>1, Inductive, PTL

\* With one session-backed model per vector, hw_session_serve resumes the board
\* only when the firmware has returned from the handler of the captured line,
\* although it ignores the vector it is called for.
THEOREM ServeResumesItsOwnLine ==
  ASSUME SoleOwner, ConnectQuiet PROVE Spec => ResumedByOwnReturn
<1>1. ASSUME IInv, [Next]_vars
      PROVE  [irq_pending # 0 /\ irq_pending' = 0 => exiting = Vector(irq_pending)]_vars
  <2>1. CASE Board
    BY <2>1 DEF Board, BoardEnter, BoardBreak, BoardCompare, session
  <2>2. CASE Poll
    BY <2>2 DEF Poll, PollCapture, NothingPending, PollSpurious, PollRaise, session
  <2>3. CASE Cpu
    <3>1. ASSUME NEW m \in Models, Serve(m)
          PROVE  irq_pending # 0 => exiting = Vector(irq_pending)
      BY <1>1, <3>1, ServeSafe
    <3>2. irq_pending' = irq_pending \/ \E m \in Models : Serve(m)
      BY <2>3 DEF Cpu, OtherRaise, TakeIrq, ReturnIrq, AccessStart, AccessDone,
                  AccessFail, session
    <3> QED
      BY <3>1, <3>2
  <2>4. CASE UNCHANGED vars
    BY <2>4
  <2> QED
    BY <1>1, <2>1, <2>2, <2>3, <2>4 DEF Next
<1> QED
  BY <1>1, Inductive, PTL DEF Spec, ResumedByOwnReturn

-----------------------------------------------------------------------------
(* The refinement.  IInv does not say what the board's handlers wait for: a  *)
(* line owes its interrupt until the firmware takes it, and then its handler  *)
(* gets no further than the cmp, where r1 holds the answer.                 *)

\* The frame above a handler keeps what the handler will find in r1.
HandlersInv ==
  /\ \A i, j \in 1 .. Len(frames) : frames[i].line = frames[j].line => i = j
  /\ \A i \in 1 .. Len(frames) : frames[i].at = "bkpt" => i = Len(frames) /\ halted
  /\ \A i \in 1 .. Len(frames) : frames[i].line \in Forwardable =>
       /\ frames[i].at = "mov" => frames[i].line \in owed
       /\ frames[i].at = "bkpt" => frames[i].line \in owed \/ irq_pending = frames[i].line
       /\ frames[i].at = "cmp" => frames[i].line \notin owed
                                  /\ frames[i].line = IF i = Len(frames) THEN r1
                                                      ELSE frames[i + 1].saved

OwedInv ==
  /\ \A l \in Forwardable : Raising(l) \/ Queued(l) => l \in owed
  /\ \A l \in Forwardable : Running(l) \/ Serving(l) => l \notin owed

FInv == IInv /\ HandlersInv /\ OwedInv

\* The stack of handlers after a move of the innermost one.
LEMMA MoveTopAt ==
  ASSUME frames \in Seq(Frame), frames # <<>>, NEW at \in {"mov", "bkpt", "cmp"}
  PROVE  /\ Len(frames) \in Nat /\ Len(frames) > 0 /\ Len(frames) \in 1 .. Len(frames)
         /\ Top = frames[Len(frames)]
         /\ Len(MoveTop(at)) = Len(frames)
         /\ \A i \in 1 .. Len(frames) :
              /\ MoveTop(at)[i].line = frames[i].line
              /\ MoveTop(at)[i].saved = frames[i].saved
              /\ i # Len(frames) => MoveTop(at)[i] = frames[i]
              /\ i = Len(frames) => MoveTop(at)[i].at = at
<1> DEFINE n == Len(frames)
           t == [Top EXCEPT !.at = at]
           q == Front(frames)
<1>1. n \in Nat /\ n > 0 /\ n \in 1 .. n /\ Top = frames[n] /\ Top \in Frame
  BY LenProperties, EmptySeq, ElementOfSeq DEF Top, Last
<1>2. t \in Frame /\ t.line = Top.line /\ t.saved = Top.saved /\ t.at = at
  BY <1>1 DEF Frame
<1>3. q \in Seq(Frame) /\ Len(q) = n - 1 /\ \A i \in 1 .. n - 1 : q[i] = frames[i]
  BY FrontAt
<1> HIDE DEF t, q
<1>4. /\ Len(Append(q, t)) = Len(q) + 1 /\ Append(q, t)[Len(q) + 1] = t
      /\ \A i \in 1 .. Len(q) : Append(q, t)[i] = q[i]
  BY <1>2, <1>3, AppendProperties
<1>5. MoveTop(at) = Append(q, t)
  BY DEF MoveTop, t, q
<1>6. Len(q) + 1 = n /\ \A i \in 1 .. n : i = n \/ i \in 1 .. Len(q)
  BY <1>1, <1>3
<1> QED
  BY <1>1, <1>2, <1>3, <1>4, <1>5, <1>6

\* The board enters a handler, which stacks r1, and owes the interrupt.
LEMMA EnterHandlers ==
  ASSUME FInv, NEW l \in Lines, BoardEnter(l)
  PROVE  HandlersInv'
<1> DEFINE n == Len(frames)
<1>1. /\ frames \in Seq(Frame) /\ HandlersInv /\ n \in Nat
      /\ \A i \in 1 .. n : frames[i] \in Frame
  BY LenProperties, ElementOfSeq DEF FInv, IInv, TypeOK
<1>1a. PICK r \in (IF frames = <<>> THEN Lines \cup {NoLine} ELSE {r1}) :
        r1' = r /\ frames' = Append(frames, [line |-> l, at |-> "mov", saved |-> r])
  BY DEF BoardEnter
<1>1b. r \in Lines \cup {NoLine} /\ (frames # <<>> => r = r1)
  BY <1>1a DEF FInv, IInv, TypeOK
<1>2. /\ r1' = r /\ frames' = Append(frames, [line |-> l, at |-> "mov", saved |-> r])
      /\ frames # <<>> => r = r1
      /\ ~halted /\ l \notin InHandler /\ owed' = owed \cup {l} /\ UNCHANGED irq_pending
      /\ r \in Lines \cup {NoLine}
  BY <1>1a, <1>1b DEF BoardEnter, session
<1> DEFINE f == [line |-> l, at |-> "mov", saved |-> r]
<1>3. f \in Frame /\ f.line = l /\ f.at = "mov" /\ f.saved = r
  BY <1>2 DEF Frame
<1> HIDE DEF f
<1>4. /\ Len(frames') = n + 1 /\ frames'[n + 1] = f
      /\ \A i \in 1 .. n : frames'[i] = frames[i]
  <2>1. frames' = Append(frames, f)
    BY <1>2 DEF f
  <2> QED
    BY <1>1, <1>3, <2>1, AppendProperties
<1>5. \A i \in 1 .. Len(frames') : i \in 1 .. n \/ i = n + 1
  BY <1>1, <1>4
<1>6. \A i \in 1 .. n : /\ frames[i].line # l /\ frames[i].at # "bkpt" /\ i # n + 1
                        /\ i + 1 \in 1 .. n + 1 /\ (i # n => i + 1 \in 1 .. n)
                        /\ frames # <<>>
  <2>1. \A i \in 1 .. n : frames[i].line # l
    BY <1>2 DEF InHandler
  <2>2. \A i \in 1 .. n : frames[i].at # "bkpt"
    BY <1>1, <1>2 DEF HandlersInv
  <2> QED
    BY <1>1, <2>1, <2>2
<1>7. \A i, j \in 1 .. Len(frames') : frames'[i].line = frames'[j].line => i = j
  BY <1>1, <1>3, <1>4, <1>5, <1>6 DEF HandlersInv
<1>8. \A i \in 1 .. Len(frames') : frames'[i].at # "bkpt"
  BY <1>3, <1>4, <1>5, <1>6
<1>9. ASSUME NEW i \in 1 .. Len(frames'), frames'[i].line \in Forwardable
      PROVE  /\ frames'[i].at = "mov" => frames'[i].line \in owed'
             /\ frames'[i].at = "cmp" =>
                  /\ frames'[i].line \notin owed'
                  /\ frames'[i].line = IF i = Len(frames') THEN r1' ELSE frames'[i + 1].saved
  <2>1. CASE i = n + 1
    BY <1>2, <1>3, <1>4, <2>1
  <2>2. CASE i \in 1 .. n
    <3>1. frames[i].at = "mov" => frames[i].line \in owed
      BY <1>1, <1>4, <1>9, <2>2 DEF HandlersInv
    <3>2. frames[i].at = "cmp" =>
            frames[i].line \notin owed /\ frames[i].line = IF i = n THEN r1 ELSE frames[i + 1].saved
      BY <1>1, <1>4, <1>9, <2>2 DEF HandlersInv
    <3>3. (IF i = n THEN r1 ELSE frames[i + 1].saved) = frames'[i + 1].saved
      BY <1>2, <1>3, <1>4, <1>6, <2>2
    <3> QED
      BY <1>2, <1>4, <1>6, <2>2, <3>1, <3>2, <3>3
  <2> QED
    BY <1>5, <1>9, <2>1, <2>2
<1> QED
  BY <1>7, <1>8, <1>9 DEF HandlersInv

\* The board moves its innermost handler on, or is made to: what the handlers
\* wait for depends on the instruction alone.
LEMMA MoveHandlers ==
  ASSUME FInv, frames # <<>>, NEW at \in {"mov", "bkpt", "cmp"},
         frames' = MoveTop(at), UNCHANGED owed,
         at = "bkpt" => halted',
         Top.line \in Forwardable =>
           /\ at = "mov" => Top.line \in owed
           /\ at = "bkpt" => Top.line \in owed
           /\ at = "cmp" => Top.line \notin owed /\ r1' = Top.line
  PROVE  HandlersInv'
<1> DEFINE n == Len(frames)
<1>1. /\ frames \in Seq(Frame) /\ HandlersInv
      /\ \A i \in 1 .. n : frames[i] \in Frame
  BY LenProperties, ElementOfSeq DEF FInv, IInv, TypeOK
<1>2. /\ n \in Nat /\ n > 0 /\ n \in 1 .. n /\ Top = frames[n]
      /\ Len(frames') = n
      /\ \A i \in 1 .. n : /\ frames'[i].line = frames[i].line
                           /\ frames'[i].saved = frames[i].saved
                           /\ i # n => frames'[i] = frames[i]
                           /\ i = n => frames'[i].at = at
  BY <1>1, MoveTopAt
<1>3. \A i \in 1 .. n : i # n => /\ frames[i].at # "bkpt" /\ i + 1 \in 1 .. n
                                 /\ frames'[i + 1].saved = frames[i + 1].saved
  BY <1>1, <1>2 DEF HandlersInv
<1>4. \A i, j \in 1 .. Len(frames') : frames'[i].line = frames'[j].line => i = j
  BY <1>1, <1>2 DEF HandlersInv
<1>5. \A i \in 1 .. Len(frames') : frames'[i].at = "bkpt" => i = Len(frames') /\ halted'
  BY <1>2, <1>3
<1>6. ASSUME NEW i \in 1 .. Len(frames'), frames'[i].line \in Forwardable
      PROVE  /\ frames'[i].at = "mov" => frames'[i].line \in owed'
             /\ frames'[i].at = "bkpt" =>
                  frames'[i].line \in owed' \/ irq_pending' = frames'[i].line
             /\ frames'[i].at = "cmp" =>
                  /\ frames'[i].line \notin owed'
                  /\ frames'[i].line = IF i = Len(frames') THEN r1' ELSE frames'[i + 1].saved
  <2>1. CASE i = n
    BY <1>2, <1>6, <2>1
  <2>2. CASE i # n
    BY <1>1, <1>2, <1>3, <1>6, <2>2 DEF HandlersInv
  <2> QED
    BY <2>1, <2>2
<1> QED
  BY <1>4, <1>5, <1>6 DEF HandlersInv

\* The board returns from its innermost handler and unstacks r1.
LEMMA ReturnHandlers ==
  ASSUME FInv, frames # <<>>, ~halted, frames' = Front(frames), r1' = Top.saved,
         UNCHANGED <<owed, irq_pending>>
  PROVE  HandlersInv'
<1> DEFINE n == Len(frames)
<1>1. /\ frames \in Seq(Frame) /\ HandlersInv
  BY DEF FInv, IInv, TypeOK
<1>2. /\ n \in Nat /\ n > 0 /\ Top = frames[n] /\ Len(frames') = n - 1
      /\ \A i \in 1 .. n - 1 : frames'[i] = frames[i] /\ i \in 1 .. n /\ i # n
  BY <1>1, FrontAt DEF Top, Last
<1>3. \A i \in 1 .. n - 1 : /\ i = n - 1 => frames[i + 1].saved = r1'
                            /\ i # n - 1 => i + 1 \in 1 .. n - 1
                                            /\ frames'[i + 1] = frames[i + 1]
  BY <1>2
<1>4. \A i, j \in 1 .. Len(frames') : frames'[i].line = frames'[j].line => i = j
  BY <1>1, <1>2 DEF HandlersInv
<1>5. \A i \in 1 .. Len(frames') : frames'[i].at # "bkpt"
  BY <1>1, <1>2 DEF HandlersInv
<1>6. ASSUME NEW i \in 1 .. Len(frames'), frames'[i].line \in Forwardable
      PROVE  /\ frames'[i].at = "mov" => frames'[i].line \in owed'
             /\ frames'[i].at = "cmp" =>
                  /\ frames'[i].line \notin owed'
                  /\ frames'[i].line = IF i = Len(frames') THEN r1' ELSE frames'[i + 1].saved
  <2>1. /\ frames'[i] = frames[i] /\ i \in 1 .. n /\ i # n
        /\ i = n - 1 => frames[i + 1].saved = r1'
        /\ i # n - 1 => frames'[i + 1] = frames[i + 1]
    BY <1>2, <1>3
  <2> QED
    BY <1>1, <1>2, <1>6, <2>1 DEF HandlersInv
<1> QED
  BY <1>4, <1>5, <1>6 DEF HandlersInv

\* Steps that leave the board, the captured line and the debts alone.
LEMMA SameHandlers ==
  ASSUME HandlersInv, UNCHANGED <<board, irq_pending, owed>>
  PROVE  HandlersInv'
BY DEF HandlersInv, board

\* The board's handlers stay as the invariant says.
LEMMA HandlersStep ==
  ASSUME SoleOwner, ConnectQuiet, FInv, [Next]_vars
  PROVE  HandlersInv'
<1>0. /\ IInv /\ HandlersInv /\ OwedInv /\ TypeOK /\ HaltInv /\ PendingIsHalted /\ OneAtATime
      /\ frames \in Seq(Frame)
  BY DEF FInv, IInv, TypeOK
<1>1. ASSUME NEW l \in Lines, BoardEnter(l) PROVE HandlersInv'
  BY <1>1, EnterHandlers
<1>2. frames # <<>> =>
        /\ Len(frames) \in 1 .. Len(frames) /\ Top = frames[Len(frames)]
        /\ Top.line \in Forwardable =>
             /\ Top.at = "mov" => Top.line \in owed
             /\ Top.at = "bkpt" => Top.line \in owed \/ irq_pending = Top.line
             /\ Top.at = "cmp" => Top.line \notin owed /\ Top.line = r1
  BY <1>0, MoveTopAt DEF HandlersInv
<1>3. ASSUME NEW l \in Lines, BoardBreak(l) PROVE HandlersInv'
  <2>1. /\ frames # <<>> /\ frames' = MoveTop("bkpt") /\ halted' = TRUE
        /\ UNCHANGED owed /\ Top.at = "mov"
    BY <1>3 DEF BoardBreak
  <2> QED
    BY <1>2, <2>1, MoveHandlers
<1>4. ASSUME NEW l \in Lines, BoardCompare(l) PROVE HandlersInv'
  <2>1. /\ frames # <<>> /\ UNCHANGED <<owed, irq_pending>> /\ Top.at = "cmp" /\ Top.line = l
        /\ ~halted
    BY <1>4 DEF BoardCompare, session
  <2>2. CASE r1 = l
    BY <1>4, <2>1, <2>2, ReturnHandlers DEF BoardCompare
  <2>3. CASE r1 # l
    <3>1. Top.line \notin Forwardable
      BY <1>2, <2>1, <2>3
    <3>2. frames' = MoveTop("mov")
      BY <1>4, <2>3 DEF BoardCompare
    <3> QED
      BY <2>1, <3>1, <3>2, MoveHandlers
  <2> QED
    BY <2>2, <2>3
<1>5. ASSUME Resume, UNCHANGED <<owed, irq_pending>>, halted, ~InRange(r0)
      PROVE  HandlersInv'
  <2>1. CASE frames # <<>> /\ Top.at = "bkpt"
    <3>1. Top.line \notin Forwardable
      BY <1>0, <1>5, <2>1 DEF HaltInv, Forwardable
    <3>2. frames' = MoveTop("cmp")
      BY <1>5, <2>1 DEF Resume
    <3> QED
      BY <1>5, <2>1, <3>1, <3>2, MoveHandlers
  <2>2. CASE ~(frames # <<>> /\ Top.at = "bkpt")
    <3>1. frames = <<>> /\ frames' = frames
      BY <1>0, <1>5, <2>2 DEF HaltInv, Resume
    <3>2. Len(frames) = 0
      BY <3>1
    <3> QED
      BY <3>1, <3>2 DEF HandlersInv
  <2> QED
    BY <2>1, <2>2
<1>6. CASE PollCapture
  <2>1. UNCHANGED <<board, owed>> /\ irq_pending = 0
    BY <1>6 DEF PollCapture, NothingPending
  <2>2. \A l \in Forwardable : l # 0
    BY VectorsType
  <2>3. \A i \in 1 .. Len(frames) : frames[i].line \in Forwardable /\ frames[i].at = "bkpt"
          => frames[i].line \in owed
    BY <1>0, <2>1, <2>2 DEF HandlersInv
  <2> QED
    BY <1>0, <2>1, <2>3 DEF HandlersInv, board
<1>7. CASE PollSpurious
  BY <1>5, <1>7 DEF PollSpurious, NothingPending, session
<1>8. CASE PollRaise
  BY <1>0, <1>8, SameHandlers DEF PollRaise
<1>9. ASSUME NEW v \in Vectors, TakeIrq(v) PROVE HandlersInv'
  <2>1. UNCHANGED <<board, irq_pending>> /\ owed' = {l \in owed : Vector(l) # v} /\ v \in nvic
    BY <1>9 DEF TakeIrq, session
  <2>2. ASSUME NEW i \in 1 .. Len(frames), frames[i].line \in Forwardable,
               Vector(frames[i].line) = v
        PROVE  i = Len(frames) /\ frames[i].at = "bkpt" /\ irq_pending = frames[i].line
    <3>1. irq_pending = frames[i].line
      BY <1>0, <2>1, <2>2 DEF OneAtATime, Queued
    <3>2. frames # <<>> /\ Top.at = "bkpt" /\ Top.line = irq_pending
      BY <1>0, <2>2, <3>1, VectorsType DEF PendingIsHalted
    <3>3. i = Len(frames)
      BY <1>0, <1>2, <2>2, <3>1, <3>2 DEF HandlersInv
    <3> QED
      BY <1>2, <3>1, <3>2, <3>3
  <2> QED
    BY <1>0, <2>1, <2>2 DEF HandlersInv, board
<1>10. ASSUME NEW m \in Models, Serve(m) PROVE HandlersInv'
  <2>1. PICK l \in Forwardable : exiting = Vector(l) /\ Serving(l)
    BY <1>0, <1>10, VectorFacts DEF IInv, Serve, ServeInv, Serving
  <2>2. irq_pending = l /\ l \notin owed /\ l # 0
    BY <1>0, <2>1, VectorsType DEF OneAtATime, OwedInv
  <2>3. frames # <<>> /\ Top.at = "bkpt" /\ Top.line = l
    BY <1>0, <2>2 DEF PendingIsHalted
  <2>4. frames' = MoveTop("cmp") /\ r1' = l /\ UNCHANGED owed
    BY <1>10, <2>2, <2>3 DEF Serve, AnswerR1, Resume
  <2> QED
    BY <2>2, <2>3, <2>4, MoveHandlers
<1>11. ASSUME UNCHANGED <<board, irq_pending, owed>> PROVE HandlersInv'
  BY <1>0, <1>11, SameHandlers
<1>12. CASE \/ \E v \in Others : OtherRaise(v)
            \/ \E v \in Vectors : ReturnIrq(v)
            \/ AccessStart \/ AccessDone \/ AccessFail \/ UNCHANGED vars
  <2>1. UNCHANGED <<board, irq_pending, owed>>
    BY <1>12 DEF OtherRaise, ReturnIrq, AccessStart, AccessDone, AccessFail, vars, session
  <2> QED
    BY <1>11, <2>1
<1> QED
  BY <1>1, <1>3, <1>4, <1>6, <1>7, <1>8, <1>9, <1>10, <1>12 DEF Next, Board, Poll, Cpu

\* A line owes its interrupt until the firmware takes it, and no longer.
LEMMA OwedStep ==
  ASSUME SoleOwner, ConnectQuiet, FInv, [Next]_vars
  PROVE  OwedInv'
<1>0. /\ IInv /\ HandlersInv /\ OwedInv /\ TypeOK /\ HaltInv /\ PendingIsHalted /\ OneAtATime
      /\ frames \in Seq(Frame) /\ NoReentry /\ RaiseInv
  BY DEF FInv, IInv, TypeOK
<1> USE DEF Raising, Queued, Running, Serving
<1>1. ASSUME UNCHANGED <<session, qemu, owed>> PROVE OwedInv'
  BY <1>0, <1>1 DEF OwedInv, session, qemu
<1>2. ASSUME NEW l \in Lines, BoardEnter(l) PROVE OwedInv'
  <2>1. ~halted /\ owed' = owed \cup {l} /\ UNCHANGED <<session, qemu>>
    BY <1>2 DEF BoardEnter
  <2>2. \A k \in Forwardable : ~Running(k) /\ ~Serving(k)
    BY <1>0, <2>1, VectorsType DEF PendingIsHalted, OneAtATime
  <2> QED
    BY <1>0, <2>1, <2>2 DEF OwedInv, session, qemu
<1>3. CASE (\E l \in Lines : BoardBreak(l) \/ BoardCompare(l)) \/ PollSpurious \/ UNCHANGED vars
  <2>1. UNCHANGED <<session, qemu, owed>>
    BY <1>3 DEF BoardBreak, BoardCompare, PollSpurious, vars
  <2> QED
    BY <1>1, <2>1
<1>4. CASE PollCapture
  <2>1. /\ irq_pending = 0 /\ halted /\ firing_line' = r0 /\ UNCHANGED <<qemu, owed>>
        /\ frames # <<>> /\ Top.at = "bkpt" /\ Top.line = r0
    BY <1>0, <1>4 DEF PollCapture, NothingPending, HaltInv
  <2>2. r0 \in Forwardable => r0 \in owed
    <3>1. Len(frames) \in 1 .. Len(frames) /\ Top = frames[Len(frames)]
      BY <1>0, <2>1, MoveTopAt
    <3> QED
      BY <1>0, <2>1, <3>1, VectorsType DEF HandlersInv
  <2> QED
    BY <1>0, <2>1, <2>2 DEF OwedInv, qemu
<1>5. CASE PollRaise
  <2>1. /\ poll = "raise" /\ poll' = "check" /\ nvic' = nvic \cup {Vector(firing_line)}
        /\ UNCHANGED <<active, cpu, exiting, owed>> /\ firing_line \in Forwardable
    BY <1>0, <1>5 DEF PollRaise, RaiseIrq, RaiseInv, TypeOK
  <2>2. firing_line \in owed
    BY <1>0, <2>1 DEF OwedInv
  <2>3. \A l \in Forwardable : Vector(l) \in nvic' => l \in owed
    BY <1>0, <2>1, <2>2, VectorFacts DEF OwedInv
  <2> QED
    BY <1>0, <2>1, <2>3 DEF OwedInv
<1>6. ASSUME NEW v \in Others, OtherRaise(v) PROVE OwedInv'
  <2>1. nvic' = nvic \cup {v} /\ UNCHANGED <<session, active, cpu, exiting, owed>>
    BY <1>6 DEF OtherRaise
  <2>2. \A l \in Forwardable : Vector(l) # v
    BY DEF SoleOwner
  <2> QED
    BY <1>0, <2>1, <2>2 DEF OwedInv, session
<1>7. ASSUME NEW v \in Vectors, TakeIrq(v) PROVE OwedInv'
  <2>1. /\ nvic' = nvic \ {v} /\ v \in nvic /\ owed' = {l \in owed : Vector(l) # v}
        /\ UNCHANGED <<session, cpu, exiting>>
        /\ \A x : Contains(active', x) <=> Contains(active, x) \/ x = v
    BY <1>0, <1>7, PushStack DEF TakeIrq, TypeOK
  <2>2. \A l \in Forwardable : Vector(l) = v => ~Raising(l)
    BY <1>0, <2>1 DEF OneAtATime
  <2> QED
    BY <1>0, <2>1, <2>2 DEF OwedInv, session
<1>8. ASSUME NEW v \in Vectors, ReturnIrq(v) PROVE OwedInv'
  <2>1. /\ UNCHANGED <<session, nvic, owed>> /\ Contains(active, v)
        /\ \A x : Contains(active', x) => Contains(active, x)
        /\ (cpu' = cpu /\ exiting' = exiting) \/ exiting' = v
    BY <1>0, <1>8, PopStack DEF ReturnIrq, TypeOK
  <2> QED
    BY <1>0, <2>1 DEF OwedInv, session
<1>9. ASSUME NEW m \in Models, Serve(m) PROVE OwedInv'
  <2>1. /\ UNCHANGED <<poll, firing_line, nvic, active, owed>>
        /\ (cpu' = cpu /\ exiting' = exiting) \/ cpu' = "run"
    BY <1>9 DEF Serve
  <2> QED
    BY <1>0, <2>1 DEF OwedInv
<1>10. CASE AccessStart \/ AccessDone \/ AccessFail
  <2>1. UNCHANGED <<session, nvic, active, exiting, owed>> /\ cpu' # "serve"
    BY <1>10 DEF AccessStart, AccessDone, AccessFail
  <2> QED
    BY <1>0, <2>1 DEF OwedInv, session
<1> QED
  BY <1>2, <1>3, <1>4, <1>5, <1>6, <1>7, <1>8, <1>9, <1>10 DEF Next, Board, Poll, Cpu

\* How far each line is before and after a step, from the parts of the state
\* that say it.
LEMMA PhaseIs ==
  /\ phase = [l \in Forwardable |-> phase[l]] /\ phase' = [l \in Forwardable |-> phase'[l]]
  /\ \A l \in Forwardable :
       /\ phase[l] = IF l \notin InHandler THEN "idle" ELSE IF l \in owed THEN "fired"
                     ELSE IF Contains(active, Vector(l)) THEN "taken" ELSE "exited"
       /\ phase'[l] = IF l \notin InHandler' THEN "idle" ELSE IF l \in owed' THEN "fired"
                      ELSE IF Contains(active', Vector(l)) THEN "taken" ELSE "exited"
BY DEF phase, Running

LEMMA PhaseSame ==
  ASSUME InHandler' = InHandler,
         \A l \in Forwardable : /\ l \in owed' <=> l \in owed
                                /\ Contains(active', Vector(l)) <=> Contains(active, Vector(l))
  PROVE  phase' = phase
<1>1. \A l \in Forwardable : phase'[l] = phase[l]
  BY PhaseIs
<1> DEFINE p == phase
           q == phase'
<1>2. /\ p = [l \in Forwardable |-> p[l]] /\ q = [l \in Forwardable |-> q[l]]
      /\ \A l \in Forwardable : q[l] = p[l]
  BY <1>1, PhaseIs
<1> HIDE DEF p, q
<1>3. p = q
  BY <1>2
<1> QED
  BY <1>3 DEF p, q

LEMMA PhaseMoves ==
  ASSUME NEW l \in Forwardable, NEW from, NEW to, phase[l] = from, phase'[l] = to,
         \A k \in Forwardable : k # l => phase'[k] = phase[k]
  PROVE  Forward!Move(l, from, to)
<1> DEFINE p == phase
           q == phase'
<1>1. /\ p = [k \in Forwardable |-> p[k]] /\ q = [k \in Forwardable |-> q[k]]
      /\ q[l] = to /\ \A k \in Forwardable : k # l => q[k] = p[k]
  BY PhaseIs
<1> HIDE DEF p, q
<1>2. q = [p EXCEPT ![l] = to]
  BY <1>1
<1> QED
  BY <1>2 DEF Forward!Move, p, q

\* The lines with a handler under way are those of the frames.
LEMMA InHandlerIs ==
  ASSUME FInv, [Next]_vars
  PROVE  \/ InHandler' = InHandler
         \/ \E l \in Lines : /\ BoardEnter(l) /\ l \notin InHandler
                             /\ InHandler' = InHandler \cup {l}
         \/ \E l \in Lines : /\ BoardCompare(l) /\ Top.line = l /\ Top.at = "cmp" /\ ~halted
                             /\ frames # <<>> /\ l \in InHandler
                             /\ InHandler' = InHandler \ {l}
<1>0. frames \in Seq(Frame) /\ HandlersInv
  BY DEF FInv, IInv, TypeOK
<1>1. ASSUME frames' = frames PROVE InHandler' = InHandler
  BY <1>1 DEF InHandler
<1>2. ASSUME frames # <<>>, NEW at \in {"mov", "bkpt", "cmp"}, frames' = MoveTop(at)
      PROVE  InHandler' = InHandler
  BY <1>0, <1>2, MoveTopAt DEF InHandler
<1>3. ASSUME NEW l \in Lines, BoardEnter(l)
      PROVE  l \notin InHandler /\ InHandler' = InHandler \cup {l}
  <2>1. PICK r \in (IF frames = <<>> THEN Lines \cup {NoLine} ELSE {r1}) :
          frames' = Append(frames, [line |-> l, at |-> "mov", saved |-> r])
    BY <1>3 DEF BoardEnter
  <2>2. r \in Lines \cup {NoLine}
    BY <2>1 DEF FInv, IInv, TypeOK
  <2> DEFINE f == [line |-> l, at |-> "mov", saved |-> r]
  <2>3. f \in Frame /\ f.line = l /\ frames' = Append(frames, f)
    BY <2>1, <2>2 DEF Frame
  <2> HIDE DEF f
  <2>4. /\ Len(frames) \in Nat /\ Len(frames') = Len(frames) + 1
        /\ frames'[Len(frames) + 1] = f
        /\ \A i \in 1 .. Len(frames) : frames'[i] = frames[i]
    BY <1>0, <2>3, AppendProperties, LenProperties
  <2>5. /\ \A i \in 1 .. Len(frames') : i \in 1 .. Len(frames) \/ i = Len(frames) + 1
        /\ Len(frames) + 1 \in 1 .. Len(frames')
        /\ \A i \in 1 .. Len(frames) : i \in 1 .. Len(frames')
    BY <2>4
  <2>6. InHandler' = InHandler \cup {l}
    BY <2>3, <2>4, <2>5 DEF InHandler
  <2> QED
    BY <1>3, <2>6 DEF BoardEnter
<1>4. ASSUME NEW l \in Lines, BoardCompare(l), r1 = l
      PROVE  /\ Top.line = l /\ Top.at = "cmp" /\ ~halted /\ frames # <<>>
             /\ l \in InHandler /\ InHandler' = InHandler \ {l}
  <2>1. frames # <<>> /\ frames' = Front(frames) /\ Top.line = l /\ Top.at = "cmp" /\ ~halted
    BY <1>4 DEF BoardCompare
  <2>2. /\ Len(frames) \in Nat /\ Len(frames) > 0 /\ Top = frames[Len(frames)]
        /\ Len(frames') = Len(frames) - 1
        /\ \A i \in 1 .. Len(frames) - 1 : frames'[i] = frames[i]
    BY <1>0, <2>1, FrontAt DEF Top, Last
  <2>3. /\ \A i \in 1 .. Len(frames) : i \in 1 .. Len(frames') \/ i = Len(frames)
        /\ \A i \in 1 .. Len(frames') : i \in 1 .. Len(frames) /\ i # Len(frames)
        /\ Len(frames) \in 1 .. Len(frames)
    BY <2>2
  <2>4. l \in InHandler
    BY <2>1, <2>2, <2>3 DEF InHandler
  <2>5. \A i \in 1 .. Len(frames) : i # Len(frames) => frames[i].line # l
    BY <1>0, <2>1, <2>2, <2>3 DEF HandlersInv
  <2>6. InHandler' = InHandler \ {l}
    <3>1. \A i \in 1 .. Len(frames') : frames'[i] = frames[i]
      BY <2>2
    <3>2. \A x \in InHandler' : x \in InHandler /\ x # l
      BY <2>3, <2>5, <3>1 DEF InHandler
    <3>3. \A x \in InHandler : x # l => x \in InHandler'
      BY <2>1, <2>2, <2>3, <3>1 DEF InHandler
    <3> QED
      BY <3>2, <3>3
  <2> QED
    BY <2>1, <2>4, <2>6
<1>5. ASSUME NEW l \in Lines, BoardCompare(l), r1 # l PROVE InHandler' = InHandler
  BY <1>2, <1>5 DEF BoardCompare
<1>6. ASSUME NEW l \in Lines, BoardBreak(l) PROVE InHandler' = InHandler
  BY <1>2, <1>6 DEF BoardBreak
<1>7. ASSUME Resume PROVE InHandler' = InHandler
  BY <1>1, <1>2, <1>7 DEF Resume
<1>8. CASE PollSpurious
  BY <1>7, <1>8 DEF PollSpurious
<1>9. ASSUME NEW m \in Models, Serve(m) PROVE InHandler' = InHandler
  BY <1>1, <1>7, <1>9 DEF Serve, board
<1>10. CASE \/ PollCapture \/ PollRaise \/ AccessStart \/ AccessDone \/ AccessFail
            \/ (\E v \in Others : OtherRaise(v))
            \/ (\E v \in Vectors : TakeIrq(v) \/ ReturnIrq(v)) \/ UNCHANGED vars
  BY <1>1, <1>10 DEF PollCapture, PollRaise, AccessStart, AccessDone, AccessFail, OtherRaise,
                     TakeIrq, ReturnIrq, vars, board
<1> QED
  BY <1>3, <1>4, <1>5, <1>6, <1>8, <1>9, <1>10 DEF Next, Board, Poll, Cpu

\* Every step is one of the abstract specification, or changes no phase.
LEMMA ForwardStep ==
  ASSUME SoleOwner, ConnectQuiet, FInv, [Next]_vars
  PROVE  [Forward!Next]_phase
<1>0. /\ IInv /\ HandlersInv /\ OwedInv /\ TypeOK /\ PendingIsHalted /\ OneAtATime
      /\ frames \in Seq(Frame) /\ NoReentry /\ Forwardable \subseteq Lines
  BY DEF FInv, IInv, TypeOK, Forwardable
<1> DEFINE IsTaken(a, l) == Contains(a, Vector(l))
<1>1. \A l \in Forwardable : irq_pending = l => halted /\ l \in InHandler
  <2>1. SUFFICES ASSUME NEW l \in Forwardable, irq_pending = l
                 PROVE  halted /\ l \in InHandler
    OBVIOUS
  <2>2. halted /\ frames # <<>> /\ Top.line = l
    BY <1>0, <2>1, VectorsType DEF PendingIsHalted
  <2>3. Len(frames) \in 1 .. Len(frames) /\ Top = frames[Len(frames)]
    BY <1>0, <2>2, MoveTopAt
  <2> QED
    BY <2>2, <2>3 DEF InHandler
<1>2. \A l \in Forwardable : Contains(active, Vector(l)) =>
        irq_pending = l /\ l \notin owed /\ phase[l] = "taken"
  BY <1>0, <1>1, PhaseIs DEF OneAtATime, OwedInv, Running
<1>3. ASSUME NEW l \in Lines, BoardEnter(l), l \notin InHandler, InHandler' = InHandler \cup {l}
      PROVE  [Forward!Next]_phase
  <2>1. owed' = owed \cup {l} /\ UNCHANGED active
    BY <1>3 DEF BoardEnter, qemu
  <2>2. \A k \in Forwardable : k # l => phase'[k] = phase[k]
    BY <1>3, <2>1, PhaseIs
  <2>3. CASE l \in Forwardable
    <3>1. phase[l] = "idle" /\ phase'[l] = "fired"
      BY <1>3, <2>1, <2>3, PhaseIs
    <3> QED
      BY <2>2, <2>3, <3>1, PhaseMoves DEF Forward!Next, Forward!Fire
  <2>4. CASE l \notin Forwardable
    <3>1. phase' = phase
      BY <1>3, <2>1, <2>4, PhaseSame, PhaseIs
    <3> QED
      BY <3>1
  <2> QED
    BY <2>3, <2>4
<1>4. ASSUME NEW l \in Lines, BoardCompare(l), Top.line = l, Top.at = "cmp", ~halted,
             frames # <<>>, l \in InHandler, InHandler' = InHandler \ {l}
      PROVE  [Forward!Next]_phase
  <2>1. UNCHANGED <<owed, active>>
    BY <1>4 DEF BoardCompare, qemu
  <2>2. \A k \in Forwardable : k # l => phase'[k] = phase[k]
    BY <1>4, <2>1, PhaseIs
  <2>3. CASE l \in Forwardable
    <3>1. l \notin owed
      <4>1. Len(frames) \in 1 .. Len(frames) /\ Top = frames[Len(frames)]
        BY <1>0, <1>4, MoveTopAt
      <4> QED
        BY <1>0, <1>4, <2>3, <4>1 DEF HandlersInv
    <3>2. ~Contains(active, Vector(l))
      BY <1>1, <1>2, <1>4, <2>3
    <3>3. phase[l] = "exited" /\ phase'[l] = "idle"
      BY <1>4, <2>3, <3>1, <3>2, PhaseIs
    <3> QED
      BY <2>2, <2>3, <3>3, PhaseMoves DEF Forward!Next, Forward!Return
  <2>4. CASE l \notin Forwardable
    <3>1. phase' = phase
      BY <1>4, <2>1, <2>4, PhaseSame, PhaseIs
    <3> QED
      BY <3>1
  <2> QED
    BY <2>3, <2>4
<1>5. ASSUME InHandler' = InHandler, NEW v \in Vectors, TakeIrq(v)
      PROVE  [Forward!Next]_phase
  <2>1. /\ v \in nvic /\ owed' = {l \in owed : Vector(l) # v}
        /\ \A x : Contains(active', x) <=> Contains(active, x) \/ x = v
    BY <1>0, <1>5, PushStack DEF TakeIrq, TypeOK
  <2>2. \A k \in Forwardable : Vector(k) # v => phase'[k] = phase[k]
    BY <1>0, <1>5, <2>1, PhaseIs
  <2>3. CASE \E l \in Forwardable : v = Vector(l)
    <3>1. PICK l \in Forwardable : v = Vector(l)
      BY <2>3
    <3>2. Queued(l) /\ irq_pending = l /\ l \in owed /\ l \in InHandler
      BY <1>0, <1>1, <2>1, <3>1 DEF Queued, OneAtATime, OwedInv
    <3>3. phase[l] = "fired" /\ phase'[l] = "taken"
      BY <1>5, <2>1, <3>1, <3>2, PhaseIs
    <3>4. \A k \in Forwardable : phase[k] # "taken"
      <4>1. \A k \in Forwardable : ~Contains(active, Vector(k))
        BY <1>0, <1>2, <3>2 DEF OneAtATime, Queued, Running
      <4> QED
        BY <4>1, PhaseIs
    <3>5. \A k \in Forwardable : k # l => phase'[k] = phase[k]
      BY <2>2, <3>1, VectorFacts
    <3>6. Forward!Move(l, "fired", "taken")
      BY <3>3, <3>5, PhaseMoves
    <3>7. Forward!Take(l)
      BY <3>4, <3>6 DEF Forward!Take
    <3> QED
      BY <3>7 DEF Forward!Next
  <2>4. CASE ~ \E l \in Forwardable : v = Vector(l)
    <3>1. phase' = phase
      BY <1>0, <1>5, <2>1, <2>4, PhaseSame
    <3> QED
      BY <3>1
  <2> QED
    BY <2>3, <2>4
<1>6. ASSUME InHandler' = InHandler, NEW v \in Vectors, ReturnIrq(v)
      PROVE  [Forward!Next]_phase
  <2>1. /\ Contains(active, v) /\ UNCHANGED owed
        /\ \A x : Contains(active', x) <=> Contains(active, x) /\ x # v
    BY <1>0, <1>6, PopStack DEF ReturnIrq, TypeOK, NoReentry
  <2>2. \A k \in Forwardable : Vector(k) # v => phase'[k] = phase[k]
    BY <1>6, <2>1, PhaseIs
  <2>3. CASE \E l \in Forwardable : v = Vector(l)
    <3>1. PICK l \in Forwardable : v = Vector(l)
      BY <2>3
    <3>2. phase[l] = "taken" /\ l \notin owed /\ l \in InHandler
      BY <1>1, <1>2, <2>1, <3>1
    <3>3. phase'[l] = "exited"
      BY <1>6, <2>1, <3>1, <3>2, PhaseIs
    <3>4. \A k \in Forwardable : k # l => phase'[k] = phase[k]
      BY <2>2, <3>1, VectorFacts
    <3> QED
      BY <3>2, <3>3, <3>4, PhaseMoves DEF Forward!Next, Forward!Exit
  <2>4. CASE ~ \E l \in Forwardable : v = Vector(l)
    <3>1. phase' = phase
      BY <1>6, <2>1, <2>4, PhaseSame
    <3> QED
      BY <3>1
  <2> QED
    BY <2>3, <2>4
<1>7. ASSUME InHandler' = InHandler, UNCHANGED <<owed, active>>
      PROVE  [Forward!Next]_phase
  <2>1. phase' = phase
    BY <1>7, PhaseSame
  <2> QED
    BY <2>1
<1>8. \/ UNCHANGED <<owed, active>>
      \/ \E l \in Lines : BoardEnter(l)
      \/ \E v \in Vectors : TakeIrq(v) \/ ReturnIrq(v)
  BY DEF Next, Board, Poll, Cpu, BoardBreak, BoardCompare, PollCapture, PollSpurious,
         PollRaise, OtherRaise, Serve, AccessStart, AccessDone, AccessFail, vars, qemu
<1>9. ASSUME NEW l \in Lines, BoardEnter(l) PROVE l \notin InHandler /\ l \in InHandler'
  <2>1. Len(frames') \in 1 .. Len(frames') /\ frames'[Len(frames')].line = l
    <3>1. PICK r : frames' = Append(frames, [line |-> l, at |-> "mov", saved |-> r])
      BY <1>9 DEF BoardEnter
    <3> DEFINE f == [line |-> l, at |-> "mov", saved |-> r]
    <3>2. Len(Append(frames, f)) = Len(frames) + 1 /\ Append(frames, f)[Len(frames) + 1] = f
          /\ Len(frames) \in Nat
      BY <1>0
    <3> QED
      BY <3>1, <3>2
  <2> QED
    BY <1>9, <2>1 DEF BoardEnter, InHandler
<1> QED
  BY <1>3, <1>4, <1>5, <1>6, <1>7, <1>8, <1>9, InHandlerIs

\* The session forwards each interrupt of the board exactly once, works on one
\* at a time, and lets the board's handler return only after the firmware's.
THEOREM ForwardsOnce == ASSUME SoleOwner, ConnectQuiet PROVE Spec => ForwardsEachIrqOnce
<1>1. Init => FInv /\ Forward!Init
  <2>1. SUFFICES ASSUME Init
                 PROVE  FInv /\ Forward!Init
    OBVIOUS
  <2>2. IInv
    BY <2>1, InitSafe
  <2>3. frames = <<>> /\ Len(frames) = 0 /\ owed = {} /\ active = <<>>
    BY <2>1 DEF Init
  <2>4. HandlersInv
    BY <2>3 DEF HandlersInv
  <2>5. OwedInv
    BY <2>1, <2>3 DEF Init, OwedInv, Raising, Queued, Running, Serving, Contains
  <2>6. InHandler = {}
    BY <2>3 DEF InHandler
  <2>7. phase = [l \in Forwardable |-> "idle"]
    BY <2>6 DEF phase
  <2> QED
    BY <2>2, <2>4, <2>5, <2>7 DEF FInv, Forward!Init
<1>2. FInv /\ [Next]_vars => FInv'
  BY StepSafe, HandlersStep, OwedStep DEF FInv
<1>3. FInv /\ [Next]_vars => [Forward!Next]_phase
  BY ForwardStep
<1> QED
  BY <1>1, <1>2, <1>3, PTL DEF Spec, ForwardsEachIrqOnce, Forward!Spec
=============================================================================
