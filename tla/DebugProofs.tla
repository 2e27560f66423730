---------------------------- MODULE DebugProofs ----------------------------
(***************************************************************************)
(* Proofs about the run control of libr/debug.                             *)
(***************************************************************************)
EXTENDS Debug, BpItemsProofs

----------------------------------------------------------------------------
(* Breakpoint lists and the bytes of the debuggee.                         *)

\* A list of items at instructions of the program.
Bps == {s \in Seq(Item) : \A i \in 1 .. Len(s) : s[i].addr \in Prog}

\* Bytes with traps at instructions only.
Mems == {m \in [Addr -> Byte] : \A a \in Addr : m[a] = Trap => a \in Prog}

LEMMA ProgAddr ==
    /\ Width \in Nat \ {0}
    /\ \A a \in Prog : a \in Addr /\ a # 0 /\ a + 1 \in Addr
    /\ Trap \notin Addr /\ Trap \in Byte
BY WidthAssumption, ProgAssumption DEF Addr, Trap, Byte

\* What is known of an item of a list.
LEMMA ItemAt ==
    ASSUME NEW s \in Bps, NEW i \in 1 .. Len(s)
    PROVE  /\ s[i] \in Item /\ s[i].addr \in Prog /\ s[i].size = 1 /\ s[i].prot /\ ~s[i].hw
           /\ s[i].addr \in 1 .. (Width - 2) /\ s[i].obytes[0] \in Byte
<1>1. s[i] \in Item /\ s[i].addr \in Prog
    BY DEF Bps
<1>2. s[i].addr \in 1 .. (Width - 2)
    BY <1>1, ProgAssumption
<1>3. s[i].size \in {1} /\ s[i].prot \in {TRUE} /\ s[i].hw \in {FALSE} /\ s[i].obytes \in [{0} -> Byte]
    BY <1>1, Zenon DEF Item
<1> QED  BY <1>1, <1>2, <1>3

LEMMA BpsSeq == \A s \in Bps : s \in Seq(Item) /\ Len(s) \in Nat /\ DOMAIN s = 1 .. Len(s)
BY DEF Bps

\* An item of one byte writes that byte only.
LEMMA WriterAddr ==
    ASSUME NEW s \in Bps, NEW except, NEW a \in Addr
    PROVE  Writers(s, except, a) =
           {i \in 1 .. Len(s) : s[i].addr = a /\ ~Skipped(s[i], except)}
<1>1. \A i \in 1 .. Len(s) : ~s[i].hw /\ s[i].size = 1 /\ s[i].addr \in 1 .. (Width - 2)
    BY ItemAt
<1>2. \A i \in 1 .. Len(s) : Covers(s[i], a) <=> s[i].addr = a
    BY <1>1, WidthAssumption DEF Covers, Addr
<1>3. DOMAIN s = 1 .. Len(s)
    BY BpsSeq
<1> QED  BY <1>1, <1>2, <1>3, Zenon DEF Writers

\* What r_bp_restore_except leaves in a byte.
LEMMA Restored ==
    ASSUME NEW s \in Bps, NEW m \in Mems, NEW set \in BOOLEAN, NEW except, NEW a \in Addr
    PROVE  LET r == r_bp_restore_except(s, m, set, except)
               W == {i \in 1 .. Len(s) : s[i].addr = a /\ ~Skipped(s[i], except)}
           IN  /\ W = {} => r[a] = m[a]
               /\ W # {} /\ set => r[a] = Trap
               /\ W # {} /\ ~set => \E i \in W : r[a] = s[i].obytes[0]
<1> DEFINE r == r_bp_restore_except(s, m, set, except)
           W == {i \in 1 .. Len(s) : s[i].addr = a /\ ~Skipped(s[i], except)}
<1>1. Writers(s, except, a) = W
    BY WriterAddr
<1>2. Len(s) \in Nat /\ DOMAIN s = 1 .. Len(s)
    BY DEF Bps
<1>3. /\ W = {} => r[a] = m[a]
      /\ W # {} => \E i \in W : r[a] = RestoreOne(s[i], set, a)
    BY <1>1, <1>2, RestoredByte
<1>4. ASSUME NEW i \in W
      PROVE  /\ set => RestoreOne(s[i], set, a) = Trap
             /\ ~set => RestoreOne(s[i], set, a) = s[i].obytes[0]
    <2>1. s[i].addr = a /\ a - a = 0
        BY DEF Addr
    <2> QED  BY <2>1 DEF RestoreOne
<1> QED  BY <1>3, <1>4

LEMMA RestoreType ==
    ASSUME NEW s \in Bps, NEW m \in Mems, NEW set \in BOOLEAN, NEW except
    PROVE  r_bp_restore_except(s, m, set, except) \in Mems
<1> DEFINE r == r_bp_restore_except(s, m, set, except)
<1>1. ASSUME NEW a \in Addr
      PROVE  r[a] \in Byte /\ (r[a] = Trap => a \in Prog)
    <2> DEFINE W == {i \in 1 .. Len(s) : s[i].addr = a /\ ~Skipped(s[i], except)}
    <2>1. CASE W = {}
        <3>1. r[a] = m[a]
            BY <2>1, Restored
        <3> QED  BY <3>1 DEF Mems
    <2>2. CASE W # {}
        <3>1. r[a] = Trap \/ \E i \in W : r[a] = s[i].obytes[0]
            BY <2>2, Restored
        <3>2. \A i \in W : s[i].obytes[0] \in Byte /\ s[i].addr = a /\ s[i].addr \in Prog
            BY ItemAt
        <3> QED  BY <2>2, <3>1, <3>2, ProgAddr
    <2> QED  BY <2>1, <2>2
<1>2. r = [a \in Addr |-> r[a]]
    BY DEF r_bp_restore_except
<1> HIDE DEF r
<1>3. r \in Mems
    BY <1>1, <1>2 DEF Mems
<1> QED  BY <1>3 DEF r

\* r_bp_add_sw adds an item unless one covers the address.
LEMMA Added ==
    ASSUME NEW s \in Bps, NEW a \in Prog
    PROVE  r_bp_get_in(s, a, TRUE) # NoPos <=> \E i \in 1 .. Len(s) : s[i].addr = a
<1>1. \A i \in 1 .. Len(s) : s[i].size = 1 /\ s[i].prot /\ s[i].addr \in 1 .. (Width - 2)
    BY ItemAt
<1>2. a \in 1 .. (Width - 2)
    BY ProgAssumption
<1>3. \A i \in 1 .. Len(s) : InRange(s[i], a) <=> s[i].addr = a
    BY <1>1, <1>2, WidthAssumption DEF InRange, Plus
<1>4. \A i \in 1 .. Len(s) : MatchProt(s[i], TRUE)
    BY <1>1 DEF MatchProt
<1>5. DOMAIN s = 1 .. Len(s)
    BY DEF Bps
<1> DEFINE S == {i \in DOMAIN s : InRange(s[i], a) /\ MatchProt(s[i], TRUE)}
<1>6. S = {i \in 1 .. Len(s) : s[i].addr = a}
    BY <1>3, <1>4, <1>5, Zenon
<1>7. {i \in 1 .. Len(s) : s[i].addr = a} \subseteq Nat \ {0}
    OBVIOUS
<1> HIDE DEF S
<1>8. First(S) = NoPos <=> S = {}
    BY <1>6, <1>7, FirstProperties
<1> QED  BY <1>6, <1>8 DEF r_bp_get_in, S

LEMMA WithBpType ==
    ASSUME NEW s \in Bps, mem \in Mems, NEW a \in Prog,
           NEW kind \in {"break", "trace", "cond"}, NEW sw \in BOOLEAN
    PROVE  WithBp(s, a, kind, sw) \in Bps
<1> DEFINE b == [addr |-> a, size |-> 1, hw |-> FALSE, prot |-> TRUE,
                 enabled |-> TRUE, kind |-> kind, swstep |-> sw,
                 obytes |-> ReadAt(mem, a, 1)]
<1>1. ReadAt(mem, a, 1) \in [{0} -> Byte]
    <2>1. 0 .. (1 - 1) = {0} /\ a + 0 = a /\ a \in Addr
        BY ProgAddr DEF Addr
    <2>2. mem[a] \in Byte
        BY <2>1 DEF Mems
    <2> QED  BY <2>1, <2>2 DEF ReadAt
<1>2. b \in Item
    BY <1>1, ProgAddr DEF Item
<1>3. b.addr = a
    OBVIOUS
<1> HIDE DEF b
<1>4. Append(s, b) \in Bps
    <2>1. s \in Seq(Item) /\ Append(s, b) \in Seq(Item) /\ Len(Append(s, b)) = Len(s) + 1
        BY <1>2 DEF Bps
    <2>2. \A i \in 1 .. Len(s) + 1 : Append(s, b)[i] = IF i <= Len(s) THEN s[i] ELSE b
        BY <1>2, <2>1
    <2>3. \A i \in 1 .. Len(s) + 1 : Append(s, b)[i].addr \in Prog
        BY <1>3, <2>1, <2>2 DEF Bps
    <2> QED  BY <2>1, <2>3 DEF Bps
<1> QED  BY <1>4 DEF WithBp, b

LEMMA GetAt ==
    ASSUME NEW s \in Bps, NEW a
    PROVE  /\ r_bp_get_at(s, a) = NoPos <=> \A i \in 1 .. Len(s) : s[i].addr # a
           /\ r_bp_get_at(s, a) # NoPos =>
                 r_bp_get_at(s, a) \in 1 .. Len(s) /\ s[r_bp_get_at(s, a)].addr = a
<1> DEFINE S == {i \in DOMAIN s : s[i].addr = a}
<1>1. DOMAIN s = 1 .. Len(s)
    BY DEF Bps
<1>2. S \subseteq Nat \ {0}
    BY <1>1
<1>3. /\ First(S) = NoPos <=> S = {}
      /\ S # {} => First(S) \in S
    BY <1>2, FirstProperties
<1> QED  BY <1>1, <1>3 DEF r_bp_get_at

LEMMA WithoutBpType ==
    ASSUME NEW s \in Bps, NEW a
    PROVE  WithoutBp(s, a) \in Bps
<1>1. CASE r_bp_get_at(s, a) = NoPos
    BY <1>1 DEF WithoutBp
<1>2. CASE r_bp_get_at(s, a) # NoPos
    <2>1. PICK i \in 1 .. Len(s) : i = r_bp_get_at(s, a)
        BY <1>2, GetAt
    <2>2. /\ Without(s, i) \in Seq(Item) /\ Len(Without(s, i)) = Len(s) - 1
          /\ \A j \in 1 .. (Len(s) - 1) : Without(s, i)[j] = IF j < i THEN s[j] ELSE s[j + 1]
        BY <2>1, WithoutProperties DEF Bps
    <2>3. \A j \in 1 .. (Len(s) - 1) : j \in 1 .. Len(s) /\ j + 1 \in 1 .. Len(s)
        BY DEF Bps
    <2>4. Without(s, i) \in Bps
        BY <2>2, <2>3 DEF Bps
    <2> QED  BY <1>2, <2>1, <2>4 DEF WithoutBp
<1> QED  BY <1>1, <1>2

----------------------------------------------------------------------------
(* The call stack.                                                         *)

\* The stack after each kind of control step, element by element.
LEMMA GotoStack ==
    ASSUME stack \in Seq(Frame), stack # << >>, NEW f \in Frame, Goto(f)
    PROVE  /\ stack' \in Seq(Frame) /\ Len(stack') = Len(stack) /\ stack' # << >>
           /\ stack'[1] = f /\ Head(stack') = f
           /\ \A i \in 2 .. Len(stack) : stack'[i] = stack[i]
           /\ ret' = ret
BY DEF Goto

LEMMA CallStack ==
    ASSUME stack \in Seq(Frame), stack # << >>, NEW f \in Frame, NEW g \in Frame, Call(f, g)
    PROVE  /\ stack' \in Seq(Frame) /\ Len(stack') = Len(stack) + 1 /\ stack' # << >>
           /\ stack'[1] = g /\ Head(stack') = g /\ stack'[2] = f
           /\ \A i \in 2 .. Len(stack) : stack'[i + 1] = stack[i]
           /\ ret' = ret
<1>1. <<g, f>> \in Seq(Frame) /\ Len(<<g, f>>) = 2 /\ <<g, f>>[1] = g /\ <<g, f>>[2] = f
    OBVIOUS
<1>2. /\ Tail(stack) \in Seq(Frame) /\ Len(Tail(stack)) = Len(stack) - 1
      /\ \A i \in 1 .. Len(stack) - 1 : Tail(stack)[i] = stack[i + 1]
    OBVIOUS
<1>3. stack' = <<g, f>> \o Tail(stack) /\ ret' = ret
    BY DEF Call
<1>4. /\ stack' \in Seq(Frame) /\ Len(stack') = Len(stack) + 1
      /\ stack'[1] = g /\ stack'[2] = f
    BY <1>1, <1>2, <1>3
<1>5. ASSUME NEW i \in 2 .. Len(stack) PROVE stack'[i + 1] = stack[i]
    <2>1. i + 1 \in 3 .. Len(stack) + 1 /\ i - 1 \in 1 .. Len(stack) - 1 /\ (i + 1) - 2 = i - 1
        OBVIOUS
    <2>2. stack'[i + 1] = Tail(stack)[i - 1]
        BY <1>1, <1>2, <1>3, <2>1
    <2> QED  BY <1>2, <2>1, <2>2
<1> QED  BY <1>3, <1>4, <1>5

LEMMA ReturnStack ==
    ASSUME stack \in Seq(Frame), stack # << >>, NEW v, Return(v)
    PROVE  /\ stack' \in Seq(Frame) /\ Len(stack') = Len(stack) - 1
           /\ \A i \in 1 .. Len(stack) - 1 : stack'[i] = stack[i + 1]
           /\ stack' = << >> <=> Len(stack) = 1
           /\ ret' = v
<1>1. stack' = Tail(stack) /\ ret' = v
    BY DEF Return
<1>2. /\ Tail(stack) \in Seq(Frame) /\ Len(Tail(stack)) = Len(stack) - 1
      /\ \A i \in 1 .. Len(stack) - 1 : Tail(stack)[i] = stack[i + 1]
    OBVIOUS
<1>3. \A q \in Seq(Frame) : q = << >> <=> Len(q) = 0
    OBVIOUS
<1>4. Tail(stack) = << >> <=> Len(stack) - 1 = 0
    BY <1>2, <1>3, Zenon
<1>5. Len(stack) - 1 = 0 <=> Len(stack) = 1
    OBVIOUS
<1> QED  BY <1>1, <1>2, <1>4, <1>5

LEMMA FirstTwo ==
    ASSUME NEW S, NEW q \in Seq(S), q # << >>
    PROVE  q[1] \in S /\ (Len(q) # 1 => q[2] \in S)
<1>1. Len(q) \in Nat \ {0}
    OBVIOUS
<1>2. \A i \in 1 .. Len(q) : q[i] \in S
    OBVIOUS
<1>3. \A n \in Nat \ {0} : 1 \in 1 .. n /\ (n # 1 => 2 \in 1 .. n)
    OBVIOUS
<1> QED  BY <1>1, <1>2, <1>3

LEMMA FrType ==
    ASSUME NEW at \in Places
    PROVE  /\ Fr(at) \in Frame /\ Fr(at).at = at /\ Fr(at).sig = FALSE
           /\ Fr(at).tmp = << >> /\ Fr(at).to = 0 /\ Fr(at).mode = "NONE"
<1>1. 0 \in Addr
    BY WidthAssumption DEF Addr
<1> QED  BY <1>1 DEF Fr, Frame

LEMMA ResumeType ==
    ASSUME stack \in Seq(Frame), stack # << >>, NEW at \in Places
    PROVE  /\ Head(stack) = stack[1] /\ stack[1] \in Frame
           /\ Resume(at) \in Frame /\ Resume(at).at = at /\ Resume(at).sig = stack[1].sig
           /\ Resume(at).to = stack[1].to /\ Resume(at).tmp = stack[1].tmp
           /\ Resume(at).mode = stack[1].mode
<1>1. Head(stack) = stack[1] /\ stack[1] \in Frame
    OBVIOUS
<1> QED  BY <1>1 DEF Resume, Frame

----------------------------------------------------------------------------
(* Type correctness.                                                       *)

InferiorOK ==
    /\ pc \in Addr /\ mem \in Mems
    /\ proc \in {"stopped", "stepping", "running", "dead"}
    /\ event \in {"none", "TRAP", "SIGNAL", "NEW_PID", "DEAD", "ERROR"}
    /\ nevents \in 0 .. use.maxEvents

ControlOK ==
    /\ stack \in Seq(Frame) /\ ret \in BOOLEAN
    /\ \A i \in 1 .. Len(stack) : stack[i].at \in {"until", "dcu"} => stack[i].to \in Prog

RestOK ==
    /\ recoil_mode \in {"NONE", "STEP", "CONTINUE"}
    /\ bp_addr \in Addr /\ signum \in {"none", "TRAP", "SIG"}
    /\ use \in Uses /\ swstep \in use.swsteps /\ policy \in use.policies
    /\ trapped \in BOOLEAN /\ moved \in BOOLEAN /\ owed \in Int /\ mine \subseteq BpAddrs

\* TypeOK with what keeps it: breakpoints, traps and targets are at
\* instructions of the program, so that pc never leaves the address space.
TypeInv == InferiorOK /\ bps \in Bps /\ ControlOK /\ RestOK

LEMMA TypeInvImplies == TypeInv => TypeOK
BY DEF TypeInv, InferiorOK, ControlOK, RestOK, TypeOK, Mems, Bps

\* What is known of the use of a session.
LEMMA UseType ==
    ASSUME use \in Uses
    PROVE  /\ use.steps \subseteq Prog /\ use.untils \subseteq Prog /\ use.dcus \subseteq Prog
           /\ use.pcs \subseteq Prog /\ use.kinds \subseteq {"break", "trace", "cond"}
           /\ use.events \subseteq {"SIGNAL", "NEW_PID", "DEAD", "ERROR"}
           /\ use.policies \subseteq {"stop", "cont", "skip"} /\ use.policies # {}
           /\ use.swsteps \subseteq BOOLEAN /\ use.enables \subseteq BOOLEAN
           /\ use.maxEvents \in Nat /\ use.maxOwed \in Nat
BY UsesAssumption DEF Use

LEMMA InitType == Init => TypeInv
<1> SUFFICES ASSUME Init PROVE TypeInv
    OBVIOUS
<1>1. /\ use \in Uses /\ use.maxEvents \in Nat
      /\ swstep \in use.swsteps /\ policy \in use.policies
    BY UseType DEF Init
<1>2. pc \in Addr /\ 0 \in Addr
    <2>1. pc \in Prog
        BY ProgAssumption DEF Init
    <2> QED  BY <2>1, ProgAddr DEF Addr
<1>3. mem \in Mems
    BY ProgAddr DEF Init, Code, Mems, Byte
<1>4. InferiorOK
    BY <1>1, <1>2, <1>3 DEF Init, InferiorOK
<1>5. bps \in Bps
    BY DEF Init, Bps
<1>6. ControlOK
    <2>1. stack = << >> /\ ret \in BOOLEAN
        BY DEF Init
    <2> QED  BY <2>1 DEF ControlOK
<1>7. trapped \in BOOLEAN /\ moved \in BOOLEAN
    BY DEF Init
<1>8. RestOK
    BY <1>1, <1>2, <1>7 DEF Init, RestOK
<1> QED  BY <1>4, <1>5, <1>6, <1>8 DEF TypeInv

\* The control steps keep ControlOK.
LEMMA GotoType ==
    ASSUME ControlOK, stack # << >>, NEW f \in Frame, f.at \in {"until", "dcu"} => f.to \in Prog,
           Goto(f)
    PROVE  ControlOK'
BY GotoStack DEF ControlOK

LEMMA CallType ==
    ASSUME ControlOK, stack # << >>, NEW f \in Frame, NEW g \in Frame,
           f.at \notin {"until", "dcu"}, g.at \notin {"until", "dcu"}, Call(f, g)
    PROVE  ControlOK'
<1>1. /\ stack \in Seq(Frame)
      /\ stack' \in Seq(Frame) /\ Len(stack') = Len(stack) + 1
      /\ stack'[1] = g /\ stack'[2] = f
      /\ \A i \in 2 .. Len(stack) : stack'[i + 1] = stack[i]
      /\ ret' = ret
    BY CallStack DEF ControlOK
<1>2. ASSUME NEW i \in 1 .. Len(stack'), stack'[i].at \in {"until", "dcu"}
      PROVE  stack'[i].to \in Prog
    <2>1. i # 1 /\ i # 2
        BY <1>1, <1>2
    <2>2. PICK j \in 2 .. Len(stack) : i = j + 1
        BY <1>1, <2>1
    <2> QED  BY <1>1, <1>2, <2>2 DEF ControlOK
<1> QED  BY <1>1, <1>2 DEF ControlOK

LEMMA ReturnType ==
    ASSUME ControlOK, stack # << >>, NEW v \in BOOLEAN, Return(v)
    PROVE  ControlOK'
<1>1. /\ stack \in Seq(Frame)
      /\ stack' \in Seq(Frame) /\ Len(stack') = Len(stack) - 1
      /\ \A i \in 1 .. Len(stack) - 1 : stack'[i] = stack[i + 1]
      /\ ret' \in BOOLEAN
    BY ReturnStack DEF ControlOK
<1>2. ASSUME NEW i \in 1 .. Len(stack'), stack'[i].at \in {"until", "dcu"}
      PROVE  stack'[i].to \in Prog
    <2>1. i + 1 \in 1 .. Len(stack) /\ stack'[i] = stack[i + 1]
        BY <1>1
    <2> QED  BY <1>2, <2>1 DEF ControlOK
<1> QED  BY <1>1, <1>2 DEF ControlOK

\* Nothing of the list, the control and the rest changes.
LEMMA SameBps == ASSUME bps \in Bps, bps' = bps PROVE bps' \in Bps
OBVIOUS

LEMMA SameControl == ASSUME ControlOK, UNCHANGED control PROVE ControlOK'
BY DEF ControlOK, control

\* The steps of the debuggee.
LEMMA InferiorType == ASSUME TypeInv, Inferior PROVE TypeInv'
<1> USE DEF TypeInv
<1>1. UNCHANGED <<bps, recoil_mode, bp_addr, signum, config, control, mem, mine>>
    BY DEF Inferior, Exec, ExecTrap, Interrupt, Die, history
<1>2. ControlOK' /\ bps' \in Bps
    BY <1>1, SameControl
<1>3. UNCHANGED <<use, swstep, policy>>
    BY <1>1 DEF config
<1>4. use \in Uses
    BY DEF RestOK
<1>5. ASSUME Exec PROVE TypeInv'
    <2>1. pc' \in Addr
        BY <1>5, ProgAssumption, ProgAddr DEF Exec
    <2>2. UNCHANGED <<trapped, owed, nevents>> /\ moved' \in BOOLEAN
        BY <1>5 DEF Exec
    <2>3. proc' \in {"stopped", "running"} /\ event' \in {"TRAP", event}
        BY <1>5 DEF Exec, Stop, Resumed
    <2>4. InferiorOK'
        BY <1>1, <1>3, <2>1, <2>2, <2>3 DEF InferiorOK
    <2>5. RestOK'
        BY <1>1, <1>3, <2>2 DEF RestOK
    <2> QED  BY <1>2, <2>4, <2>5
<1>6. ASSUME ExecTrap PROVE TypeInv'
    <2>1. pc' \in Addr
        <3>1. pc \in Prog /\ pc' = pc + 1
            BY <1>6 DEF ExecTrap, InferiorOK, Mems
        <3> QED  BY <3>1, ProgAddr
    <2>2. UNCHANGED <<moved, owed, nevents>> /\ trapped' \in BOOLEAN
        BY <1>6 DEF ExecTrap
    <2>3. proc' = "stopped" /\ event' = "TRAP"
        BY <1>6 DEF ExecTrap, Stop
    <2>4. InferiorOK'
        BY <1>1, <1>3, <2>1, <2>2, <2>3 DEF InferiorOK
    <2>5. RestOK'
        BY <1>1, <1>3, <2>2 DEF RestOK
    <2> QED  BY <1>2, <2>4, <2>5
<1>7. ASSUME NEW e \in use.events, Interrupt(e) PROVE TypeInv'
    <2>1. UNCHANGED <<pc, trapped, moved>> /\ proc' = "stopped" /\ event' = e
        BY <1>7 DEF Interrupt, Stop
    <2>2. e \in {"SIGNAL", "NEW_PID", "DEAD", "ERROR"}
        BY <1>4, UseType
    <2>3. nevents' \in 0 .. use.maxEvents
        BY <1>4, <1>7, UseType DEF Interrupt, InferiorOK
    <2>4. owed' \in Int
        BY <1>7 DEF Interrupt, RestOK
    <2>5. InferiorOK'
        BY <1>1, <1>3, <2>1, <2>2, <2>3 DEF InferiorOK
    <2>6. RestOK'
        BY <1>1, <1>3, <2>1, <2>4 DEF RestOK
    <2> QED  BY <1>2, <2>5, <2>6
<1>8. ASSUME Die PROVE TypeInv'
    <2>1. UNCHANGED <<pc, nevents, trapped, moved, owed>>
        BY <1>8 DEF Die, history
    <2>2. proc' = "dead" /\ event' \in {"DEAD", "ERROR"}
        BY <1>8 DEF Die
    <2>3. InferiorOK'
        BY <1>1, <1>3, <2>1, <2>2 DEF InferiorOK
    <2>4. RestOK'
        BY <1>1, <1>3, <2>1 DEF RestOK
    <2> QED  BY <1>2, <2>3, <2>4
<1> QED  BY <1>5, <1>6, <1>7, <1>8 DEF Inferior

\* r_debug_wait, with r_debug_bp_hit.
LEMMA WaitType ==
    ASSUME TypeInv, r_debug_wait, UNCHANGED <<proc, nevents, use, swstep, policy, recoil_mode, moved, owed, mine>>
    PROVE  InferiorOK' /\ RestOK'
<1> USE DEF TypeInv
<1>1. /\ pc' \in Addr /\ mem' \in Mems /\ bp_addr' \in Addr /\ trapped' \in BOOLEAN
    <2>1. CASE event # "TRAP"
        <3>1. UNCHANGED <<pc, mem, bp_addr, trapped>>
            BY <2>1 DEF r_debug_wait
        <3> QED  BY <3>1 DEF InferiorOK, RestOK
    <2>2. CASE event = "TRAP"
        <3>1. r_debug_bp_hit
            BY <2>2 DEF r_debug_wait
        <3>2. mem' \in Mems
            BY <3>1, RestoreType DEF r_debug_bp_hit, r_bp_restore, InferiorOK
        <3>3. 0 \in Addr
            BY WidthAssumption DEF Addr
        <3>4. CASE Recoiling
            BY <3>1, <3>2, <3>3, <3>4 DEF r_debug_bp_hit, InferiorOK, RestOK
        <3>5. CASE ~Recoiling /\ HitPos = NoPos
            BY <3>1, <3>2, <3>5 DEF r_debug_bp_hit, InferiorOK, RestOK
        <3>6. CASE ~Recoiling /\ HitPos # NoPos
            <4>1. HitPos \in 1 .. Len(bps) /\ bps[HitPos].addr = pc - 1
                BY <3>6, GetAt DEF HitPos
            <4>2. bps[HitPos].addr \in Addr
                BY <4>1, ItemAt, ProgAddr
            <4>3. pc' = pc - 1 /\ trapped' = FALSE
                BY <3>1, <3>6 DEF r_debug_bp_hit
            <4>4. bp_addr' \in {0, bps[HitPos].addr}
                BY <3>1, <3>6 DEF r_debug_bp_hit
            <4>5. trapped' \in BOOLEAN
                BY <4>3
            <4> QED  BY <3>2, <3>3, <4>1, <4>2, <4>3, <4>4, <4>5
        <3> QED  BY <3>4, <3>5, <3>6
    <2> QED  BY <2>1, <2>2
<1>2. event' = "none"
    BY DEF r_debug_wait
<1>3. signum' \in {"TRAP", "SIG", signum}
    BY DEF r_debug_wait
<1>4. InferiorOK'
    BY <1>1, <1>2 DEF InferiorOK
<1>5. RestOK'
    BY <1>1, <1>3 DEF RestOK
<1> QED  BY <1>4, <1>5

\* The places that control steps go to, and the frames made from Fr and Resume.
LEMMA PlaceNames ==
    /\ {"step", "step_ret", "hard", "hard_recoiled", "hard_go", "hard_wait"} \subseteq Places
    /\ {"recoil", "recoil_stepped", "cont", "cont_recoiled", "cont_wait", "cont_skip"} \subseteq Places
    /\ {"soft", "soft_ret", "until", "until_loop", "dcu", "dcu_ret"} \subseteq Places
BY DEF Places

LEMMA RecoilFrame ==
    ASSUME NEW mode \in {"STEP", "CONTINUE"}
    PROVE  LET f == [Fr("recoil") EXCEPT !.mode = mode]
           IN  f \in Frame /\ f.at = "recoil" /\ f.mode = mode /\ f.sig = FALSE /\ f.tmp = << >>
<1>1. Fr("recoil") \in Frame /\ Fr("recoil").at = "recoil" /\ Fr("recoil").sig = FALSE
      /\ Fr("recoil").tmp = << >>
    BY FrType, PlaceNames
<1> QED  BY <1>1 DEF Frame

LEMMA TmpFrame ==
    ASSUME NEW f \in Frame, NEW t \in Seq(Addr)
    PROVE  LET g == [f EXCEPT !.tmp = t]
           IN  g \in Frame /\ g.at = f.at /\ g.to = f.to /\ g.tmp = t /\ g.sig = f.sig
BY DEF Frame

LEMMA AtTop ==
    ASSUME stack \in Seq(Frame), NEW place, At(place)
    PROVE  stack # << >> /\ Head(stack) = stack[1] /\ stack[1] \in Frame
           /\ stack[1].at = place /\ Len(stack) \in Nat \ {0}
BY DEF At

\* Steps that change the control only.
LEMMA QuietType ==
    ASSUME TypeInv, Quiet, ControlOK'
    PROVE  TypeInv'
<1>1. UNCHANGED <<pc, mem, proc, event, nevents, bps, recoil_mode, bp_addr, signum,
                  swstep, policy, use, trapped, moved, owed, mine>>
    BY DEF Quiet, inferior, config, history
<1> QED  BY <1>1 DEF TypeInv, InferiorOK, RestOK

LEMMA StepType ==
    ASSUME TypeInv, r_debug_step \/ StepReturn \/ StepHardEnter
    PROVE  TypeInv'
<1>1. Quiet /\ ControlOK /\ stack \in Seq(Frame) /\ ret \in BOOLEAN
    BY DEF r_debug_step, StepReturn, StepHardEnter, TypeInv, ControlOK
<1>2. ASSUME r_debug_step PROVE ControlOK'
    <2>1. stack # << >>
        BY <1>1, <1>2, AtTop DEF r_debug_step
    <2>2. CASE Dead
        BY <1>1, <1>2, <2>1, <2>2, ReturnType DEF r_debug_step
    <2>3. CASE ~Dead
        <3>1. PICK at \in {"soft", "hard"} : Call(Fr("step_ret"), Fr(at))
            BY <1>2, <2>3 DEF r_debug_step
        <3>2. /\ Fr("step_ret") \in Frame /\ Fr("step_ret").at = "step_ret"
              /\ Fr(at) \in Frame /\ Fr(at).at = at
            BY FrType, PlaceNames
        <3> QED  BY <1>1, <2>1, <3>1, <3>2, CallType
    <2> QED  BY <2>2, <2>3
<1>3. ASSUME StepReturn PROVE ControlOK'
    BY <1>1, <1>3, AtTop, ReturnType DEF StepReturn
<1>4. ASSUME StepHardEnter PROVE ControlOK'
    <2>1. stack # << >>
        BY <1>1, <1>4, AtTop DEF StepHardEnter
    <2>2. CASE Dead
        BY <1>1, <1>4, <2>1, <2>2, ReturnType DEF StepHardEnter
    <2>3. CASE ~Dead /\ recoil_mode = "NONE"
        <3>1. Call(Fr("hard_recoiled"), [Fr("recoil") EXCEPT !.mode = "STEP"])
            BY <1>4, <2>3 DEF StepHardEnter
        <3>2. Fr("hard_recoiled") \in Frame /\ Fr("hard_recoiled").at = "hard_recoiled"
            BY FrType, PlaceNames
        <3> QED  BY <1>1, <2>1, <3>1, <3>2, CallType, RecoilFrame
    <2>4. CASE ~Dead /\ recoil_mode # "NONE"
        <3>1. Goto(Fr("hard_go"))
            BY <1>4, <2>4 DEF StepHardEnter
        <3>2. Fr("hard_go") \in Frame /\ Fr("hard_go").at = "hard_go"
            BY FrType, PlaceNames
        <3> QED  BY <1>1, <2>1, <3>1, <3>2, GotoType
    <2> QED  BY <2>2, <2>3, <2>4
<1> QED  BY <1>1, <1>2, <1>3, <1>4, QuietType

LEMMA HardType ==
    ASSUME TypeInv, StepHardRecoiled \/ StepHardGo \/ StepHardWait
    PROVE  TypeInv'
<1>1. ControlOK /\ stack \in Seq(Frame) /\ ret \in BOOLEAN /\ use \in Uses
    BY DEF TypeInv, ControlOK, RestOK
<1>2. Fr("hard_go") \in Frame /\ Fr("hard_go").at = "hard_go"
      /\ Fr("hard_wait") \in Frame /\ Fr("hard_wait").at = "hard_wait"
    BY FrType, PlaceNames
<1>3. ASSUME StepHardRecoiled PROVE TypeInv'
    <2>1. stack # << >>
        BY <1>1, <1>3, AtTop DEF StepHardRecoiled
    <2>2. (\E v \in BOOLEAN : Return(v)) \/ Goto(Fr("hard_go"))
        BY <1>3 DEF StepHardRecoiled
    <2>3. ControlOK'
        BY <1>1, <1>2, <2>1, <2>2, ReturnType, GotoType
    <2>4. recoil_mode' \in {"NONE", recoil_mode}
        BY <1>3 DEF StepHardRecoiled
    <2>5. UNCHANGED <<pc, mem, proc, event, nevents, bps, bp_addr, signum, swstep, policy, use,
                      trapped, moved, owed, mine>>
        BY <1>3 DEF StepHardRecoiled, inferior, config, history
    <2> QED  BY <2>3, <2>4, <2>5 DEF TypeInv, InferiorOK, RestOK
<1>4. ASSUME StepHardGo PROVE TypeInv'
    <2>1. stack # << >>
        BY <1>1, <1>4, AtTop DEF StepHardGo
    <2>2. Return(FALSE) \/ Goto(Fr("hard_wait"))
        BY <1>4 DEF StepHardGo
    <2>3. ControlOK'
        BY <1>1, <1>2, <2>1, <2>2, ReturnType, GotoType
    <2>4. proc' \in {"stepping", proc}
        BY <1>4 DEF StepHardGo
    <2>5. nevents' \in 0 .. use.maxEvents
        <3>1. nevents' = nevents \/ (nevents < use.maxEvents /\ nevents' = nevents + 1)
            BY <1>4 DEF StepHardGo
        <3>2. nevents \in 0 .. use.maxEvents /\ use.maxEvents \in Nat /\ use' = use
            BY <1>1, <1>4, UseType DEF StepHardGo, TypeInv, InferiorOK, config
        <3> QED  BY <3>1, <3>2
    <2>6. UNCHANGED <<pc, mem, event, bps, recoil_mode, bp_addr, signum, swstep, policy, use,
                      trapped, moved, owed, mine>>
        BY <1>4 DEF StepHardGo, config, history
    <2>7. InferiorOK'
        BY <2>4, <2>5, <2>6 DEF TypeInv, InferiorOK
    <2> QED  BY <2>3, <2>6, <2>7 DEF TypeInv, RestOK
<1>5. ASSUME StepHardWait PROVE TypeInv'
    <2>1. stack # << >> /\ r_debug_wait
        BY <1>1, <1>5, AtTop DEF StepHardWait
    <2>2. ControlOK'
        BY <1>1, <1>5, <2>1, ReturnType DEF StepHardWait
    <2>3. UNCHANGED <<proc, nevents, bps, use, swstep, policy, recoil_mode, moved, owed, mine>>
        BY <1>5 DEF StepHardWait, config
    <2> QED  BY <2>1, <2>2, <2>3, WaitType DEF TypeInv
<1> QED  BY <1>3, <1>4, <1>5

LEMMA SoftType ==
    ASSUME TypeInv, StepSoftEnter \/ StepSoftReturn
    PROVE  TypeInv'
<1>1. ControlOK /\ stack \in Seq(Frame) /\ ret \in BOOLEAN /\ bps \in Bps /\ mem \in Mems
    BY DEF TypeInv, ControlOK, InferiorOK
<1>2. ASSUME StepSoftEnter PROVE TypeInv'
    <2>1. stack # << >>
        BY <1>1, <1>2, AtTop DEF StepSoftEnter
    <2>2. recoil_mode' \in {"STEP", recoil_mode}
        BY <1>2 DEF StepSoftEnter
    <2>3. UNCHANGED <<pc, mem, proc, event, nevents, bp_addr, signum, swstep, policy, use,
                      trapped, moved, owed, mine>>
        BY <1>2 DEF StepSoftEnter, inferior, config, history
    <2>4. ControlOK' /\ bps' \in Bps
        <3>1. CASE Return(FALSE) /\ bps' = bps
            BY <1>1, <2>1, <3>1, ReturnType
        <3>2. CASE /\ pc \in Prog /\ AnalNext[pc] # << >> /\ bps' = WithTmp(bps, AnalNext[pc])
                   /\ Call([Fr("soft_ret") EXCEPT !.tmp = AnalNext[pc]], Fr("cont"))
            <4> DEFINE next == AnalNext[pc]
                       f    == [Fr("soft_ret") EXCEPT !.tmp = next]
            <4>1. next \in Seq(Prog) /\ Len(next) <= 2 /\ next # << >>
                BY <3>2, ProgAssumption
            <4>2. next[1] \in Prog /\ (Len(next) # 1 => next[2] \in Prog)
                <5> HIDE DEF next
                <5> QED  BY <4>1, FirstTwo
            <4>3. WithBp(bps, next[1], "break", TRUE) \in Bps
                BY <1>1, <4>2, WithBpType
            <4>4. WithTmp(bps, next) \in Bps
                BY <1>1, <4>2, <4>3, WithBpType DEF WithTmp
            <4>5. next \in Seq(Addr)
                BY <4>1, ProgAddr
            <4>6. f \in Frame /\ f.at = "soft_ret"
                <5>1. Fr("soft_ret") \in Frame /\ Fr("soft_ret").at = "soft_ret"
                    BY FrType, PlaceNames
                <5> QED  BY <4>5, <5>1, TmpFrame
            <4>7. Fr("cont") \in Frame /\ Fr("cont").at = "cont"
                BY FrType, PlaceNames
            <4>8. ControlOK'
                BY <1>1, <2>1, <3>2, <4>6, <4>7, CallType
            <4> QED  BY <3>2, <4>4, <4>8
        <3> QED  BY <1>2, <3>1, <3>2 DEF StepSoftEnter
    <2> QED  BY <2>2, <2>3, <2>4 DEF TypeInv, InferiorOK, RestOK
<1>3. ASSUME StepSoftReturn PROVE TypeInv'
    <2>1. stack # << >>
        BY <1>1, <1>3, AtTop DEF StepSoftReturn
    <2>2. ControlOK'
        BY <1>1, <1>3, <2>1, ReturnType DEF StepSoftReturn
    <2>3. bps' \in Bps
        BY <1>1, <1>3, WithoutBpType DEF StepSoftReturn, WithoutTmp
    <2>4. UNCHANGED <<pc, mem, proc, event, nevents, recoil_mode, bp_addr, signum, swstep,
                      policy, use, trapped, moved, owed, mine>>
        BY <1>3 DEF StepSoftReturn, inferior, config, history
    <2> QED  BY <2>2, <2>3, <2>4 DEF TypeInv, InferiorOK, RestOK
<1> QED  BY <1>2, <1>3

LEMMA RecoilType ==
    ASSUME TypeInv, RecoilEnter \/ RecoilStepped
    PROVE  TypeInv'
<1>1. /\ ControlOK /\ stack \in Seq(Frame) /\ stack # << >> /\ bps \in Bps /\ mem \in Mems
      /\ stack[1].mode \in {"NONE", "STEP", "CONTINUE"} /\ Head(stack) = stack[1]
    <2>1. ControlOK /\ stack \in Seq(Frame) /\ bps \in Bps /\ mem \in Mems
        BY DEF TypeInv, ControlOK, InferiorOK
    <2>2. stack # << >> /\ Head(stack) = stack[1] /\ stack[1] \in Frame
        BY <2>1, AtTop DEF RecoilEnter, RecoilStepped
    <2> QED  BY <2>1, <2>2 DEF Frame
<1>2. (\E v \in BOOLEAN : Return(v)) \/ Call(Fr("recoil_stepped"), Fr("step"))
    BY DEF RecoilEnter, RecoilStepped
<1>3. ControlOK'
    <2>1. /\ Fr("recoil_stepped") \in Frame /\ Fr("recoil_stepped").at = "recoil_stepped"
          /\ Fr("step") \in Frame /\ Fr("step").at = "step"
        BY FrType, PlaceNames
    <2> QED  BY <1>1, <1>2, <2>1, ReturnType, CallType
<1>4. mem' \in Mems
    <2>1. mem' = mem \/ \E except : mem' = r_bp_restore_except(bps, mem, TRUE, except)
        BY DEF RecoilEnter, RecoilStepped, r_debug_bps_enable, r_bp_restore
    <2> QED  BY <1>1, <2>1, RestoreType
<1>5. recoil_mode' \in {"NONE", recoil_mode, stack[1].mode}
    BY <1>1 DEF RecoilEnter, RecoilStepped, r_debug_bps_enable
<1>6. UNCHANGED <<pc, proc, event, nevents, bps, bp_addr, signum, swstep,
                  policy, use, trapped, moved, owed, mine>>
    BY DEF RecoilEnter, RecoilStepped, config, history
<1> QED  BY <1>1, <1>3, <1>4, <1>5, <1>6 DEF TypeInv, InferiorOK, RestOK

LEMMA ContType ==
    ASSUME TypeInv, ContRepeat \/ ContGo \/ ContWait \/ ContSkip
    PROVE  TypeInv'
<1>1. ControlOK /\ stack \in Seq(Frame) /\ ret \in BOOLEAN /\ bps \in Bps
    BY DEF TypeInv, ControlOK
<1>2. stack # << >> /\ stack[1] \in Frame
    BY <1>1, AtTop DEF ContRepeat, ContGo, ContWait, ContSkip
<1>3. \A at \in Places : Resume(at) \in Frame /\ Resume(at).at = at
    BY <1>1, <1>2, ResumeType
<1>4. ASSUME ContRepeat PROVE TypeInv'
    <2>1. CASE Return(FALSE)
        BY <1>1, <1>2, <1>4, <2>1, ReturnType, QuietType DEF ContRepeat
    <2>2. CASE Call(Resume("cont_recoiled"), [Fr("recoil") EXCEPT !.mode = "CONTINUE"])
        <3>1. Resume("cont_recoiled") \in Frame /\ Resume("cont_recoiled").at = "cont_recoiled"
            BY <1>3, PlaceNames
        <3>2. ControlOK'
            BY <1>1, <1>2, <2>2, <3>1, CallType, RecoilFrame
        <3> QED  BY <1>4, <3>2, QuietType DEF ContRepeat
    <2> QED  BY <1>4, <2>1, <2>2 DEF ContRepeat
<1>5. ASSUME ContGo PROVE TypeInv'
    <2>1. Return(FALSE) \/ Goto(Resume("cont_wait"))
        BY <1>5 DEF ContGo
    <2>2. Resume("cont_wait") \in Frame /\ Resume("cont_wait").at = "cont_wait"
        BY <1>3, PlaceNames
    <2>3. ControlOK'
        BY <1>1, <1>2, <2>1, <2>2, ReturnType, GotoType
    <2>4. proc' \in {"running", proc} /\ owed' \in Int
        <3>1. owed \in Int
            BY DEF TypeInv, RestOK
        <3>2. owed' = owed \/ owed' = owed - 1
            BY <1>5 DEF ContGo
        <3>3. proc' = "running" \/ proc' = proc
            BY <1>5 DEF ContGo
        <3> QED  BY <3>1, <3>2, <3>3
    <2>5. UNCHANGED <<pc, mem, event, nevents, bps, recoil_mode, bp_addr, signum, swstep,
                      policy, use, trapped, moved, mine>>
        BY <1>5 DEF ContGo, config
    <2> QED  BY <2>3, <2>4, <2>5 DEF TypeInv, InferiorOK, RestOK
<1>6. ASSUME ContWait PROVE TypeInv'
    <2>1. \/ \E v \in BOOLEAN : Return(v)
          \/ Call(Resume("cont"), Fr("step"))
          \/ Goto(Resume("cont")) \/ Again(TRUE)
          \/ Goto([Resume("cont_skip") EXCEPT !.sig = FALSE])
        <3>1. Policy \in {"stop", "cont", "skip"}
            BY UseType DEF Policy, TypeInv, RestOK
        <3> QED  BY <1>6, <3>1 DEF ContWait
    <2>2. /\ Resume("cont") \in Frame /\ Resume("cont").at = "cont"
          /\ Resume("cont_skip") \in Frame /\ Resume("cont_skip").at = "cont_skip"
          /\ Fr("step") \in Frame /\ Fr("step").at = "step"
        BY <1>3, PlaceNames, FrType
    <2>3. /\ [Resume("cont_skip") EXCEPT !.sig = FALSE] \in Frame
          /\ [Resume("cont_skip") EXCEPT !.sig = FALSE].at = "cont_skip"
          /\ [Resume("cont") EXCEPT !.sig = TRUE] \in Frame
          /\ [Resume("cont") EXCEPT !.sig = TRUE].at = "cont"
        BY <2>2 DEF Frame
    <2>4. ControlOK'
        BY <1>1, <1>2, <2>1, <2>2, <2>3, ReturnType, CallType, GotoType DEF Again
    <2>5. UNCHANGED <<proc, nevents, bps, use, swstep, policy, recoil_mode, moved, owed, mine>>
          /\ r_debug_wait
        BY <1>6 DEF ContWait, config
    <2> QED  BY <2>4, <2>5, WaitType DEF TypeInv
<1>7. ASSUME ContSkip PROVE TypeInv'
    <2>1. Return(TRUE) \/ Goto(Resume("cont"))
        BY <1>7 DEF ContSkip
    <2>2. Resume("cont") \in Frame /\ Resume("cont").at = "cont"
        BY <1>3, PlaceNames
    <2>3. ControlOK'
        BY <1>1, <1>2, <2>1, <2>2, ReturnType, GotoType
    <2>4. pc' \in Addr
        BY <1>7, ProgAddr DEF ContSkip, TypeInv, InferiorOK
    <2>5. UNCHANGED <<mem, proc, event, nevents, bps, recoil_mode, bp_addr, signum, swstep,
                      policy, use, trapped, moved, owed, mine>>
        BY <1>7 DEF ContSkip, config, history
    <2> QED  BY <2>3, <2>4, <2>5 DEF TypeInv, InferiorOK, RestOK
<1> QED  BY <1>4, <1>5, <1>6, <1>7

LEMMA UntilType ==
    ASSUME TypeInv, UntilEnter \/ UntilLoop \/ DcuEnter \/ DcuReturn
    PROVE  TypeInv'
<1>1. ControlOK /\ stack \in Seq(Frame) /\ bps \in Bps /\ mem \in Mems
    BY DEF TypeInv, ControlOK, InferiorOK
<1>2. /\ stack # << >> /\ stack[1] \in Frame /\ Head(stack) = stack[1] /\ stack[1].to \in Addr
      /\ 1 \in 1 .. Len(stack)
    <2>1. stack # << >> /\ stack[1] \in Frame /\ Head(stack) = stack[1]
        BY <1>1, AtTop DEF UntilEnter, UntilLoop, DcuEnter, DcuReturn
    <2>2. 1 \in 1 .. Len(stack)
        BY <1>1, <2>1
    <2> QED  BY <2>1, <2>2 DEF Frame
<1>3. \A at \in Places : Resume(at) \in Frame /\ Resume(at).at = at
    BY <1>1, <1>2, ResumeType
<1>4. << >> \in Seq(Addr) /\ <<stack[1].to>> \in Seq(Addr)
    BY <1>2
<1>5. Fr("cont") \in Frame /\ Fr("cont").at = "cont"
    BY FrType, PlaceNames
<1>6. ControlOK' /\ bps' \in Bps
    <2>1. ASSUME UntilEnter PROVE ControlOK' /\ bps' \in Bps
        <3>1. stack[1].to \in Prog
            BY <1>1, <1>2, <2>1, AtTop DEF UntilEnter, ControlOK
        <3>2. CASE Return(FALSE) /\ bps' = bps
            BY <1>1, <1>2, <3>2, ReturnType
        <3>3. CASE /\ bps' = WithBp(bps, stack[1].to, "break", FALSE)
                   /\ \E t \in {<< >>, <<stack[1].to>>} :
                         Goto([Resume("until_loop") EXCEPT !.tmp = t])
            <4>1. bps' \in Bps
                BY <1>1, <3>1, <3>3, WithBpType
            <4>2. PICK t \in {<< >>, <<stack[1].to>>} :
                     Goto([Resume("until_loop") EXCEPT !.tmp = t])
                BY <3>3
            <4>3. t \in Seq(Addr)
                BY <1>4
            <4>4. Resume("until_loop") \in Frame /\ Resume("until_loop").at = "until_loop"
                BY <1>3, PlaceNames
            <4>5. /\ [Resume("until_loop") EXCEPT !.tmp = t] \in Frame
                  /\ [Resume("until_loop") EXCEPT !.tmp = t].at = "until_loop"
                BY <4>3, <4>4, TmpFrame
            <4> QED  BY <1>1, <1>2, <4>1, <4>2, <4>5, GotoType
        <3> QED  BY <1>2, <2>1, <3>2, <3>3, Zenon DEF UntilEnter
    <2>2. ASSUME UntilLoop PROVE ControlOK' /\ bps' \in Bps
        <3>1. CASE bps' = WithoutTmp(bps, Head(stack).tmp) /\ Return(TRUE)
            BY <1>1, <1>2, <3>1, WithoutBpType, ReturnType DEF WithoutTmp
        <3>2. CASE Call(Head(stack), Fr("cont")) /\ UNCHANGED bps
            <4>1. stack[1].at = "until_loop"
                BY <1>1, <2>2, AtTop DEF UntilLoop
            <4> QED  BY <1>1, <1>2, <1>5, <3>2, <4>1, CallType
        <3> QED  BY <2>2, <3>1, <3>2 DEF UntilLoop
    <2>3. ASSUME DcuEnter PROVE ControlOK' /\ bps' \in Bps
        <3>1. stack[1].to \in Prog
            BY <1>1, <1>2, <2>3, AtTop DEF DcuEnter, ControlOK
        <3>2. bps' \in Bps
            BY <1>1, <1>2, <2>3, <3>1, WithBpType DEF DcuEnter
        <3>3. Resume("dcu_ret") \in Frame /\ Resume("dcu_ret").at = "dcu_ret"
            BY <1>3, PlaceNames
        <3>4. /\ [Resume("dcu_ret") EXCEPT !.tmp = <<stack[1].to>>] \in Frame
              /\ [Resume("dcu_ret") EXCEPT !.tmp = <<stack[1].to>>].at = "dcu_ret"
            BY <1>4, <3>3, TmpFrame
        <3>5. Call([Resume("dcu_ret") EXCEPT !.tmp = <<stack[1].to>>], Fr("cont"))
            BY <1>2, <2>3 DEF DcuEnter
        <3> QED  BY <1>1, <1>2, <1>5, <3>2, <3>4, <3>5, CallType
    <2>4. ASSUME DcuReturn PROVE ControlOK' /\ bps' \in Bps
        BY <1>1, <1>2, <2>4, WithoutBpType, ReturnType DEF DcuReturn, WithoutTmp
    <2> QED  BY <2>1, <2>2, <2>3, <2>4
<1>7. UNCHANGED <<pc, mem, proc, event, nevents, recoil_mode, bp_addr, signum, swstep,
                  policy, use, trapped, moved, owed, mine>>
    BY DEF UntilEnter, UntilLoop, DcuEnter, DcuReturn, inferior, config, history
<1> QED  BY <1>6, <1>7 DEF TypeInv, InferiorOK, RestOK

\* The commands that start something.
LEMMA StartType ==
    ASSUME TypeInv, NEW f \in Frame, Start(f), f.at \in {"until", "dcu"} => f.to \in Prog
    PROVE  ControlOK' /\ moved' \in BOOLEAN
<1>1. stack' = <<f>> /\ ret' = ret /\ moved' = FALSE
    BY DEF Start
<1>2. stack' \in Seq(Frame) /\ Len(stack') = 1 /\ stack'[1] = f
    BY <1>1
<1>3. ControlOK'
    BY <1>1, <1>2 DEF TypeInv, ControlOK
<1>4. moved' \in BOOLEAN
    BY <1>1
<1> QED  BY <1>3, <1>4

LEMMA EnableType ==
    ASSUME NEW s \in Bps, NEW i \in 1 .. Len(s), NEW set \in BOOLEAN
    PROVE  /\ [s EXCEPT ![i].enabled = set] \in Bps
           /\ Len([s EXCEPT ![i].enabled = set]) = Len(s)
           /\ \A j \in 1 .. Len(s) :
                 /\ [s EXCEPT ![i].enabled = set][j].addr = s[j].addr
                 /\ [s EXCEPT ![i].enabled = set][j].kind = s[j].kind
                 /\ [s EXCEPT ![i].enabled = set][j].obytes = s[j].obytes
                 /\ [s EXCEPT ![i].enabled = set][j].swstep = s[j].swstep
<1> DEFINE b == [s[i] EXCEPT !.enabled = set]
           t == [s EXCEPT ![i] = b]
<1>1. s \in Seq(Item) /\ s[i] \in Item
    BY ItemAt, BpsSeq
<1>2. /\ b \in Item /\ b.addr = s[i].addr /\ b.kind = s[i].kind
      /\ b.obytes = s[i].obytes /\ b.swstep = s[i].swstep
    BY <1>1 DEF Item
<1> HIDE DEF b
<1>3. t \in Seq(Item) /\ Len(t) = Len(s) /\ \A j \in 1 .. Len(s) : t[j] = IF j = i THEN b ELSE s[j]
    BY <1>1, <1>2
<1>4. t \in Bps
    BY <1>2, <1>3 DEF Bps
<1> QED  BY <1>2, <1>3, <1>4 DEF b

\* The commands that start something: s, dc, dcu and r_debug_continue_until.
LEMMA CommandType ==
    ASSUME TypeInv,
           \/ CmdStep \/ \E sig \in BOOLEAN : CmdContinue(sig)
           \/ \E a \in use.untils : CmdUntil(a)
           \/ \E a \in use.dcus : CmdDcu(a)
    PROVE  TypeInv'
<1>1. use \in Uses /\ owed \in Int
    BY DEF TypeInv, RestOK
<1>2. PICK f \in Frame : Start(f) /\ (f.at \in {"until", "dcu"} => f.to \in Prog)
    <2>1. /\ Fr("step") \in Frame /\ Fr("step").at = "step"
          /\ Fr("cont") \in Frame /\ Fr("cont").at = "cont"
          /\ Fr("until") \in Frame /\ Fr("until").at = "until"
          /\ Fr("dcu") \in Frame /\ Fr("dcu").at = "dcu"
        BY FrType DEF Places
    <2>2. \A sig \in BOOLEAN : /\ [Fr("cont") EXCEPT !.sig = sig] \in Frame
                               /\ [Fr("cont") EXCEPT !.sig = sig].at = "cont"
        BY <2>1 DEF Frame
    <2>3. \A a \in Prog :
             /\ [Fr("until") EXCEPT !.to = a] \in Frame /\ [Fr("until") EXCEPT !.to = a].to = a
             /\ [Fr("dcu") EXCEPT !.to = a] \in Frame /\ [Fr("dcu") EXCEPT !.to = a].to = a
        BY <2>1, ProgAddr DEF Frame
    <2>4. use.untils \subseteq Prog /\ use.dcus \subseteq Prog
        BY <1>1, UseType
    <2>5. CASE CmdStep
        BY <2>1, <2>5 DEF CmdStep
    <2>6. ASSUME NEW sig \in BOOLEAN, CmdContinue(sig)
          PROVE  \E f \in Frame : Start(f) /\ (f.at \in {"until", "dcu"} => f.to \in Prog)
        BY <2>2, <2>6 DEF CmdContinue
    <2>7. ASSUME NEW a \in use.untils, CmdUntil(a)
          PROVE  \E f \in Frame : Start(f) /\ (f.at \in {"until", "dcu"} => f.to \in Prog)
        BY <2>3, <2>4, <2>7 DEF CmdUntil
    <2>8. ASSUME NEW a \in use.dcus, CmdDcu(a)
          PROVE  \E f \in Frame : Start(f) /\ (f.at \in {"until", "dcu"} => f.to \in Prog)
        <3>1. PICK f \in Frame : f = [Fr("dcu") EXCEPT !.to = a] /\ f.to \in Prog
            BY <2>3, <2>4
        <3>2. Start(f)
            BY <2>8, <3>1 DEF CmdDcu
        <3> QED  BY <3>1, <3>2
    <2>9. \/ CmdStep \/ \E sig \in BOOLEAN : CmdContinue(sig)
          \/ \E a \in use.untils : CmdUntil(a)
          \/ \E a \in use.dcus : CmdDcu(a)
        OBVIOUS
    <2> QED  BY <2>5, <2>6, <2>7, <2>8, <2>9, Zenon
<1>3. ControlOK' /\ moved' \in BOOLEAN
    BY <1>2, StartType
<1>4. owed' = owed \/ owed' = owed + 1
    BY DEF CmdStep, CmdContinue, CmdUntil, CmdDcu
<1>5. UNCHANGED <<pc, mem, proc, event, nevents, bps, recoil_mode, bp_addr, signum, swstep,
                  policy, use, trapped, mine>>
    BY DEF CmdStep, CmdContinue, CmdUntil, CmdDcu, Unmoved, inferior, config
<1>6. owed' \in Int
    BY <1>1, <1>4
<1> QED  BY <1>3, <1>5, <1>6 DEF TypeInv, InferiorOK, RestOK

\* r_bp_get_in returns a position of the list.
LEMMA GetIn ==
    ASSUME NEW s \in Bps, NEW a, NEW prot, r_bp_get_in(s, a, prot) # NoPos
    PROVE  r_bp_get_in(s, a, prot) \in 1 .. Len(s)
<1> DEFINE S == {i \in DOMAIN s : InRange(s[i], a) /\ MatchProt(s[i], prot)}
<1>1. DOMAIN s = 1 .. Len(s)
    BY BpsSeq
<1>2. S \subseteq 1 .. Len(s) /\ S \subseteq Nat \ {0}
    BY <1>1
<1>3. r_bp_get_in(s, a, prot) = First(S)
    BY DEF r_bp_get_in
<1> HIDE DEF S
<1> QED  BY <1>2, <1>3, FirstProperties

\* The commands that change the list, the program counter or the settings.
LEMMA PromptType ==
    ASSUME TypeInv,
           \/ \E a \in BpAddrs : \/ \E kind \in use.kinds : CmdAdd(a, kind)
                                 \/ CmdDel(a)
                                 \/ \E set \in use.enables : CmdEnable(a, set)
           \/ \E a \in use.pcs : CmdSetPc(a)
           \/ CmdConfig
    PROVE  TypeInv'
<1>1. use \in Uses /\ bps \in Bps /\ mem \in Mems /\ ControlOK
    BY DEF TypeInv, RestOK, InferiorOK
<1>2. /\ UNCHANGED <<mem, proc, event, nevents, recoil_mode, bp_addr, signum, control, owed, moved, use>>
    BY DEF CmdAdd, CmdDel, CmdEnable, CmdSetPc, CmdConfig, AtPrompt, config
<1>3. bps' \in Bps
    <2>1. ASSUME NEW a \in BpAddrs, NEW kind \in use.kinds, CmdAdd(a, kind)
          PROVE  bps' \in Bps
        <3>1. a \in Prog /\ kind \in {"break", "trace", "cond"}
            BY <1>1, UseType, ProgAssumption
        <3> QED  BY <1>1, <2>1, <3>1, WithBpType DEF CmdAdd
    <2>2. ASSUME NEW a \in BpAddrs, CmdDel(a) PROVE bps' \in Bps
        BY <1>1, <2>2, WithoutBpType DEF CmdDel
    <2>3. ASSUME NEW a \in BpAddrs, NEW set \in use.enables, CmdEnable(a, set)
          PROVE  bps' \in Bps
        <3>1. set \in BOOLEAN
            BY <1>1, UseType
        <3>2. r_bp_get_in(bps, a, FALSE) \in 1 .. Len(bps)
            BY <1>1, <2>3, GetIn DEF CmdEnable
        <3> QED  BY <1>1, <2>3, <3>1, <3>2, EnableType DEF CmdEnable
    <2>4. (\E a \in use.pcs : CmdSetPc(a)) \/ CmdConfig => bps' = bps
        BY DEF CmdSetPc, CmdConfig
    <2> QED  BY <1>1, <2>1, <2>2, <2>3, <2>4
<1>4. ControlOK'
    BY <1>1, <1>2, SameControl
<1>5. pc' \in Addr
    <2>1. pc' = pc \/ pc' \in use.pcs
        BY DEF CmdAdd, CmdDel, CmdEnable, CmdSetPc, CmdConfig
    <2>2. use.pcs \subseteq Addr
        BY <1>1, UseType, ProgAddr
    <2> QED  BY <2>1, <2>2 DEF TypeInv, InferiorOK
<1>6. trapped' \in BOOLEAN
    <2>1. trapped' = trapped \/ trapped' = FALSE
        BY DEF CmdAdd, CmdDel, CmdEnable, CmdSetPc, CmdConfig
    <2> QED  BY <2>1 DEF TypeInv, RestOK
<1>7. mine' \subseteq BpAddrs
    <2>1. mine \subseteq BpAddrs
        BY DEF TypeInv, RestOK
    <2> QED  BY <2>1 DEF CmdAdd, CmdDel, CmdEnable, CmdSetPc, CmdConfig
<1>8. swstep' \in use.swsteps /\ policy' \in use.policies
    BY DEF CmdAdd, CmdDel, CmdEnable, CmdSetPc, CmdConfig, config, TypeInv, RestOK
<1>9. InferiorOK'
    BY <1>2, <1>5 DEF TypeInv, InferiorOK
<1>10. moved' \in BOOLEAN
    BY <1>2 DEF TypeInv, RestOK
<1>11. RestOK'
    BY <1>2, <1>6, <1>7, <1>8, <1>10 DEF TypeInv, RestOK
<1> QED  BY <1>3, <1>4, <1>9, <1>11 DEF TypeInv

LEMMA StutterType == ASSUME TypeInv, UNCHANGED vars PROVE TypeInv'
BY DEF TypeInv, InferiorOK, ControlOK, RestOK, vars, inferior, config, control, history

LEMMA NextType == ASSUME TypeInv, [Next]_vars PROVE TypeInv'
<1>1. CASE Inferior
    BY <1>1, InferiorType
<1>2. CASE Debugger
    BY <1>2, StepType, HardType, SoftType, RecoilType, ContType, UntilType DEF Debugger
<1>3. CASE User
    <2>1. CASE \/ CmdStep \/ \E sig \in BOOLEAN : CmdContinue(sig)
               \/ \E a \in use.untils : CmdUntil(a)
               \/ \E a \in use.dcus : CmdDcu(a)
        BY <2>1, CommandType
    <2>2. CASE \/ \E a \in BpAddrs : \/ \E kind \in use.kinds : CmdAdd(a, kind)
                                     \/ CmdDel(a)
                                     \/ \E set \in use.enables : CmdEnable(a, set)
               \/ \E a \in use.pcs : CmdSetPc(a)
               \/ CmdConfig
        BY <2>2, PromptType
    <2> QED  BY <1>3, <2>1, <2>2 DEF User
<1>4. CASE UNCHANGED vars
    BY <1>4, StutterType
<1> QED  BY <1>1, <1>2, <1>3, <1>4 DEF Next

\* The run control keeps the types of its state, for every program, every use
\* of the debugger and any number of breakpoints: in particular the program
\* counter stays an address when r_debug_bp_hit winds it back, and what
\* r_debug_step_soft, r_debug_continue_until and dcu add are breakpoints.
THEOREM TypeCorrect == Spec => []TypeOK
<1>1. Spec => []TypeInv
    BY InitType, NextType, PTL DEF Spec
<1> QED  BY <1>1, TypeInvImplies, PTL

----------------------------------------------------------------------------
(* Safety when the debuggee is stepped by hardware (dbg->swstep not set):  *)
(* which functions can be on the C stack together, what each of them knows *)
(* of recoil_mode and of the traps, and from that the properties of Debug. *)

----------------------------------------------------------------------------
(* Places on the stack, from its top; below the last frame is the prompt.  *)

P == [i \in Nat \ {0} |-> IF i \in 1 .. Len(stack) THEN stack[i].at ELSE "prompt"]

Deeper == Nat \ {0, 1}

\* What Goto, Call and Return do to the places.
GotoP(x) ==
    /\ P'[1] = x /\ P'[2] = P[2] /\ P'[3] = P[3] /\ P'[4] = P[4]
    /\ \A i \in Deeper : P'[i] = P[i]
CallP(x, y) ==
    /\ P'[1] = y /\ P'[2] = x /\ P'[3] = P[2] /\ P'[4] = P[3]
    /\ \A i \in Deeper : P'[i + 1] = P[i]
ReturnP ==
    /\ P'[1] = P[2] /\ P'[2] = P[3] /\ P'[3] = P[4]
    /\ \A i \in Nat \ {0} : P'[i] = P[i + 1]

LEMMA Place ==
    ASSUME stack \in Seq(Frame), NEW i \in Nat \ {0}
    PROVE  /\ P[i] = IF i \in 1 .. Len(stack) THEN stack[i].at ELSE "prompt"
           /\ P[i] \in Places \cup {"prompt"}
           /\ P[i] = "prompt" <=> i > Len(stack)
           /\ Len(stack) \in Nat
<1>1. P[i] = IF i \in 1 .. Len(stack) THEN stack[i].at ELSE "prompt"
    BY DEF P
<1>2. Len(stack) \in Nat
    OBVIOUS
<1>3. i \in 1 .. Len(stack) => stack[i].at \in Places
    <2>1. i \in 1 .. Len(stack) => stack[i] \in Frame
        OBVIOUS
    <2> QED  BY <2>1 DEF Frame
<1>4. "prompt" \notin Places
    BY DEF Places
<1>5. i \in 1 .. Len(stack) <=> ~(i > Len(stack))
    BY <1>2
<1> QED  BY <1>1, <1>2, <1>3, <1>4, <1>5

LEMMA AtPlace ==
    ASSUME stack \in Seq(Frame), NEW place, At(place)
    PROVE  P[1] = place /\ stack # << >>
<1>1. stack[1].at = place /\ Len(stack) \in Nat \ {0} /\ stack # << >>
    BY AtTop
<1>2. 1 \in 1 .. Len(stack)
    BY <1>1
<1> QED  BY <1>1, <1>2, Place

LEMMA IdlePlace ==
    ASSUME stack \in Seq(Frame)
    PROVE  P[1] = "prompt" <=> Idle
<1>1. stack = << >> <=> Len(stack) = 0
    OBVIOUS
<1>2. 1 > Len(stack) <=> Len(stack) = 0
    OBVIOUS
<1> QED  BY <1>1, <1>2, Place DEF Idle

LEMMA GotoPlaces ==
    ASSUME stack \in Seq(Frame), stack # << >>, NEW f \in Frame, Goto(f)
    PROVE  GotoP(f.at)
<1>1. /\ stack' \in Seq(Frame) /\ Len(stack') = Len(stack) /\ stack'[1] = f
      /\ \A i \in 2 .. Len(stack) : stack'[i] = stack[i]
    BY GotoStack
<1>2. Len(stack) \in Nat \ {0}
    OBVIOUS
<1>3. P'[1] = f.at
    BY <1>1, <1>2 DEF P
<1>4. ASSUME NEW i \in Deeper PROVE P'[i] = P[i]
    <2>1. i \in Nat \ {0} /\ (i \in 1 .. Len(stack) => i \in 2 .. Len(stack))
        BY DEF Deeper
    <2> QED  BY <1>1, <2>1 DEF P
<1>5. 2 \in Deeper /\ 3 \in Deeper /\ 4 \in Deeper
    BY DEF Deeper
<1> QED  BY <1>3, <1>4, <1>5 DEF GotoP

LEMMA CallPlaces ==
    ASSUME stack \in Seq(Frame), stack # << >>, NEW f \in Frame, NEW g \in Frame, Call(f, g)
    PROVE  CallP(f.at, g.at)
<1>1. /\ stack' \in Seq(Frame) /\ Len(stack') = Len(stack) + 1 /\ stack'[1] = g /\ stack'[2] = f
      /\ \A i \in 2 .. Len(stack) : stack'[i + 1] = stack[i]
    BY CallStack
<1>2. Len(stack) \in Nat \ {0}
    OBVIOUS
<1>3. P'[1] = g.at /\ P'[2] = f.at
    BY <1>1, <1>2 DEF P
<1>4. ASSUME NEW i \in Deeper PROVE P'[i + 1] = P[i]
    <2>1. i \in Nat \ {0} /\ i + 1 \in Nat \ {0}
        BY DEF Deeper
    <2>2. i \in 1 .. Len(stack) <=> i + 1 \in 1 .. Len(stack')
        BY <1>1, <1>2 DEF Deeper
    <2>3. i \in 1 .. Len(stack) => i \in 2 .. Len(stack)
        BY DEF Deeper
    <2> QED  BY <1>1, <2>1, <2>2, <2>3 DEF P
<1>5. 2 \in Deeper /\ 3 \in Deeper
    BY DEF Deeper
<1>6. P'[2 + 1] = P[2] /\ P'[3 + 1] = P[3]
    BY <1>4, <1>5
<1> QED  BY <1>3, <1>4, <1>6 DEF CallP

LEMMA ReturnPlaces ==
    ASSUME stack \in Seq(Frame), stack # << >>, NEW v, Return(v)
    PROVE  ReturnP /\ ret' = v
<1>1. /\ stack' \in Seq(Frame) /\ Len(stack') = Len(stack) - 1
      /\ \A i \in 1 .. Len(stack) - 1 : stack'[i] = stack[i + 1]
      /\ ret' = v
    BY ReturnStack
<1>2. Len(stack) \in Nat \ {0}
    OBVIOUS
<1>3. ASSUME NEW i \in Nat \ {0} PROVE P'[i] = P[i + 1]
    <2>1. i + 1 \in Nat \ {0}
        OBVIOUS
    <2>2. i \in 1 .. Len(stack') <=> i + 1 \in 1 .. Len(stack)
        BY <1>1, <1>2
    <2>3. i \in 1 .. Len(stack') => i \in 1 .. Len(stack) - 1
        BY <1>1
    <2> QED  BY <1>1, <2>1, <2>2, <2>3 DEF P
<1>4. P'[1] = P[1 + 1] /\ P'[2] = P[2 + 1] /\ P'[3] = P[3 + 1]
    BY <1>3
<1> QED  BY <1>1, <1>3, <1>4 DEF ReturnP

LEMMA SamePlaces == ASSUME UNCHANGED stack PROVE P' = P
BY DEF P

----------------------------------------------------------------------------
(* The control steps of every function, as places.                         *)

Hardware == TypeInv /\ ~swstep

LEMMA HwStack == Hardware => stack \in Seq(Frame) /\ ret \in BOOLEAN
BY DEF Hardware, TypeInv, ControlOK

LEMMA Frames ==
    /\ \A at \in Places : Fr(at) \in Frame /\ Fr(at).at = at
    /\ \A mode \in {"STEP", "CONTINUE"} :
          LET f == [Fr("recoil") EXCEPT !.mode = mode]
          IN  f \in Frame /\ f.at = "recoil" /\ f.mode = mode
BY FrType, RecoilFrame

LEMMA StepMoves ==
    ASSUME Hardware, r_debug_step
    PROVE  /\ P[1] = "step"
           /\ Dead => ReturnP /\ ~ret'
           /\ ~Dead => CallP("step_ret", "hard")
<1>1. P[1] = "step" /\ stack # << >> /\ stack \in Seq(Frame)
    BY HwStack, AtPlace DEF r_debug_step
<1>2. CASE Dead
    BY <1>1, <1>2, ReturnPlaces DEF r_debug_step
<1>3. CASE ~Dead
    <2>1. Call(Fr("step_ret"), Fr("hard"))
        BY <1>3 DEF r_debug_step, Hardware
    <2> QED  BY <1>1, <1>3, <2>1, CallPlaces, Frames, PlaceNames
<1> QED  BY <1>1, <1>2, <1>3

LEMMA StepReturnMoves ==
    ASSUME Hardware, StepReturn
    PROVE  P[1] = "step_ret" /\ ReturnP /\ ret' = ret
<1>1. P[1] = "step_ret" /\ stack # << >> /\ stack \in Seq(Frame)
    BY HwStack, AtPlace DEF StepReturn
<1> QED  BY <1>1, ReturnPlaces DEF StepReturn

LEMMA HardEnterMoves ==
    ASSUME Hardware, StepHardEnter
    PROVE  /\ P[1] = "hard"
           /\ Dead => ReturnP /\ ~ret'
           /\ ~Dead /\ recoil_mode = "NONE" =>
                 CallP("hard_recoiled", "recoil") /\ stack'[1].mode = "STEP"
           /\ ~Dead /\ recoil_mode # "NONE" => GotoP("hard_go")
<1>1. P[1] = "hard" /\ stack # << >> /\ stack \in Seq(Frame)
    BY HwStack, AtPlace DEF StepHardEnter
<1>2. CASE Dead
    BY <1>1, <1>2, ReturnPlaces DEF StepHardEnter
<1>3. CASE ~Dead /\ recoil_mode = "NONE"
    <2> DEFINE g == [Fr("recoil") EXCEPT !.mode = "STEP"]
    <2>1. Call(Fr("hard_recoiled"), g)
        BY <1>3 DEF StepHardEnter
    <2>2. /\ Fr("hard_recoiled") \in Frame /\ Fr("hard_recoiled").at = "hard_recoiled"
          /\ g \in Frame /\ g.at = "recoil" /\ g.mode = "STEP"
        BY Frames, PlaceNames
    <2> HIDE DEF g
    <2>3. stack'[1] = g
        BY <1>1, <2>1, <2>2, CallStack
    <2> QED  BY <1>1, <1>3, <2>1, <2>2, <2>3, CallPlaces
<1>4. CASE ~Dead /\ recoil_mode # "NONE"
    <2>1. Goto(Fr("hard_go"))
        BY <1>4 DEF StepHardEnter
    <2> QED  BY <1>1, <1>4, <2>1, GotoPlaces, Frames, PlaceNames
<1> QED  BY <1>1, <1>2, <1>3, <1>4

LEMMA HardRecoiledMoves ==
    ASSUME Hardware, StepHardRecoiled
    PROVE  /\ P[1] = "hard_recoiled"
           /\ ~ret => ReturnP /\ ~ret' /\ recoil_mode' = recoil_mode
           /\ ret /\ recoil_mode = "STEP" => ReturnP /\ ret' /\ recoil_mode' = "NONE"
           /\ ret /\ recoil_mode # "STEP" =>
                 GotoP("hard_go") /\ ret' = ret /\ recoil_mode' = recoil_mode
<1>1. P[1] = "hard_recoiled" /\ stack # << >> /\ stack \in Seq(Frame)
    BY HwStack, AtPlace DEF StepHardRecoiled
<1>2. CASE ~ret
    BY <1>1, <1>2, ReturnPlaces DEF StepHardRecoiled
<1>3. CASE ret /\ recoil_mode = "STEP"
    <2>1. Return(TRUE) /\ recoil_mode' = "NONE"
        BY <1>3 DEF StepHardRecoiled
    <2>2. ReturnP /\ ret' = TRUE
        BY <1>1, <2>1, ReturnPlaces
    <2> QED  BY <1>1, <1>3, <2>1, <2>2, Zenon
<1>4. CASE ret /\ recoil_mode # "STEP"
    <2>1. Goto(Fr("hard_go")) /\ recoil_mode' = recoil_mode
        BY <1>4 DEF StepHardRecoiled
    <2>2. ret' = ret
        BY <2>1 DEF Goto
    <2> QED  BY <1>1, <1>4, <2>1, <2>2, GotoPlaces, Frames, PlaceNames
<1> QED  BY <1>1, <1>2, <1>3, <1>4

LEMMA HardGoMoves ==
    ASSUME Hardware, StepHardGo
    PROVE  /\ P[1] = "hard_go"
           /\ "ERROR" \notin use.events => GotoP("hard_wait") /\ proc' = "stepping"
<1>1. P[1] = "hard_go" /\ stack # << >> /\ stack \in Seq(Frame)
    BY HwStack, AtPlace DEF StepHardGo
<1>2. "ERROR" \notin use.events => Goto(Fr("hard_wait")) /\ proc' = "stepping"
    BY DEF StepHardGo
<1> QED  BY <1>1, <1>2, GotoPlaces, Frames, PlaceNames

LEMMA HardWaitMoves ==
    ASSUME Hardware, StepHardWait
    PROVE  P[1] = "hard_wait" /\ ReturnP /\ (ret' <=> event \notin {"ERROR", "DEAD"})
<1>1. P[1] = "hard_wait" /\ stack # << >> /\ stack \in Seq(Frame)
    BY HwStack, AtPlace DEF StepHardWait
<1>2. ReturnP /\ ret' = (event \notin {"ERROR", "DEAD"})
    BY <1>1, ReturnPlaces DEF StepHardWait
<1> QED  BY <1>1, <1>2, Zenon

\* There is no software step on the stack.
LEMMA SoftMoves ==
    ASSUME Hardware, StepSoftEnter \/ StepSoftReturn
    PROVE  P[1] \in {"soft", "soft_ret"}
BY HwStack, AtPlace DEF StepSoftEnter, StepSoftReturn

LEMMA RecoilMoves ==
    ASSUME Hardware, RecoilEnter
    PROVE  /\ P[1] = "recoil"
           /\ bp_addr = 0 => ReturnP /\ ret' /\ r_debug_bps_enable
           /\ bp_addr # 0 /\ recoil_mode = "NONE" =>
                 /\ CallP("recoil_stepped", "step")
                 /\ recoil_mode' = stack[1].mode /\ mem' = mem
<1>1. P[1] = "recoil" /\ stack # << >> /\ stack \in Seq(Frame) /\ Head(stack) = stack[1]
    BY HwStack, AtPlace DEF RecoilEnter
<1>2. CASE bp_addr = 0
    <2>1. Return(TRUE) /\ r_debug_bps_enable
        BY <1>2 DEF RecoilEnter
    <2>2. ReturnP /\ ret' = TRUE
        BY <1>1, <2>1, ReturnPlaces
    <2> QED  BY <1>1, <1>2, <2>1, <2>2, Zenon
<1>3. CASE bp_addr # 0 /\ recoil_mode = "NONE"
    <2>1. Call(Fr("recoil_stepped"), Fr("step")) /\ recoil_mode' = stack[1].mode /\ mem' = mem
        BY <1>1, <1>3 DEF RecoilEnter
    <2> QED  BY <1>1, <1>3, <2>1, CallPlaces, Frames, PlaceNames
<1> QED  BY <1>1, <1>2, <1>3

LEMMA RecoilSteppedMoves ==
    ASSUME Hardware, RecoilStepped
    PROVE  /\ P[1] = "recoil_stepped" /\ ReturnP /\ (ret' <=> ret)
           /\ ~ret => UNCHANGED <<mem, recoil_mode>>
           /\ ret /\ bp_addr = 0 /\ recoil_mode = "STEP" => UNCHANGED <<mem, recoil_mode>>
           /\ ret /\ ~(bp_addr = 0 /\ recoil_mode = "STEP") => r_debug_bps_enable
<1>1. P[1] = "recoil_stepped" /\ stack # << >> /\ stack \in Seq(Frame)
    BY HwStack, AtPlace DEF RecoilStepped
<1>2. CASE ~ret
    BY <1>1, <1>2, ReturnPlaces DEF RecoilStepped
<1>3. CASE ret /\ bp_addr = 0 /\ recoil_mode = "STEP"
    <2>1. Return(TRUE) /\ UNCHANGED <<mem, recoil_mode>>
        BY <1>3 DEF RecoilStepped
    <2>2. ReturnP /\ ret' = TRUE
        BY <1>1, <2>1, ReturnPlaces
    <2> QED  BY <1>1, <1>3, <2>1, <2>2, Zenon
<1>4. CASE ret /\ ~(bp_addr = 0 /\ recoil_mode = "STEP")
    <2>1. Return(TRUE) /\ r_debug_bps_enable
        BY <1>4 DEF RecoilStepped
    <2>2. ReturnP /\ ret' = TRUE
        BY <1>1, <2>1, ReturnPlaces
    <2> QED  BY <1>1, <1>4, <2>1, <2>2, Zenon
<1> QED  BY <1>1, <1>2, <1>3, <1>4

LEMMA ContMoves ==
    ASSUME Hardware, ContRepeat
    PROVE  /\ P[1] = "cont"
           /\ Dead => ReturnP
           /\ ~Dead => CallP("cont_recoiled", "recoil") /\ stack'[1].mode = "CONTINUE"
<1>1. P[1] = "cont" /\ stack # << >> /\ stack \in Seq(Frame)
    BY HwStack, AtPlace DEF ContRepeat
<1>2. CASE Dead
    BY <1>1, <1>2, ReturnPlaces DEF ContRepeat
<1>3. CASE ~Dead
    <2> DEFINE f == Resume("cont_recoiled")
               g == [Fr("recoil") EXCEPT !.mode = "CONTINUE"]
    <2>1. Call(f, g)
        BY <1>3 DEF ContRepeat
    <2>2. f \in Frame /\ f.at = "cont_recoiled" /\ g \in Frame /\ g.at = "recoil" /\ g.mode = "CONTINUE"
        BY <1>1, Frames, PlaceNames, ResumeType
    <2> HIDE DEF f, g
    <2>3. stack'[1] = g
        BY <1>1, <2>1, <2>2, CallStack
    <2> QED  BY <1>1, <1>3, <2>1, <2>2, <2>3, CallPlaces
<1> QED  BY <1>1, <1>2, <1>3

LEMMA ContGoMoves ==
    ASSUME Hardware, ContGo
    PROVE  /\ P[1] = "cont_recoiled"
           /\ ret => GotoP("cont_wait") /\ proc' = "running"
           /\ ~ret => ReturnP /\ proc' = proc
<1>1. P[1] = "cont_recoiled" /\ stack # << >> /\ stack \in Seq(Frame)
    BY HwStack, AtPlace DEF ContGo
<1>2. Resume("cont_wait") \in Frame /\ Resume("cont_wait").at = "cont_wait"
    BY <1>1, ResumeType, PlaceNames
<1>3. CASE ret
    <2>1. Goto(Resume("cont_wait")) /\ proc' = "running"
        BY <1>3 DEF ContGo
    <2> QED  BY <1>1, <1>2, <1>3, <2>1, GotoPlaces
<1>4. CASE ~ret
    <2>1. Return(FALSE) /\ proc' = proc
        BY <1>4 DEF ContGo
    <2> QED  BY <1>1, <1>4, <2>1, ReturnPlaces
<1> QED  BY <1>1, <1>3, <1>4

\* How a continuation goes on from a stop.
LEMMA ContWaitMoves ==
    ASSUME Hardware, ContWait
    PROVE  /\ P[1] = "cont_wait"
           /\ Dead => ReturnP
           /\ ~Dead => \/ /\ WaitReason = "COND" \/ (signum' = "SIG" => policy = "stop")
                          /\ ReturnP
                       \/ WaitReason = "TRACEPOINT" /\ CallP("cont", "step")
                       \/ (WaitReason = "COND" \/ signum' = "SIG") /\ GotoP("cont")
                       \/ signum' = "SIG" /\ policy = "skip" /\ GotoP("cont_skip")
<1>1. P[1] = "cont_wait" /\ stack # << >> /\ stack \in Seq(Frame)
    BY HwStack, AtPlace DEF ContWait
<1>2. CASE Dead
    BY <1>1, <1>2, ReturnPlaces DEF ContWait
<1>3. CASE ~Dead
    <2> DEFINE c == [Resume("cont") EXCEPT !.sig = TRUE]
               k == [Resume("cont_skip") EXCEPT !.sig = FALSE]
    <2>1. /\ Resume("cont") \in Frame /\ Resume("cont").at = "cont"
          /\ Resume("cont_skip") \in Frame /\ Resume("cont_skip").at = "cont_skip"
        BY <1>1, ResumeType, PlaceNames
    <2>2. c \in Frame /\ c.at = "cont" /\ k \in Frame /\ k.at = "cont_skip"
        BY <2>1 DEF Frame
    <2> HIDE DEF c, k
    <2>3. Policy \in {"stop", "cont", "skip"}
        BY UseType DEF Policy, Hardware, TypeInv, RestOK
    <2>4. \/ WaitReason = "TRACEPOINT" /\ Call(Resume("cont"), Fr("step"))
          \/ WaitReason = "COND" /\ (Goto(Resume("cont")) \/ Return(TRUE))
          \/ Policy = "stop" /\ Return(TRUE)
          \/ Policy = "cont" /\ Goto(c)
          \/ Policy = "skip" /\ Goto(k)
        BY <1>3, <2>3 DEF ContWait, Again, c, k
    <2>5. Policy # "stop" => signum' = "SIG" /\ policy = Policy
        BY DEF Policy
    <2>6. Policy = "stop" => (signum' = "SIG" => policy = "stop")
        BY DEF Policy
    <2>7. Fr("step") \in Frame /\ Fr("step").at = "step"
        BY Frames, PlaceNames
    <2>8. CASE WaitReason = "TRACEPOINT" /\ Call(Resume("cont"), Fr("step"))
        BY <1>1, <1>3, <2>1, <2>7, <2>8, CallPlaces
    <2>9. CASE \/ WaitReason = "COND" /\ Goto(Resume("cont"))
               \/ Policy = "cont" /\ Goto(c)
        BY <1>1, <1>3, <2>1, <2>2, <2>5, <2>9, GotoPlaces
    <2>10. CASE Policy = "skip" /\ Goto(k)
        BY <1>1, <1>3, <2>2, <2>5, <2>10, GotoPlaces
    <2>11. CASE WaitReason = "COND" /\ Return(TRUE)
        BY <1>1, <1>3, <2>11, ReturnPlaces
    <2>12. CASE Policy = "stop" /\ Return(TRUE)
        BY <1>1, <1>3, <2>6, <2>12, ReturnPlaces
    <2> QED  BY <2>4, <2>8, <2>9, <2>10, <2>11, <2>12
<1> QED  BY <1>1, <1>2, <1>3

LEMMA ContSkipMoves ==
    ASSUME Hardware, ContSkip
    PROVE  P[1] = "cont_skip" /\ (ReturnP \/ GotoP("cont"))
<1>1. P[1] = "cont_skip" /\ stack # << >> /\ stack \in Seq(Frame)
    BY HwStack, AtPlace DEF ContSkip
<1>2. Resume("cont") \in Frame /\ Resume("cont").at = "cont"
    BY <1>1, ResumeType, PlaceNames
<1>3. Return(TRUE) \/ Goto(Resume("cont"))
    BY DEF ContSkip
<1> QED  BY <1>1, <1>2, <1>3, ReturnPlaces, GotoPlaces

LEMMA UntilMoves ==
    ASSUME Hardware, UntilEnter
    PROVE  /\ P[1] = "until"
           /\ \/ ReturnP /\ bps' = bps
              \/ GotoP("until_loop") /\ bps' = WithBp(bps, stack[1].to, "break", FALSE)
<1>1. P[1] = "until" /\ stack # << >> /\ stack \in Seq(Frame) /\ Head(stack) = stack[1]
    BY HwStack, AtPlace DEF UntilEnter
<1>2. Resume("until_loop") \in Frame /\ Resume("until_loop").at = "until_loop"
    BY <1>1, ResumeType, PlaceNames
<1>3. << >> \in Seq(Addr) /\ <<stack[1].to>> \in Seq(Addr)
    <2>1. stack[1] \in Frame
        BY <1>1
    <2>2. stack[1].to \in Addr
        BY <2>1 DEF Frame
    <2> QED  BY <2>2
<1>4. \/ Return(FALSE) /\ bps' = bps
      \/ /\ \E t \in {<< >>, <<stack[1].to>>} : Goto([Resume("until_loop") EXCEPT !.tmp = t])
         /\ bps' = WithBp(bps, stack[1].to, "break", FALSE)
    BY <1>1, Zenon DEF UntilEnter
<1>5. ASSUME NEW t \in {<< >>, <<stack[1].to>>}, Goto([Resume("until_loop") EXCEPT !.tmp = t])
      PROVE  GotoP("until_loop")
    <2>1. t \in Seq(Addr)
        BY <1>3
    <2>2. /\ [Resume("until_loop") EXCEPT !.tmp = t] \in Frame
          /\ [Resume("until_loop") EXCEPT !.tmp = t].at = "until_loop"
        BY <1>2, <2>1, TmpFrame
    <2> QED  BY <1>1, <1>5, <2>2, GotoPlaces
<1> QED  BY <1>1, <1>4, <1>5, ReturnPlaces

LEMMA UntilLoopMoves ==
    ASSUME Hardware, UntilLoop
    PROVE  /\ P[1] = "until_loop"
           /\ \/ ReturnP /\ bps' = WithoutTmp(bps, stack[1].tmp)
              \/ CallP("until_loop", "cont") /\ bps' = bps /\ ~Dead
<1>1. P[1] = "until_loop" /\ stack # << >> /\ stack \in Seq(Frame) /\ Head(stack) = stack[1]
    BY HwStack, AtPlace DEF UntilLoop
<1>2. stack[1] \in Frame /\ stack[1].at = "until_loop"
    BY HwStack, AtTop DEF UntilLoop
<1>3. \/ bps' = WithoutTmp(bps, stack[1].tmp) /\ Return(TRUE)
      \/ Call(stack[1], Fr("cont")) /\ bps' = bps /\ ~Dead
    BY <1>1 DEF UntilLoop
<1>4. Fr("cont") \in Frame /\ Fr("cont").at = "cont"
    BY Frames, PlaceNames
<1>5. CASE bps' = WithoutTmp(bps, stack[1].tmp) /\ Return(TRUE)
    BY <1>1, <1>5, ReturnPlaces
<1>6. CASE Call(stack[1], Fr("cont")) /\ bps' = bps /\ ~Dead
    BY <1>1, <1>2, <1>4, <1>6, CallPlaces
<1> QED  BY <1>3, <1>5, <1>6

LEMMA DcuMoves ==
    ASSUME Hardware, DcuEnter
    PROVE  /\ P[1] = "dcu" /\ CallP("dcu_ret", "cont")
           /\ bps' = WithBp(bps, stack[1].to, "break", FALSE)
<1>1. P[1] = "dcu" /\ stack # << >> /\ stack \in Seq(Frame) /\ Head(stack) = stack[1]
    BY HwStack, AtPlace DEF DcuEnter
<1>2. Resume("dcu_ret") \in Frame /\ Resume("dcu_ret").at = "dcu_ret"
    BY <1>1, ResumeType, PlaceNames
<1>3. <<stack[1].to>> \in Seq(Addr)
    <2>1. stack[1] \in Frame
        BY <1>1
    <2>2. stack[1].to \in Addr
        BY <2>1 DEF Frame
    <2> QED  BY <2>2
<1>4. /\ [Resume("dcu_ret") EXCEPT !.tmp = <<stack[1].to>>] \in Frame
      /\ [Resume("dcu_ret") EXCEPT !.tmp = <<stack[1].to>>].at = "dcu_ret"
    BY <1>2, <1>3, TmpFrame
<1>5. /\ Call([Resume("dcu_ret") EXCEPT !.tmp = <<stack[1].to>>], Fr("cont"))
      /\ bps' = WithBp(bps, stack[1].to, "break", FALSE)
    BY <1>1 DEF DcuEnter
<1> QED  BY <1>1, <1>4, <1>5, CallPlaces, Frames, PlaceNames

LEMMA DcuReturnMoves ==
    ASSUME Hardware, DcuReturn
    PROVE  P[1] = "dcu_ret" /\ ReturnP /\ bps' = WithoutTmp(bps, stack[1].tmp)
<1>1. P[1] = "dcu_ret" /\ stack # << >> /\ stack \in Seq(Frame) /\ Head(stack) = stack[1]
    BY HwStack, AtPlace DEF DcuReturn
<1> QED  BY <1>1, ReturnPlaces DEF DcuReturn

\* A command of the user puts one frame on the empty stack.
LEMMA StartMoves ==
    ASSUME Hardware, NEW f \in Frame, Start(f)
    PROVE  /\ P[1] = "prompt" /\ P'[1] = f.at
           /\ \A i \in Deeper : P'[i] = "prompt"
           /\ stack' = <<f>>
<1>1. stack = << >> /\ stack' = <<f>>
    BY DEF Start, Idle
<1>2. stack' \in Seq(Frame) /\ Len(stack') = 1 /\ stack'[1] = f
    BY <1>1
<1>3. P[1] = "prompt"
    BY <1>1, HwStack, IdlePlace DEF Idle
<1>4. P'[1] = f.at
    BY <1>2 DEF P
<1>5. \A i \in Deeper : P'[i] = "prompt"
    BY <1>2 DEF P, Deeper
<1> QED  BY <1>1, <1>3, <1>4, <1>5

Commands ==
    \/ CmdStep \/ \E sig \in BOOLEAN : CmdContinue(sig)
    \/ \E a \in use.untils : CmdUntil(a)
    \/ \E a \in use.dcus : CmdDcu(a)

Settings ==
    \/ \E a \in BpAddrs : \/ \E kind \in use.kinds : CmdAdd(a, kind)
                          \/ CmdDel(a)
                          \/ \E set \in use.enables : CmdEnable(a, set)
    \/ \E a \in use.pcs : CmdSetPc(a)
    \/ CmdConfig

LEMMA UserCases == User => Commands \/ Settings
BY Zenon DEF User, Commands, Settings

LEMMA CommandFrame ==
    ASSUME Hardware, Commands
    PROVE  \E f \in Frame :
              /\ Start(f) /\ f.tmp = << >>
              /\ \/ f.at = "step" /\ ~f.sig /\ use.steps # {}
                 \/ f.at = "cont" /\ (f.sig => owed' = owed + 1)
                 \/ f.at = "until" /\ ~f.sig /\ f.to \in use.untils
                 \/ f.at = "dcu" /\ ~f.sig /\ f.to \in use.dcus
<1> DEFINE Q(f) == /\ Start(f) /\ f.tmp = << >>
                   /\ \/ f.at = "step" /\ ~f.sig /\ use.steps # {}
                      \/ f.at = "cont" /\ (f.sig => owed' = owed + 1)
                      \/ f.at = "until" /\ ~f.sig /\ f.to \in use.untils
                      \/ f.at = "dcu" /\ ~f.sig /\ f.to \in use.dcus
<1>1. \A at \in Places : Fr(at) \in Frame /\ Fr(at).at = at /\ ~Fr(at).sig /\ Fr(at).tmp = << >>
    BY FrType
<1>2. use.untils \subseteq Addr /\ use.dcus \subseteq Addr
    BY UseType, ProgAddr DEF Hardware, TypeInv, RestOK
<1>3. CASE CmdStep
    <2>1. PICK f \in Frame : f = Fr("step")
        BY <1>1, PlaceNames
    <2>2. Q(f)
        BY <1>1, <1>3, <2>1, PlaceNames DEF CmdStep
    <2> QED  BY <2>2
<1>4. ASSUME NEW sig \in BOOLEAN, CmdContinue(sig)
      PROVE  \E f \in Frame : Q(f)
    <2>1. PICK g \in Frame : g = Fr("cont") /\ g.at = "cont" /\ g.tmp = << >>
        BY <1>1, PlaceNames
    <2>2. PICK f : f = [g EXCEPT !.sig = sig]
        OBVIOUS
    <2>3. f \in Frame /\ f.at = "cont" /\ f.tmp = << >>
        BY <2>1, <2>2 DEF Frame
    <2>4. f.sig = sig
        BY <2>1, <2>2 DEF Frame
    <2>5. Start(f) /\ (sig => owed' = owed + 1)
        BY <1>4, <2>1, <2>2 DEF CmdContinue
    <2>6. Q(f)
        BY <2>3, <2>4, <2>5, Zenon
    <2> QED  BY <2>3, <2>6
<1>5. ASSUME NEW a \in use.untils, CmdUntil(a)
      PROVE  \E f \in Frame : Q(f)
    <2>1. PICK g \in Frame : g = Fr("until") /\ g.at = "until" /\ g.tmp = << >> /\ ~g.sig
        BY <1>1, PlaceNames
    <2>2. PICK f : f = [g EXCEPT !.to = a]
        OBVIOUS
    <2>3. f \in Frame /\ f.at = "until" /\ f.tmp = << >> /\ f.to = a
        BY <1>2, <2>1, <2>2 DEF Frame
    <2>4. f.sig = g.sig
        BY <2>1, <2>2 DEF Frame
    <2>5. Start(f)
        BY <1>5, <2>1, <2>2 DEF CmdUntil
    <2>6. Q(f)
        BY <2>1, <2>3, <2>4, <2>5, Zenon
    <2> QED  BY <2>3, <2>6
<1>6. ASSUME NEW a \in use.dcus, CmdDcu(a)
      PROVE  \E f \in Frame : Q(f)
    <2>1. PICK g \in Frame : g = Fr("dcu") /\ g.at = "dcu" /\ g.tmp = << >> /\ ~g.sig
        BY <1>1, PlaceNames
    <2>2. PICK f : f = [g EXCEPT !.to = a]
        OBVIOUS
    <2>3. f \in Frame /\ f.at = "dcu" /\ f.tmp = << >> /\ f.to = a
        BY <1>2, <2>1, <2>2 DEF Frame
    <2>4. f.sig = g.sig
        BY <2>1, <2>2 DEF Frame
    <2>5. Start(f)
        BY <1>6, <2>1, <2>2 DEF CmdDcu
    <2>6. Q(f)
        BY <2>1, <2>3, <2>4, <2>5, Zenon
    <2> QED  BY <2>3, <2>6
<1> HIDE DEF Q
<1>7. \E f \in Frame : Q(f)
    <2>1. CmdStep => \E f \in Frame : Q(f)
        BY <1>3 DEF Q
    <2> QED  BY <2>1, <1>4, <1>5, <1>6 DEF Commands
<1> QED  BY <1>7 DEF Q

LEMMA CommandMoves ==
    ASSUME Hardware, Commands
    PROVE  /\ P[1] = "prompt" /\ P'[1] \in {"step", "cont", "until", "dcu"}
           /\ \A i \in Deeper : P'[i] = "prompt"
           /\ P'[1] = "step" => use.steps # {}
           /\ moved' = FALSE
           /\ UNCHANGED <<pc, mem, proc, event, nevents, bps, recoil_mode, bp_addr, signum,
                          swstep, policy, use, trapped, mine, ret>>
<1>1. PICK f \in Frame : /\ Start(f) /\ f.at \in {"step", "cont", "until", "dcu"}
                         /\ f.at = "step" => use.steps # {}
    BY CommandFrame
<1>2. UNCHANGED <<pc, mem, proc, event, nevents, bps, recoil_mode, bp_addr, signum,
                  swstep, policy, use, trapped, mine>>
    BY DEF Commands, CmdStep, CmdContinue, CmdUntil, CmdDcu, Unmoved, inferior, config
<1>3. ret' = ret /\ moved' = FALSE
    BY <1>1 DEF Start
<1> QED  BY <1>1, <1>2, <1>3, StartMoves

LEMMA SettingMoves ==
    ASSUME Hardware, Settings
    PROVE  /\ P[1] = "prompt" /\ P' = P
           /\ UNCHANGED <<mem, proc, event, nevents, recoil_mode, bp_addr, signum, use,
                          stack, ret, owed, moved>>
<1>1. AtPrompt
    BY DEF Settings, CmdAdd, CmdDel, CmdEnable, CmdSetPc, CmdConfig
<1>2. UNCHANGED <<mem, proc, event, nevents, recoil_mode, bp_addr, signum, stack, ret, owed, moved>>
    BY <1>1 DEF AtPrompt, control
<1>3. P[1] = "prompt"
    BY <1>1, HwStack, IdlePlace DEF AtPrompt
<1>4. use' = use
    BY DEF Settings, CmdAdd, CmdDel, CmdEnable, CmdSetPc, CmdConfig, config
<1> QED  BY <1>2, <1>3, <1>4, SamePlaces

----------------------------------------------------------------------------
(* Which function stands on which on the stack.                            *)

StandsOn(x, y) ==
    \/ x \in {"step", "step_ret"} /\ y \in {"recoil_stepped", "cont", "prompt"}
    \/ x \in {"hard", "hard_recoiled", "hard_go", "hard_wait"} /\ y = "step_ret"
    \/ x \in {"recoil", "recoil_stepped"} /\ y \in {"hard_recoiled", "cont_recoiled"}
    \/ x \in {"cont", "cont_recoiled", "cont_wait", "cont_skip"}
       /\ y \in {"until_loop", "dcu_ret", "prompt"}
    \/ x \in {"until", "until_loop", "dcu", "dcu_ret"} /\ y = "prompt"

Shape == \A i \in Nat \ {0} : P[i] # "prompt" => StandsOn(P[i], P[i + 1])

LEMMA ShapeTop ==
    ASSUME Shape
    PROVE  /\ P[1] # "prompt" => StandsOn(P[1], P[2])
           /\ P[2] # "prompt" => StandsOn(P[2], P[3])
           /\ P[3] # "prompt" => StandsOn(P[3], P[4])
<1>1. \A i \in {1, 2, 3} : P[i] # "prompt" => StandsOn(P[i], P[i + 1])
    BY DEF Shape
<1>2. 1 + 1 = 2 /\ 2 + 1 = 3 /\ 3 + 1 = 4
    OBVIOUS
<1> QED  BY <1>1, <1>2

LEMMA ShapeGoto ==
    ASSUME Shape, NEW x, GotoP(x), StandsOn(x, P[2])
    PROVE  Shape'
<1> SUFFICES ASSUME NEW i \in Nat \ {0}, P'[i] # "prompt"
             PROVE  StandsOn(P'[i], P'[i + 1])
    BY DEF Shape
<1>1. CASE i = 1
    BY <1>1 DEF GotoP
<1>2. CASE i # 1
    <2>1. i \in Deeper /\ i + 1 \in Deeper
        BY <1>2 DEF Deeper
    <2> QED  BY <2>1 DEF GotoP, Shape
<1> QED  BY <1>1, <1>2

LEMMA ShapeCall ==
    ASSUME Shape, NEW x, NEW y, CallP(x, y), StandsOn(y, x), StandsOn(x, P[2])
    PROVE  Shape'
<1> SUFFICES ASSUME NEW i \in Nat \ {0}, P'[i] # "prompt"
             PROVE  StandsOn(P'[i], P'[i + 1])
    BY DEF Shape
<1>1. CASE i = 1
    BY <1>1 DEF CallP
<1>2. CASE i = 2
    BY <1>2 DEF CallP
<1>3. CASE i \notin {1, 2}
    <2>1. PICK j \in Nat : j = i - 1
        OBVIOUS
    <2>2. j \in Deeper /\ j + 1 \in Deeper /\ i = j + 1 /\ j \in Nat \ {0}
        BY <1>3, <2>1 DEF Deeper
    <2>3. P'[i] = P[j] /\ P'[i + 1] = P[j + 1]
        BY <2>2 DEF CallP
    <2> QED  BY <2>2, <2>3 DEF Shape
<1> QED  BY <1>1, <1>2, <1>3

LEMMA ShapeReturn ==
    ASSUME Shape, ReturnP
    PROVE  Shape'
<1> SUFFICES ASSUME NEW i \in Nat \ {0}, P'[i] # "prompt"
             PROVE  StandsOn(P'[i], P'[i + 1])
    BY DEF Shape
<1>1. i + 1 \in Nat \ {0}
    OBVIOUS
<1>2. P'[i] = P[i + 1] /\ P'[i + 1] = P[i + 1 + 1]
    BY <1>1 DEF ReturnP
<1> QED  BY <1>1, <1>2 DEF Shape

----------------------------------------------------------------------------
(* What every function knows of the debuggee and of recoil_mode.           *)

\* The debuggee runs and stops under a wait only, a wait returns failure
\* exactly when it is dead, and a dead debuggee is never resumed.
Flow ==
    /\ proc = "stepping" => P[1] = "hard_wait"
    /\ proc = "running" => P[1] = "cont_wait"
    /\ Resumed => event = "none"
    /\ event # "none" => P[1] \in {"hard_wait", "cont_wait"}
    /\ Dead /\ P[1] \in {"hard_wait", "cont_wait"} => event \in {"DEAD", "ERROR"}
    /\ event \in {"DEAD", "ERROR"} => Dead
    /\ P[1] \in {"step_ret", "hard_recoiled", "recoil_stepped", "cont_recoiled"} => (ret <=> ~Dead)
    /\ P[1] \in {"hard", "hard_go", "recoil"} => ~Dead

ModeOf(caller) == IF caller = "hard_recoiled" THEN "STEP" ELSE "CONTINUE"

\* recoil_mode is set exactly during the step of a recoil, for the caller of
\* the recoil, and until r_debug_step_hard has looked at it.
Modes ==
    /\ P[1] = "recoil" => stack[1].mode = ModeOf(P[2]) /\ recoil_mode = "NONE"
    /\ P[1] = "recoil_stepped" => recoil_mode = ModeOf(P[2])
    /\ P[2] = "recoil_stepped" =>
          P[1] \in {"step", "step_ret"} /\ recoil_mode = ModeOf(P[3])
    /\ P[3] = "recoil_stepped" =>
          P[1] \in {"hard", "hard_go", "hard_wait"} /\ recoil_mode = ModeOf(P[4])
    /\ ~Dead /\ recoil_mode # "NONE" =>
          \/ P[1] = "recoil_stepped" \/ P[2] = "recoil_stepped" \/ P[3] = "recoil_stepped"
          \/ P[1] = "hard_recoiled" /\ recoil_mode = "STEP"

\* A recoil does not step into another one.
Depth == \A i \in Nat \ {0} : P[i] = "recoil_stepped" => i <= 3

\* All breakpoints of the list are in the memory of the debuggee.
Armed == \A i \in 1 .. Len(bps) : mem[bps[i].addr] = Trap

Arms == (P[1] = "cont_recoiled" /\ ret) \/ proc = "running" => Armed

RunInv == Shape /\ Depth /\ Flow /\ Modes /\ Arms

Running == Hardware /\ RunInv /\ "ERROR" \notin use.events

LEMMA GotoKeeps ==
    ASSUME Shape, Depth, NEW x, GotoP(x), StandsOn(x, P[2])
    PROVE  Shape' /\ Depth'
<1>1. ASSUME NEW i \in Nat \ {0}, P'[i] = "recoil_stepped" PROVE i <= 3
    <2>1. i # 1 => i \in Deeper
        BY DEF Deeper
    <2>2. i # 1 => i <= 3
        BY <1>1, <2>1 DEF GotoP, Depth
    <2> QED  BY <2>2
<1> QED  BY <1>1, ShapeGoto DEF Depth

LEMMA CallKeeps ==
    ASSUME Shape, Depth, NEW x, NEW y, CallP(x, y), StandsOn(y, x), StandsOn(x, P[2]),
           P[3] # "recoil_stepped"
    PROVE  Shape' /\ Depth'
<1>1. ASSUME NEW i \in Nat \ {0}, P'[i] = "recoil_stepped" PROVE i <= 3
    <2>1. CASE i \in {1, 2}
        BY <2>1
    <2>2. CASE i \notin {1, 2}
        <3>1. PICK j \in Nat : j = i - 1
            OBVIOUS
        <3>2. j \in Deeper /\ i = j + 1 /\ j \in Nat \ {0}
            BY <2>2, <3>1 DEF Deeper
        <3>3. P[j] = "recoil_stepped"
            BY <1>1, <3>2 DEF CallP
        <3>4. j <= 3 /\ j # 3
            BY <3>2, <3>3 DEF Depth
        <3> QED  BY <3>2, <3>4
    <2> QED  BY <2>1, <2>2
<1> QED  BY <1>1, ShapeCall DEF Depth

LEMMA ReturnKeeps ==
    ASSUME Shape, Depth, ReturnP
    PROVE  Shape' /\ Depth'
<1>1. ASSUME NEW i \in Nat \ {0}, P'[i] = "recoil_stepped" PROVE i <= 3
    <2>1. i + 1 \in Nat \ {0} /\ P[i + 1] = "recoil_stepped"
        BY <1>1 DEF ReturnP
    <2>2. i + 1 <= 3
        BY <2>1 DEF Depth
    <2> QED  BY <2>2
<1> QED  BY <1>1, ShapeReturn DEF Depth

LEMMA SameKeeps == ASSUME Shape, Depth, P' = P PROVE Shape' /\ Depth'
BY DEF Shape, Depth

\* What holds of the top of the stack.
LEMMA RunTop ==
    ASSUME Running
    PROVE  /\ Hardware /\ Shape /\ Depth /\ Flow /\ Modes /\ Arms
           /\ P[1] # "prompt" => StandsOn(P[1], P[2])
           /\ P[2] # "prompt" => StandsOn(P[2], P[3])
           /\ P[3] # "prompt" => StandsOn(P[3], P[4])
           /\ P[4] # "recoil_stepped"
<1>1. Hardware /\ Shape /\ Depth /\ Flow /\ Modes /\ Arms
    BY DEF Running, RunInv
<1>2. P[4] # "recoil_stepped"
    <2>1. ~(4 <= 3) /\ 4 \in Nat \ {0}
        OBVIOUS
    <2> QED  BY <1>1, <2>1 DEF Depth
<1> QED  BY <1>1, <1>2, ShapeTop

\* r_debug_step and r_debug_step_hard.
LEMMA StepKeeps ==
    ASSUME Running, r_debug_step \/ StepReturn
    PROVE  RunInv'
<1>1. Hardware /\ Shape /\ Depth /\ Flow /\ Modes /\ Arms
    BY RunTop
<1>2. /\ P[1] # "prompt" => StandsOn(P[1], P[2])
      /\ P[2] # "prompt" => StandsOn(P[2], P[3])
      /\ P[4] # "recoil_stepped"
    BY RunTop
<1>3. UNCHANGED <<mem, proc, event, bps, recoil_mode>>
    BY DEF r_debug_step, StepReturn, Quiet, inferior
<1>4. ASSUME r_debug_step PROVE RunInv'
    <2>1. /\ P[1] = "step"
          /\ Dead => ReturnP /\ ~ret'
          /\ ~Dead => CallP("step_ret", "hard")
        BY <1>1, <1>4, StepMoves
    <2>2. P[3] # "recoil_stepped" /\ StandsOn("hard", "step_ret") /\ StandsOn("step_ret", P[2])
        BY <1>1, <1>2, <2>1 DEF Modes, StandsOn
    <2>3. Shape' /\ Depth'
        BY <1>1, <2>1, <2>2, CallKeeps, ReturnKeeps
    <2>4. proc # "stepping" /\ proc # "running" /\ event = "none"
        BY <1>1, <2>1 DEF Flow
    <2>5. Flow'
        BY <1>2, <1>3, <2>1, <2>4 DEF Flow, Dead, Resumed, CallP, ReturnP, StandsOn
    <2>6. Modes'
        BY <1>1, <1>2, <1>3, <2>1, <2>2 DEF Modes, Dead, CallP, ReturnP, StandsOn
    <2>7. Arms'
        BY <1>2, <1>3, <2>1, <2>4 DEF Arms, CallP, ReturnP, StandsOn
    <2> QED  BY <2>3, <2>5, <2>6, <2>7 DEF RunInv
<1>5. ASSUME StepReturn PROVE RunInv'
    <2>1. P[1] = "step_ret" /\ ReturnP /\ ret' = ret
        BY <1>1, <1>5, StepReturnMoves
    <2>2. Shape' /\ Depth'
        BY <1>1, <2>1, ReturnKeeps
    <2>3. proc # "stepping" /\ proc # "running" /\ event = "none" /\ (ret <=> ~Dead)
        BY <1>1, <2>1 DEF Flow
    <2>4. Flow'
        BY <1>2, <1>3, <2>1, <2>3 DEF Flow, Dead, Resumed, ReturnP, StandsOn
    <2>5. Modes'
        BY <1>1, <1>2, <1>3, <2>1 DEF Modes, Dead, ReturnP, StandsOn
    <2>6. Arms'
        BY <1>2, <1>3, <2>1, <2>3 DEF Arms, ReturnP, StandsOn
    <2> QED  BY <2>2, <2>4, <2>5, <2>6 DEF RunInv
<1> QED  BY <1>4, <1>5

LEMMA HardKeeps ==
    ASSUME Running, StepHardEnter \/ StepHardRecoiled \/ StepHardGo \/ StepHardWait
    PROVE  RunInv'
<1>1. Hardware /\ Shape /\ Depth /\ Flow /\ Modes /\ Arms
    BY RunTop
<1>2. /\ P[1] # "prompt" => StandsOn(P[1], P[2])
      /\ P[2] # "prompt" => StandsOn(P[2], P[3])
      /\ P[4] # "recoil_stepped"
    BY RunTop
<1>3. ASSUME StepHardEnter PROVE RunInv'
    <2>1. /\ P[1] = "hard"
          /\ ~Dead /\ recoil_mode = "NONE" =>
                 CallP("hard_recoiled", "recoil") /\ stack'[1].mode = "STEP"
          /\ ~Dead /\ recoil_mode # "NONE" => GotoP("hard_go")
        BY <1>1, <1>3, HardEnterMoves
    <2>2. UNCHANGED <<mem, proc, event, bps, recoil_mode>>
        BY <1>3 DEF StepHardEnter, Quiet, inferior
    <2>3. ~Dead /\ proc # "stepping" /\ proc # "running" /\ event = "none" /\ P[2] = "step_ret"
        BY <1>1, <1>2, <2>1 DEF Flow, StandsOn
    <2>4. CASE recoil_mode = "NONE"
        <3>1. CallP("hard_recoiled", "recoil") /\ stack'[1].mode = "STEP"
            BY <2>1, <2>3, <2>4
        <3>2. P[3] # "recoil_stepped"
            BY <1>1, <2>4 DEF Modes, ModeOf
        <3>3. Shape' /\ Depth'
            BY <1>1, <2>3, <3>1, <3>2, CallKeeps DEF StandsOn
        <3>4. Flow'
            BY <2>2, <2>3, <3>1 DEF Flow, Dead, Resumed, CallP
        <3>5. Modes'
            BY <2>2, <2>3, <2>4, <3>1, <3>2 DEF Modes, ModeOf, Dead, CallP
        <3>6. Arms'
            BY <2>2, <2>3, <3>1 DEF Arms, CallP
        <3> QED  BY <3>3, <3>4, <3>5, <3>6 DEF RunInv
    <2>5. CASE recoil_mode # "NONE"
        <3>1. GotoP("hard_go")
            BY <2>1, <2>3, <2>5
        <3>2. Shape' /\ Depth'
            BY <1>1, <2>3, <3>1, GotoKeeps DEF StandsOn
        <3>3. Flow'
            BY <2>2, <2>3, <3>1 DEF Flow, Dead, Resumed, GotoP
        <3>4. Modes'
            BY <1>1, <2>1, <2>2, <2>3, <3>1 DEF Modes, Dead, GotoP
        <3>5. Arms'
            BY <2>2, <2>3, <3>1 DEF Arms, GotoP
        <3> QED  BY <3>2, <3>3, <3>4, <3>5 DEF RunInv
    <2> QED  BY <2>4, <2>5
<1>4. ASSUME StepHardRecoiled PROVE RunInv'
    <2>1. /\ P[1] = "hard_recoiled"
          /\ ~ret => ReturnP /\ ~ret' /\ recoil_mode' = recoil_mode
          /\ ret /\ recoil_mode = "STEP" => ReturnP /\ ret' /\ recoil_mode' = "NONE"
          /\ ret /\ recoil_mode # "STEP" =>
                GotoP("hard_go") /\ ret' = ret /\ recoil_mode' = recoil_mode
        BY <1>1, <1>4, HardRecoiledMoves
    <2>2. UNCHANGED <<mem, proc, event, bps>>
        BY <1>4 DEF StepHardRecoiled, inferior
    <2>3. /\ proc # "stepping" /\ proc # "running" /\ event = "none" /\ P[2] = "step_ret"
          /\ (ret <=> ~Dead) /\ P[3] # "recoil_stepped" /\ (ret => recoil_mode \in {"NONE", "STEP"})
        BY <1>1, <1>2, <2>1 DEF Flow, Modes, StandsOn
    <2>4. CASE ~ret
        <3>1. Shape' /\ Depth'
            BY <1>1, <2>1, <2>4, ReturnKeeps
        <3>2. Flow'
            BY <2>1, <2>2, <2>3, <2>4 DEF Flow, Dead, Resumed, ReturnP
        <3>3. Modes'
            BY <1>2, <2>1, <2>2, <2>3, <2>4 DEF Modes, Dead, ReturnP
        <3>4. Arms'
            BY <2>1, <2>2, <2>3, <2>4 DEF Arms, ReturnP
        <3> QED  BY <3>1, <3>2, <3>3, <3>4 DEF RunInv
    <2>5. CASE ret /\ recoil_mode = "STEP"
        <3>1. Shape' /\ Depth'
            BY <1>1, <2>1, <2>5, ReturnKeeps
        <3>2. Flow'
            BY <2>1, <2>2, <2>3, <2>5 DEF Flow, Dead, Resumed, ReturnP
        <3>3. Modes'
            BY <1>2, <2>1, <2>2, <2>3, <2>5 DEF Modes, Dead, ReturnP
        <3>4. Arms'
            BY <2>1, <2>2, <2>3, <2>5 DEF Arms, ReturnP
        <3> QED  BY <3>1, <3>2, <3>3, <3>4 DEF RunInv
    <2>6. CASE ret /\ recoil_mode # "STEP"
        <3>1. Shape' /\ Depth'
            BY <1>1, <2>1, <2>3, <2>6, GotoKeeps DEF StandsOn
        <3>2. Flow'
            BY <2>1, <2>2, <2>3, <2>6 DEF Flow, Dead, Resumed, GotoP
        <3>3. Modes'
            BY <1>1, <2>1, <2>2, <2>3, <2>6 DEF Modes, Dead, GotoP
        <3>4. Arms'
            BY <2>1, <2>2, <2>3, <2>6 DEF Arms, GotoP
        <3> QED  BY <3>1, <3>2, <3>3, <3>4 DEF RunInv
    <2> QED  BY <2>4, <2>5, <2>6
<1>5. ASSUME StepHardGo PROVE RunInv'
    <2>1. P[1] = "hard_go" /\ GotoP("hard_wait") /\ proc' = "stepping"
        BY <1>1, <1>5, HardGoMoves DEF Running
    <2>2. UNCHANGED <<mem, event, bps, recoil_mode>>
        BY <1>5 DEF StepHardGo
    <2>3. ~Dead /\ event = "none" /\ P[2] = "step_ret"
        BY <1>1, <1>2, <2>1 DEF Flow, StandsOn
    <2>4. Shape' /\ Depth'
        BY <1>1, <2>1, <2>3, GotoKeeps DEF StandsOn
    <2>5. Flow'
        BY <2>1, <2>2, <2>3 DEF Flow, Dead, Resumed, GotoP
    <2>6. Modes'
        BY <1>1, <2>1, <2>2, <2>3 DEF Modes, Dead, GotoP
    <2>7. Arms'
        BY <2>1, <2>2 DEF Arms, GotoP
    <2> QED  BY <2>4, <2>5, <2>6, <2>7 DEF RunInv
<1>6. ASSUME StepHardWait PROVE RunInv'
    <2>1. P[1] = "hard_wait" /\ ReturnP /\ (ret' <=> event \notin {"ERROR", "DEAD"})
        BY <1>1, <1>6, HardWaitMoves
    <2>2. UNCHANGED <<proc, bps, recoil_mode>> /\ event # "none" /\ event' = "none"
        BY <1>6 DEF StepHardWait, r_debug_wait
    <2>3. ~Resumed /\ P[2] = "step_ret" /\ (ret' <=> ~Dead)
        BY <1>1, <1>2, <2>1, <2>2 DEF Flow, StandsOn
    <2>4. Shape' /\ Depth'
        BY <1>1, <2>1, ReturnKeeps
    <2>5. Flow'
        BY <2>1, <2>2, <2>3 DEF Flow, Dead, Resumed, ReturnP
    <2>6. Modes'
        BY <1>1, <1>2, <2>1, <2>2, <2>3 DEF Modes, Dead, ReturnP
    <2>7. Arms'
        BY <2>1, <2>2, <2>3 DEF Arms, Resumed, ReturnP
    <2> QED  BY <2>4, <2>5, <2>6, <2>7 DEF RunInv
<1> QED  BY <1>3, <1>4, <1>5, <1>6

LEMMA SoftNever == ASSUME Running, StepSoftEnter \/ StepSoftReturn PROVE FALSE
<1>1. P[1] \in {"soft", "soft_ret"}
    BY SoftMoves DEF Running
<1>2. P[1] # "prompt" => StandsOn(P[1], P[2])
    BY RunTop
<1> QED  BY <1>1, <1>2 DEF StandsOn

\* What is put in, and what is taken out.
LEMMA RestoredTrap ==
    ASSUME NEW s \in Bps, NEW m \in Mems, NEW except, NEW a \in Addr, NEW set \in BOOLEAN
    PROVE  set /\ (\E i \in 1 .. Len(s) : s[i].addr = a /\ ~Skipped(s[i], except)) =>
              r_bp_restore_except(s, m, set, except)[a] = Trap
<1>1. LET r == r_bp_restore_except(s, m, set, except)
          W == {i \in 1 .. Len(s) : s[i].addr = a /\ ~Skipped(s[i], except)}
      IN  /\ W = {} => r[a] = m[a]
          /\ W # {} /\ set => r[a] = Trap
    BY Restored
<1> QED  BY <1>1, Zenon

LEMMA RestoredSet ==
    ASSUME NEW s \in Bps, NEW m \in Mems, NEW i \in 1 .. Len(s), s[i].addr \in Addr,
           NEW except, ~Skipped(s[i], except)
    PROVE  r_bp_restore_except(s, m, TRUE, except)[s[i].addr] = Trap
<1>1. PICK a \in Addr : a = s[i].addr
    OBVIOUS
<1>2. ASSUME NEW set \in BOOLEAN, set
      PROVE  r_bp_restore_except(s, m, set, except)[a] = Trap
    <2>1. \E j \in 1 .. Len(s) : s[j].addr = a /\ ~Skipped(s[j], except)
        BY <1>1
    <2> QED  BY <1>2, <2>1, RestoredTrap, Zenon
<1>3. TRUE \in BOOLEAN /\ TRUE
    OBVIOUS
<1> QED  BY <1>1, <1>2, <1>3, Zenon

LEMMA RestoredClear ==
    ASSUME NEW s \in Bps, NEW m \in Mems, NEW a \in Addr
    PROVE  /\ (\A i \in 1 .. Len(s) : s[i].addr # a) => r_bp_restore(s, m, FALSE)[a] = m[a]
           /\ (\E i \in 1 .. Len(s) : s[i].addr = a) =>
                 \E i \in 1 .. Len(s) : s[i].addr = a /\ r_bp_restore(s, m, FALSE)[a] = s[i].obytes[0]
<1>1. ASSUME NEW set \in BOOLEAN
      PROVE  LET r == r_bp_restore_except(s, m, set, 0)
                 W == {j \in 1 .. Len(s) : s[j].addr = a /\ ~Skipped(s[j], 0)}
             IN  /\ W = {} => r[a] = m[a]
                 /\ W # {} /\ ~set => \E i \in W : r[a] = s[i].obytes[0]
    BY Restored
<1>2. \A j \in 1 .. Len(s) : ~Skipped(s[j], 0)
    BY DEF Skipped
<1>3. ASSUME NEW set \in BOOLEAN, ~set
      PROVE  /\ (\A i \in 1 .. Len(s) : s[i].addr # a) => r_bp_restore_except(s, m, set, 0)[a] = m[a]
             /\ (\E i \in 1 .. Len(s) : s[i].addr = a) =>
                   \E i \in 1 .. Len(s) : s[i].addr = a /\ r_bp_restore_except(s, m, set, 0)[a] = s[i].obytes[0]
    BY <1>1, <1>2, <1>3
<1>4. FALSE \in BOOLEAN /\ ~FALSE
    OBVIOUS
<1> QED  BY <1>3, <1>4, Zenon DEF r_bp_restore
\* r_debug_bps_enable puts all breakpoints in.
LEMMA EnableArms ==
    ASSUME Hardware, r_debug_bps_enable, UNCHANGED bps
    PROVE  Armed' /\ recoil_mode' = "NONE"
<1>1. bps \in Bps /\ mem \in Mems
    BY DEF Hardware, TypeInv, InferiorOK
<1>2. mem' = r_bp_restore_except(bps, mem, TRUE, 0) /\ recoil_mode' = "NONE"
    BY DEF r_debug_bps_enable, r_bp_restore
<1>3. ASSUME NEW i \in 1 .. Len(bps) PROVE mem'[bps[i].addr] = Trap
    <2>1. bps[i].addr \in Addr
        BY <1>1, ItemAt, ProgAddr
    <2>2. ~Skipped(bps[i], 0)
        BY DEF Skipped
    <2> QED  BY <1>1, <1>2, <2>1, <2>2, RestoredSet
<1> QED  BY <1>2, <1>3 DEF Armed

LEMMA RecoilKeeps ==
    ASSUME Running, RecoilEnter \/ RecoilStepped
    PROVE  RunInv'
<1>1. Hardware /\ Shape /\ Depth /\ Flow /\ Modes /\ Arms
    BY RunTop
<1>2. /\ P[1] # "prompt" => StandsOn(P[1], P[2])
      /\ P[2] # "prompt" => StandsOn(P[2], P[3])
      /\ P[3] # "prompt" => StandsOn(P[3], P[4])
      /\ P[4] # "recoil_stepped"
    BY RunTop
<1>3. UNCHANGED <<proc, event, bps>>
    BY DEF RecoilEnter, RecoilStepped
<1>4. ASSUME RecoilEnter PROVE RunInv'
    <2>1. /\ P[1] = "recoil"
          /\ bp_addr = 0 => ReturnP /\ ret' /\ r_debug_bps_enable
          /\ bp_addr # 0 /\ recoil_mode = "NONE" =>
                /\ CallP("recoil_stepped", "step")
                /\ recoil_mode' = stack[1].mode /\ mem' = mem
        BY <1>1, <1>4, RecoilMoves
    <2>2. /\ ~Dead /\ ~Resumed /\ event = "none" /\ recoil_mode = "NONE"
          /\ P[2] \in {"hard_recoiled", "cont_recoiled"} /\ stack[1].mode = ModeOf(P[2])
          /\ P[3] \in {"step_ret", "until_loop", "dcu_ret", "prompt"}
        BY <1>1, <1>2, <2>1 DEF Flow, Modes, StandsOn, Resumed
    <2>3. CASE bp_addr = 0
        <3>1. ReturnP /\ ret' /\ Armed' /\ recoil_mode' = "NONE"
            BY <1>1, <1>3, <2>1, <2>3, EnableArms
        <3>2. Shape' /\ Depth'
            BY <1>1, <3>1, ReturnKeeps
        <3>3. Flow'
            BY <1>3, <2>2, <3>1 DEF Flow, Dead, Resumed, ReturnP
        <3>4. Modes'
            BY <1>1, <1>2, <2>1, <2>2, <3>1 DEF Modes, ModeOf, ReturnP
        <3>5. Arms'
            BY <3>1 DEF Arms
        <3> QED  BY <3>2, <3>3, <3>4, <3>5 DEF RunInv
    <2>4. CASE bp_addr # 0
        <3>1. CallP("recoil_stepped", "step") /\ recoil_mode' = ModeOf(P[2])
            BY <2>1, <2>2, <2>4
        <3>2. P[3] # "recoil_stepped"
            BY <2>2
        <3>3. Shape' /\ Depth'
            BY <1>1, <2>2, <3>1, <3>2, CallKeeps DEF StandsOn
        <3>4. Flow'
            BY <1>3, <2>2, <3>1 DEF Flow, Dead, Resumed, CallP
        <3>5. Modes'
            BY <2>2, <3>1 DEF Modes, CallP
        <3>6. Arms'
            BY <1>3, <2>2, <3>1 DEF Arms, CallP, Resumed
        <3> QED  BY <3>3, <3>4, <3>5, <3>6 DEF RunInv
    <2> QED  BY <2>3, <2>4
<1>5. ASSUME RecoilStepped PROVE RunInv'
    <2>1. /\ P[1] = "recoil_stepped" /\ ReturnP /\ (ret' <=> ret)
          /\ ~ret => UNCHANGED <<mem, recoil_mode>>
          /\ ret /\ bp_addr = 0 /\ recoil_mode = "STEP" => UNCHANGED <<mem, recoil_mode>>
          /\ ret /\ ~(bp_addr = 0 /\ recoil_mode = "STEP") => Armed' /\ recoil_mode' = "NONE"
        BY <1>1, <1>3, <1>5, RecoilSteppedMoves, EnableArms
    <2>2. /\ ~Resumed /\ event = "none" /\ (ret <=> ~Dead) /\ recoil_mode = ModeOf(P[2])
          /\ P[2] \in {"hard_recoiled", "cont_recoiled"}
          /\ P[3] \in {"step_ret", "until_loop", "dcu_ret", "prompt"}
        BY <1>1, <1>2, <2>1 DEF Flow, Modes, StandsOn, Resumed
    <2>3. Shape' /\ Depth'
        BY <1>1, <2>1, ReturnKeeps
    <2>4. Flow'
        BY <1>3, <2>1, <2>2 DEF Flow, Dead, Resumed, ReturnP
    <2>5. recoil_mode' \in {recoil_mode, "NONE"}
        BY <2>1
    <2>6. recoil_mode' # "NONE" /\ ~Dead => recoil_mode = "STEP" /\ recoil_mode' = recoil_mode
        BY <2>1, <2>2
    <2>7. recoil_mode' # "NONE" /\ ~Dead => P'[1] = "hard_recoiled" /\ recoil_mode' = "STEP"
        BY <2>1, <2>2, <2>6 DEF ModeOf, ReturnP
    <2>8. P'[1] \in {"hard_recoiled", "cont_recoiled"} /\ P'[2] # "recoil_stepped" /\ P'[3] # "recoil_stepped"
        BY <1>2, <2>1, <2>2 DEF ReturnP
    <2>9. Modes'
        BY <1>3, <2>7, <2>8 DEF Modes, Dead
    <2>10. Arms'
        <3>1. P'[1] = "cont_recoiled" /\ ret' => Armed'
            BY <2>1, <2>2 DEF ModeOf, ReturnP
        <3>2. proc' # "running"
            BY <1>3, <2>2 DEF Resumed
        <3> QED  BY <3>1, <3>2 DEF Arms
    <2> QED  BY <2>3, <2>4, <2>9, <2>10 DEF RunInv
<1> QED  BY <1>4, <1>5

LEMMA ContKeeps ==
    ASSUME Running, ContRepeat \/ ContGo \/ ContWait \/ ContSkip
    PROVE  RunInv'
<1>1. Hardware /\ Shape /\ Depth /\ Flow /\ Modes /\ Arms
    BY RunTop
<1>2. /\ P[1] # "prompt" => StandsOn(P[1], P[2])
      /\ P[2] # "prompt" => StandsOn(P[2], P[3])
      /\ P[3] # "prompt" => StandsOn(P[3], P[4])
      /\ P[4] # "recoil_stepped"
    BY RunTop
<1>3. P[1] \in {"cont", "cont_recoiled", "cont_wait", "cont_skip"}
    BY <1>1, ContMoves, ContGoMoves, ContWaitMoves, ContSkipMoves
<1>4. /\ P[2] \in {"until_loop", "dcu_ret", "prompt"} /\ P[3] # "recoil_stepped"
      /\ ~Dead => recoil_mode = "NONE"
    BY <1>1, <1>2, <1>3 DEF Modes, StandsOn
<1>5. UNCHANGED <<bps, recoil_mode>>
    BY DEF ContRepeat, ContGo, ContWait, ContSkip, Quiet
<1>6. ASSUME ReturnP, ~Resumed, event' = "none", proc' = proc
      PROVE  RunInv'
    <2>1. Shape' /\ Depth'
        BY <1>1, <1>6, ReturnKeeps
    <2>2. Flow'
        BY <1>4, <1>6 DEF Flow, Dead, Resumed, ReturnP
    <2>3. Modes'
        BY <1>2, <1>4, <1>5, <1>6 DEF Modes, Dead, ReturnP
    <2>4. Arms'
        BY <1>4, <1>6 DEF Arms, Resumed, ReturnP
    <2> QED  BY <2>1, <2>2, <2>3, <2>4 DEF RunInv
<1>7. ASSUME NEW x \in {"cont", "cont_skip"}, GotoP(x), ~Resumed, event' = "none", proc' = proc
      PROVE  RunInv'
    <2>1. Shape' /\ Depth'
        BY <1>1, <1>4, <1>7, GotoKeeps DEF StandsOn
    <2>2. Flow'
        BY <1>4, <1>7 DEF Flow, Dead, Resumed, GotoP
    <2>3. Modes'
        BY <1>2, <1>4, <1>5, <1>7 DEF Modes, Dead, GotoP
    <2>4. Arms'
        BY <1>4, <1>7 DEF Arms, Resumed, GotoP
    <2> QED  BY <2>1, <2>2, <2>3, <2>4 DEF RunInv
<1>8. ASSUME ContRepeat PROVE RunInv'
    <2>1. /\ P[1] = "cont"
          /\ Dead => ReturnP
          /\ ~Dead => CallP("cont_recoiled", "recoil") /\ stack'[1].mode = "CONTINUE"
        BY <1>1, <1>8, ContMoves
    <2>2. UNCHANGED <<proc, event, mem>>
        BY <1>8 DEF ContRepeat, Quiet, inferior
    <2>3. ~Resumed /\ event = "none"
        BY <1>1, <2>1 DEF Flow, Resumed
    <2>4. CASE Dead
        BY <1>6, <2>1, <2>2, <2>3, <2>4
    <2>5. CASE ~Dead
        <3>1. CallP("cont_recoiled", "recoil") /\ stack'[1].mode = "CONTINUE"
            BY <2>1, <2>5
        <3>2. Shape' /\ Depth'
            BY <1>1, <1>4, <3>1, CallKeeps DEF StandsOn
        <3>3. Flow'
            BY <2>2, <2>3, <2>5, <3>1 DEF Flow, Dead, Resumed, CallP
        <3>4. Modes'
            BY <1>4, <1>5, <2>5, <3>1 DEF Modes, ModeOf, CallP
        <3>5. Arms'
            BY <2>2, <2>3, <3>1 DEF Arms, Resumed, CallP
        <3> QED  BY <3>2, <3>3, <3>4, <3>5 DEF RunInv
    <2> QED  BY <2>4, <2>5
<1>9. ASSUME ContGo PROVE RunInv'
    <2>1. /\ P[1] = "cont_recoiled"
          /\ ret => GotoP("cont_wait") /\ proc' = "running"
          /\ ~ret => ReturnP /\ proc' = proc
        BY <1>1, <1>9, ContGoMoves
    <2>2. UNCHANGED <<event, mem>>
        BY <1>9 DEF ContGo
    <2>3. ~Resumed /\ event = "none" /\ (ret <=> ~Dead)
        BY <1>1, <2>1 DEF Flow, Resumed
    <2>4. CASE ~ret
        BY <1>6, <2>1, <2>2, <2>3, <2>4
    <2>5. CASE ret
        <3>1. GotoP("cont_wait") /\ proc' = "running"
            BY <2>1, <2>5
        <3>2. Shape' /\ Depth'
            BY <1>1, <1>4, <3>1, GotoKeeps DEF StandsOn
        <3>3. Flow'
            BY <2>2, <2>3, <3>1 DEF Flow, Dead, Resumed, GotoP
        <3>4. Modes'
            BY <1>4, <1>5, <2>3, <2>5, <3>1 DEF Modes, GotoP
        <3>5. Armed
            BY <1>1, <2>1, <2>5 DEF Arms
        <3>6. Arms'
            BY <1>5, <2>2, <3>5 DEF Arms, Armed
        <3> QED  BY <3>2, <3>3, <3>4, <3>6 DEF RunInv
    <2> QED  BY <2>4, <2>5
<1>10. ASSUME ContWait PROVE RunInv'
    <2>1. /\ P[1] = "cont_wait"
          /\ \/ ReturnP
             \/ CallP("cont", "step") /\ ~Dead
             \/ GotoP("cont")
             \/ GotoP("cont_skip")
        BY <1>1, <1>10, ContWaitMoves
    <2>2. event # "none" /\ event' = "none" /\ proc' = proc
        BY <1>10 DEF ContWait, r_debug_wait
    <2>3. ~Resumed
        BY <1>1, <2>2 DEF Flow
    <2>4. CASE CallP("cont", "step") /\ ~Dead
        <3>1. Shape' /\ Depth'
            BY <1>1, <1>4, <2>4, CallKeeps DEF StandsOn
        <3>2. Flow'
            BY <2>2, <2>3, <2>4 DEF Flow, Dead, Resumed, CallP
        <3>3. Modes'
            BY <1>4, <1>5, <2>4 DEF Modes, CallP
        <3>4. Arms'
            BY <2>2, <2>3, <2>4 DEF Arms, Resumed, CallP
        <3> QED  BY <3>1, <3>2, <3>3, <3>4 DEF RunInv
    <2> QED  BY <1>6, <1>7, <2>1, <2>2, <2>3, <2>4
<1>11. ASSUME ContSkip PROVE RunInv'
    <2>1. P[1] = "cont_skip" /\ (ReturnP \/ GotoP("cont"))
        BY <1>1, <1>11, ContSkipMoves
    <2>2. event' = event /\ proc' = proc
        BY <1>11 DEF ContSkip
    <2>3. ~Resumed /\ event = "none"
        BY <1>1, <2>1 DEF Flow, Resumed
    <2> QED  BY <1>6, <1>7, <2>1, <2>2, <2>3
<1> QED  BY <1>8, <1>9, <1>10, <1>11

LEMMA UntilKeeps ==
    ASSUME Running, UntilEnter \/ UntilLoop \/ DcuEnter \/ DcuReturn
    PROVE  RunInv'
<1>1. Hardware /\ Shape /\ Depth /\ Flow /\ Modes /\ Arms
    BY RunTop
<1>2. /\ P[1] # "prompt" => StandsOn(P[1], P[2])
      /\ P[2] # "prompt" => StandsOn(P[2], P[3])
      /\ P[3] # "prompt" => StandsOn(P[3], P[4])
      /\ P[4] # "recoil_stepped"
    BY RunTop
<1>3. P[1] \in {"until", "until_loop", "dcu", "dcu_ret"}
    BY <1>1, UntilMoves, UntilLoopMoves, DcuMoves, DcuReturnMoves
<1>4. /\ ReturnP \/ GotoP("until_loop")
         \/ CallP("until_loop", "cont") \/ CallP("dcu_ret", "cont")
    BY <1>1, UntilMoves, UntilLoopMoves, DcuMoves, DcuReturnMoves
<1>5. UNCHANGED <<proc, event, mem, recoil_mode>>
    BY DEF UntilEnter, UntilLoop, DcuEnter, DcuReturn, inferior
<1>6. /\ ~Resumed /\ event = "none" /\ P[2] = "prompt" /\ P[3] # "recoil_stepped"
      /\ ~Dead => recoil_mode = "NONE"
    BY <1>1, <1>2, <1>3 DEF Flow, Modes, Resumed, StandsOn
<1>7. CASE ReturnP
    <2>1. Shape' /\ Depth'
        BY <1>1, <1>7, ReturnKeeps
    <2>2. Flow'
        BY <1>5, <1>6, <1>7 DEF Flow, Dead, Resumed, ReturnP
    <2>3. Modes'
        BY <1>2, <1>5, <1>6, <1>7 DEF Modes, Dead, ReturnP
    <2>4. Arms'
        BY <1>5, <1>6, <1>7 DEF Arms, Resumed, ReturnP
    <2> QED  BY <2>1, <2>2, <2>3, <2>4 DEF RunInv
<1>8. CASE GotoP("until_loop")
    <2>1. Shape' /\ Depth'
        BY <1>1, <1>6, <1>8, GotoKeeps DEF StandsOn
    <2>2. Flow'
        BY <1>5, <1>6, <1>8 DEF Flow, Dead, Resumed, GotoP
    <2>3. Modes'
        BY <1>2, <1>5, <1>6, <1>8 DEF Modes, Dead, GotoP
    <2>4. Arms'
        BY <1>5, <1>6, <1>8 DEF Arms, Resumed, GotoP
    <2> QED  BY <2>1, <2>2, <2>3, <2>4 DEF RunInv
<1>9. ASSUME NEW x \in {"until_loop", "dcu_ret"}, CallP(x, "cont")
      PROVE  RunInv'
    <2>1. Shape' /\ Depth'
        BY <1>1, <1>6, <1>9, CallKeeps DEF StandsOn
    <2>2. Flow'
        BY <1>5, <1>6, <1>9 DEF Flow, Dead, Resumed, CallP
    <2>3. Modes'
        BY <1>2, <1>5, <1>6, <1>9 DEF Modes, Dead, CallP
    <2>4. Arms'
        BY <1>5, <1>6, <1>9 DEF Arms, Resumed, CallP
    <2> QED  BY <2>1, <2>2, <2>3, <2>4 DEF RunInv
<1> QED  BY <1>4, <1>7, <1>8, <1>9

LEMMA UserKeeps == ASSUME Running, User PROVE RunInv'
<1>1. Hardware /\ Shape /\ Depth /\ Flow /\ Modes /\ Arms
    BY RunTop
<1>2. CASE Commands
    <2>1. /\ P[1] = "prompt" /\ P'[1] \in {"step", "cont", "until", "dcu"}
          /\ \A i \in Deeper : P'[i] = "prompt"
          /\ UNCHANGED <<mem, proc, event, bps, recoil_mode>>
        BY <1>1, <1>2, CommandMoves
    <2>2. P'[2] = "prompt" /\ P'[3] = "prompt"
        BY <2>1 DEF Deeper
    <2>3. ~Resumed /\ event = "none"
        BY <1>1, <2>1 DEF Flow, Resumed
    <2>4. ASSUME NEW i \in Nat \ {0}, P'[i] # "prompt"
          PROVE  i = 1 /\ StandsOn(P'[i], P'[i + 1])
        <3>1. i = 1
            BY <2>1, <2>4 DEF Deeper
        <3> QED  BY <2>1, <2>2, <3>1 DEF StandsOn
    <2>5. Shape' /\ Depth'
        BY <2>4 DEF Shape, Depth
    <2>6. Flow'
        BY <2>1, <2>3 DEF Flow, Dead, Resumed
    <2>7. ~Dead => recoil_mode = "NONE"
        <3>1. P[2] # "recoil_stepped" /\ P[3] # "recoil_stepped"
            BY <1>1, <2>1 DEF Modes
        <3> QED  BY <1>1, <2>1, <3>1 DEF Modes
    <2>8. Modes'
        BY <2>1, <2>2, <2>7 DEF Modes, Dead
    <2>9. Arms'
        BY <2>1, <2>3 DEF Arms, Resumed
    <2> QED  BY <2>5, <2>6, <2>8, <2>9 DEF RunInv
<1>3. CASE Settings
    <2>1. /\ P[1] = "prompt" /\ P' = P
          /\ UNCHANGED <<mem, proc, event, recoil_mode, stack, ret>>
        BY <1>1, <1>3, SettingMoves
    <2>2. ~Resumed
        BY <1>1, <2>1 DEF Flow, Resumed
    <2>3. Shape' /\ Depth'
        BY <1>1, <2>1, SameKeeps
    <2>4. Flow'
        BY <1>1, <2>1 DEF Flow, Dead, Resumed
    <2>5. Modes'
        BY <1>1, <2>1 DEF Modes, Dead
    <2>6. Arms'
        BY <2>1, <2>2 DEF Arms, Resumed
    <2> QED  BY <2>3, <2>4, <2>5, <2>6 DEF RunInv
<1> QED  BY <1>2, <1>3, UserCases

LEMMA InferiorKeeps == ASSUME Running, Inferior PROVE RunInv'
<1>1. Hardware /\ Shape /\ Depth /\ Flow /\ Modes /\ Arms
    BY RunTop
<1>2. UNCHANGED <<mem, bps, recoil_mode, stack, ret>> /\ Resumed
    BY DEF Inferior, Exec, ExecTrap, Interrupt, Die, control, history
<1>3. P' = P
    BY <1>2, SamePlaces
<1>4. P[1] \in {"hard_wait", "cont_wait"} /\ ~Dead /\ event = "none"
    BY <1>1, <1>2 DEF Flow, Resumed, Dead
<1>5. \/ proc' = proc /\ event' = event
      \/ proc' = "stopped" /\ event' \in {"TRAP", "SIGNAL", "NEW_PID"}
      \/ proc' = "dead" /\ event' \in {"DEAD", "ERROR"}
    <2>1. ASSUME NEW e \in use.events, Interrupt(e)
          PROVE  proc' = "stopped" /\ event' \in {"TRAP", "SIGNAL", "NEW_PID"}
        <3>1. e \in {"SIGNAL", "NEW_PID"}
            BY <2>1, UseType DEF Interrupt, Running, Hardware, TypeInv, RestOK
        <3> QED  BY <2>1, <3>1 DEF Interrupt, Stop
    <2>2. Exec => (proc' = proc /\ event' = event) \/ (proc' = "stopped" /\ event' = "TRAP")
        BY DEF Exec, Stop
    <2>3. ExecTrap => proc' = "stopped" /\ event' = "TRAP"
        BY DEF ExecTrap, Stop
    <2>4. Die => proc' = "dead" /\ event' \in {"DEAD", "ERROR"}
        BY DEF Die
    <2> QED  BY <2>1, <2>2, <2>3, <2>4 DEF Inferior
<1>6. Shape' /\ Depth'
    BY <1>1, <1>3, SameKeeps
<1>7. Flow'
    BY <1>1, <1>2, <1>3, <1>4, <1>5 DEF Flow, Dead, Resumed
<1>8. Modes'
    BY <1>1, <1>2, <1>3, <1>4, <1>5 DEF Modes, Dead
<1>9. Arms'
    BY <1>1, <1>2, <1>3, <1>4, <1>5 DEF Arms, Armed
<1> QED  BY <1>6, <1>7, <1>8, <1>9 DEF RunInv

----------------------------------------------------------------------------
(* The inductive invariant, and the first theorem.                         *)

\* Sessions with hardware steps in which the debugger plugin's calls on a
\* living debuggee do not fail.
HardwareUses == \A u \in Uses : u.swsteps = {FALSE} /\ "ERROR" \notin u.events

LEMMA HardwareUse ==
    ASSUME HardwareUses, TypeInv
    PROVE  Hardware /\ "ERROR" \notin use.events
<1>1. use \in Uses /\ swstep \in use.swsteps
    BY DEF TypeInv, RestOK
<1>2. use.swsteps = {FALSE} /\ "ERROR" \notin use.events
    BY <1>1 DEF HardwareUses
<1>3. swstep \in {FALSE}
    BY <1>1, <1>2, Zenon
<1>4. ~swstep
    BY <1>3, Zenon
<1> QED  BY <1>2, <1>4 DEF Hardware

LEMMA InitRun == Init => RunInv
<1> SUFFICES ASSUME Init PROVE RunInv
    OBVIOUS
<1>1. /\ stack = << >> /\ proc = "stopped" /\ event = "none" /\ recoil_mode = "NONE"
    BY DEF Init
<1>2. \A i \in Nat \ {0} : P[i] = "prompt"
    BY <1>1 DEF P
<1>3. P[1] = "prompt" /\ P[2] = "prompt" /\ P[3] = "prompt"
    BY <1>2
<1>4. Shape /\ Depth
    BY <1>2 DEF Shape, Depth
<1>5. Flow
    BY <1>1, <1>3 DEF Flow, Resumed, Dead
<1>6. Modes
    BY <1>1, <1>3 DEF Modes
<1>7. Arms
    BY <1>1, <1>3 DEF Arms
<1> QED  BY <1>4, <1>5, <1>6, <1>7 DEF RunInv

LEMMA NextRun == ASSUME Running, [Next]_vars PROVE RunInv'
<1>1. CASE Inferior
    BY <1>1, InferiorKeeps
<1>2. CASE Debugger
    BY <1>2, StepKeeps, HardKeeps, SoftNever, RecoilKeeps, ContKeeps, UntilKeeps DEF Debugger
<1>3. CASE User
    BY <1>3, UserKeeps
<1>4. CASE UNCHANGED vars
    <2>1. UNCHANGED <<mem, proc, event, bps, recoil_mode, stack, ret>>
        BY <1>4 DEF vars, inferior, control
    <2>2. P' = P
        BY <2>1, SamePlaces
    <2>3. Shape' /\ Depth' /\ Flow' /\ Modes' /\ Arms'
        BY <2>1, <2>2, RunTop DEF Shape, Depth, Flow, Modes, Arms, Armed, Dead, Resumed
    <2> QED  BY <2>3 DEF RunInv
<1> QED  BY <1>1, <1>2, <1>3, <1>4 DEF Next

LEMMA RunAlways ==
    ASSUME HardwareUses
    PROVE  Spec => [](TypeInv /\ RunInv)
<1>1. Init => TypeInv /\ RunInv
    BY InitType, InitRun
<1>2. TypeInv /\ RunInv /\ [Next]_vars => (TypeInv /\ RunInv)'
    <2> SUFFICES ASSUME TypeInv, RunInv, [Next]_vars PROVE TypeInv' /\ RunInv'
        OBVIOUS
    <2>1. Running
        BY HardwareUse DEF Running
    <2> QED  BY <2>1, NextType, NextRun
<1> QED  BY <1>1, <1>2, PTL DEF Spec

\* While the debuggee runs freely, all breakpoints of the list are in its
\* memory: r_debug_recoil never returns to r_debug_continue_kill with success
\* before r_debug_bps_enable, whatever signals, forks, tracepoints and deaths
\* interrupt the step it makes over the breakpoint that was hit.
THEOREM BreakpointsArmed ==
    ASSUME HardwareUses
    PROVE  Spec => []NoMissedBreakpoint
<1>1. ASSUME TypeInv, RunInv PROVE NoMissedBreakpoint
    <2>1. bps \in Bps /\ Arms
        BY <1>1 DEF TypeInv, RunInv
    <2>2. DOMAIN bps = 1 .. Len(bps)
        BY <2>1, BpsSeq
    <2> QED  BY <2>1, <2>2 DEF NoMissedBreakpoint, Arms, Armed
<1> QED  BY <1>1, RunAlways, PTL

----------------------------------------------------------------------------
(* Lists of breakpoints, before and after a change.                        *)

\* r_bp_add_sw adds nothing when there is an item at the address, and one item
\* at the end, with the byte it reads from the debuggee, when there is none.
LEMMA WithBpItems ==
    ASSUME NEW s \in Bps, mem \in Mems, NEW a \in Prog,
           NEW kind \in {"break", "trace", "cond"}, NEW sw \in BOOLEAN,
           NEW t, t = WithBp(s, a, kind, sw)
    PROVE  /\ (\E i \in 1 .. Len(s) : s[i].addr = a) => t = s
           /\ (\A i \in 1 .. Len(s) : s[i].addr # a) =>
                 /\ Len(t) = Len(s) + 1 /\ \A i \in 1 .. Len(s) : t[i] = s[i]
                 /\ t[Len(s) + 1].addr = a /\ t[Len(s) + 1].kind = kind
                 /\ t[Len(s) + 1].obytes[0] = mem[a] /\ t[Len(s) + 1].swstep = sw
<1> DEFINE b == [addr |-> a, size |-> 1, hw |-> FALSE, prot |-> TRUE,
                 enabled |-> TRUE, kind |-> kind, swstep |-> sw,
                 obytes |-> ReadAt(mem, a, 1)]
<1>1. CASE \E i \in 1 .. Len(s) : s[i].addr = a
    <2>1. r_bp_get_in(s, a, TRUE) # NoPos
        BY <1>1, Added
    <2>2. t = s
        BY <2>1 DEF WithBp
    <2> QED  BY <1>1, <2>2
<1>2. CASE \A i \in 1 .. Len(s) : s[i].addr # a
    <2>1. r_bp_get_in(s, a, TRUE) = NoPos
        BY <1>2, Added
    <2>2. t = Append(s, b)
        BY <2>1 DEF WithBp
    <2>3. ReadAt(mem, a, 1)[0] = mem[a]
        <3>1. 0 \in 0 .. (1 - 1) /\ a + 0 = a
            BY ProgAddr DEF Addr
        <3> QED  BY <3>1 DEF ReadAt
    <2>4. b.addr = a /\ b.kind = kind /\ b.obytes[0] = mem[a] /\ b.swstep = sw
        BY <2>3
    <2>5. s \in Seq(Item) /\ Len(s) \in Nat
        BY BpsSeq
    <2> HIDE DEF b
    <2>6. /\ Len(t) = Len(s) + 1 /\ t[Len(s) + 1] = b
          /\ \A i \in 1 .. Len(s) : t[i] = s[i]
        BY <2>2, <2>5
    <2> QED  BY <1>2, <2>4, <2>6
<1> QED  BY <1>1, <1>2

\* r_bp_del takes away one item at the address, if there is one.
LEMMA WithoutBpItems ==
    ASSUME NEW s \in Bps, NEW a, NEW t, t = WithoutBp(s, a)
    PROVE  /\ \A j \in 1 .. Len(t) : \E i \in 1 .. Len(s) : t[j] = s[i]
           /\ (\A i \in 1 .. Len(s) : s[i].addr # a) => t = s
           /\ (\A i, j \in 1 .. Len(s) : s[i].addr = s[j].addr => i = j) =>
                 /\ \A i, j \in 1 .. Len(t) : t[i].addr = t[j].addr => i = j
                 /\ \A i \in 1 .. Len(t) : t[i].addr # a
                 /\ \A i \in 1 .. Len(s) : s[i].addr # a => \E j \in 1 .. Len(t) : t[j] = s[i]
<1>1. s \in Seq(Item) /\ Len(s) \in Nat
    BY BpsSeq
<1>2. CASE r_bp_get_at(s, a) = NoPos
    <2>1. t = s
        BY <1>2 DEF WithoutBp
    <2>2. \A i \in 1 .. Len(s) : s[i].addr # a
        BY <1>2, GetAt
    <2> QED  BY <2>1, <2>2
<1>3. CASE r_bp_get_at(s, a) # NoPos
    <2>1. PICK k \in 1 .. Len(s) : k = r_bp_get_at(s, a) /\ s[k].addr = a
        BY <1>3, GetAt
    <2>2. t = Without(s, k)
        BY <1>3, <2>1 DEF WithoutBp
    <2>3. /\ Len(t) = Len(s) - 1
          /\ \A j \in 1 .. (Len(s) - 1) : t[j] = IF j < k THEN s[j] ELSE s[j + 1]
        BY <1>1, <2>2, WithoutProperties
    <2>4. ASSUME NEW j \in 1 .. Len(t)
          PROVE  \E i \in 1 .. Len(s) : t[j] = s[i] /\ i # k /\ i = (IF j < k THEN j ELSE j + 1)
        <3>1. j \in 1 .. (Len(s) - 1) /\ j \in 1 .. Len(s) /\ j + 1 \in 1 .. Len(s)
            BY <1>1, <2>3
        <3> QED  BY <1>1, <2>3, <3>1
    <2>5. ASSUME \A i, j \in 1 .. Len(s) : s[i].addr = s[j].addr => i = j
          PROVE  /\ \A i, j \in 1 .. Len(t) : t[i].addr = t[j].addr => i = j
                 /\ \A i \in 1 .. Len(t) : t[i].addr # a
                 /\ \A i \in 1 .. Len(s) : s[i].addr # a => \E j \in 1 .. Len(t) : t[j] = s[i]
        <3>1. \A i \in 1 .. Len(t) : t[i].addr # a
            BY <2>1, <2>4, <2>5
        <3>2. ASSUME NEW i \in 1 .. Len(t), NEW j \in 1 .. Len(t), t[i].addr = t[j].addr
              PROVE  i = j
            <4>1. PICK m \in 1 .. Len(s) : t[i] = s[m] /\ m = (IF i < k THEN i ELSE i + 1)
                BY <2>4
            <4>2. PICK n \in 1 .. Len(s) : t[j] = s[n] /\ n = (IF j < k THEN j ELSE j + 1)
                BY <2>4
            <4>3. m = n
                BY <2>5, <3>2, <4>1, <4>2
            <4>4. i \in Nat /\ j \in Nat /\ k \in Nat
                BY <1>1, <2>3
            <4> QED  BY <4>1, <4>2, <4>3, <4>4
        <3>3. ASSUME NEW i \in 1 .. Len(s), s[i].addr # a
              PROVE  \E j \in 1 .. Len(t) : t[j] = s[i]
            <4>1. i # k
                BY <2>1, <3>3
            <4>2. CASE i < k
                <5>1. i \in 1 .. (Len(s) - 1) /\ i \in 1 .. Len(t)
                    BY <1>1, <2>3, <4>2
                <5> QED  BY <2>3, <4>2, <5>1
            <4>3. CASE ~(i < k)
                <5>1. PICK j \in 1 .. (Len(s) - 1) : i = j + 1 /\ ~(j < k)
                    BY <1>1, <4>1, <4>3
                <5> QED  BY <2>3, <5>1
            <4> QED  BY <4>2, <4>3
        <3> QED  BY <3>1, <3>2, <3>3
    <2>6. \A j \in 1 .. Len(t) : \E i \in 1 .. Len(s) : t[j] = s[i]
        BY <2>4
    <2> QED  BY <2>1, <2>5, <2>6
<1> QED  BY <1>2, <1>3

LEMMA DeletedItems ==
    ASSUME bps \in Bps, NEW a, bps' = WithoutBp(bps, a)
    PROVE  \A j \in 1 .. Len(bps') : \E i \in 1 .. Len(bps) : bps'[j] = bps[i]
<1>1. bps \in Seq(Item) /\ Len(bps) \in Nat
    BY BpsSeq
<1>2. CASE r_bp_get_at(bps, a) = NoPos
    BY <1>2 DEF WithoutBp
<1>3. CASE r_bp_get_at(bps, a) # NoPos
    <2>1. PICK k \in 1 .. Len(bps) : k = r_bp_get_at(bps, a)
        BY <1>3, GetAt
    <2>2. bps' = Without(bps, k)
        BY <1>3, <2>1 DEF WithoutBp
    <2>3. /\ Len(bps') = Len(bps) - 1
          /\ \A j \in 1 .. (Len(bps) - 1) : bps'[j] = IF j < k THEN bps[j] ELSE bps[j + 1]
        BY <1>1, <2>2, WithoutProperties
    <2>4. \A j \in 1 .. (Len(bps) - 1) : j \in 1 .. Len(bps) /\ j + 1 \in 1 .. Len(bps)
        BY <1>1
    <2> QED  BY <2>3, <2>4
<1> QED  BY <1>2, <1>3

\* What is deleted on return from a command is one address at most.
LEMMA WithoutTmpOne ==
    ASSUME NEW s \in Bps, NEW tmp \in Seq(Addr)
    PROVE  /\ tmp = << >> => WithoutTmp(s, tmp) = s
           /\ \A a \in Addr : tmp = <<a>> => WithoutTmp(s, tmp) = WithoutBp(s, a)
           /\ \A j \in 1 .. Len(WithoutTmp(s, tmp)) :
                 \E i \in 1 .. Len(s) : WithoutTmp(s, tmp)[j] = s[i]
<1>1. tmp = << >> => WithoutTmp(s, tmp) = s
    BY DEF WithoutTmp
<1>2. ASSUME NEW a \in Addr, tmp = <<a>> PROVE WithoutTmp(s, tmp) = WithoutBp(s, a)
    <2>1. Len(tmp) = 1 /\ tmp # << >> /\ tmp[1] = a
        BY <1>2
    <2> QED  BY <2>1 DEF WithoutTmp
<1>3. \A x : \A j \in 1 .. Len(WithoutBp(s, x)) : \E i \in 1 .. Len(s) : WithoutBp(s, x)[j] = s[i]
    BY WithoutBpItems
<1>4. ASSUME NEW x, NEW y
      PROVE  \A j \in 1 .. Len(WithoutBp(WithoutBp(s, x), y)) :
                \E i \in 1 .. Len(s) : WithoutBp(WithoutBp(s, x), y)[j] = s[i]
    <2>1. PICK r \in Bps : r = WithoutBp(s, x)
        BY WithoutBpType
    <2>2. \A j \in 1 .. Len(WithoutBp(r, y)) : \E i \in 1 .. Len(r) : WithoutBp(r, y)[j] = r[i]
        BY WithoutBpItems
    <2> QED  BY <1>3, <2>1, <2>2
<1>5. \/ WithoutTmp(s, tmp) = s \/ \E x : WithoutTmp(s, tmp) = WithoutBp(s, x)
      \/ \E x, y : WithoutTmp(s, tmp) = WithoutBp(WithoutBp(s, x), y)
    BY DEF WithoutTmp
<1>6. \A j \in 1 .. Len(WithoutTmp(s, tmp)) :
         \E i \in 1 .. Len(s) : WithoutTmp(s, tmp)[j] = s[i]
    BY <1>3, <1>4, <1>5
<1> QED  BY <1>1, <1>2, <1>6

----------------------------------------------------------------------------
(* The bytes of the debuggee.                                              *)

\* Items hold the program's bytes, and a trap in memory belongs to an item:
\* taking the items out gives the program back.
Saved == \A i \in 1 .. Len(bps) : bps[i].obytes[0] = bps[i].addr
Known == \A a \in Addr : \/ mem[a] = a
                         \/ mem[a] = Trap /\ \E i \in 1 .. Len(bps) : bps[i].addr = a

Signals == "SIGNAL" \in use.events

\* No step is the command of the user.
Nested == \A i \in Nat \ {0} : P[i] \in {"step", "step_ret"} => P[i + 1] # "prompt"

\* Where the program is back in memory: at the prompt and in the loops of the
\* commands; when no signal can take the place of a trap, after every step too.
Clean ==
    /\ P[1] \in {"prompt", "until", "until_loop", "dcu", "dcu_ret"} => mem = Code
    /\ ~Signals => /\ P[1] \in {"step_ret", "recoil_stepped"} => mem = Code
                   /\ P[1] = "hard_recoiled" /\ recoil_mode = "STEP" => mem = Code
                   /\ signum # "SIG"
    /\ Signals => Nested
    /\ P[1] # "cont_skip"
    /\ event \in {"none", "TRAP", "SIGNAL"} /\ (event = "SIGNAL" => Signals)

CleanInv == ~Dead => Saved /\ Known /\ Clean

\* Sessions in which every stop that ends a command has taken the breakpoints
\* out: signals only interrupt continuations, and are passed on.
TrapUses ==
    \A u \in Uses : /\ "NEW_PID" \notin u.events
                    /\ "SIGNAL" \in u.events => u.policies = {"cont"} /\ u.steps = {}

LEMMA TrapUse ==
    ASSUME TrapUses, TypeInv
    PROVE  /\ "NEW_PID" \notin use.events
           /\ Signals => policy = "cont" /\ use.steps = {}
<1>1. use \in Uses /\ policy \in use.policies
    BY DEF TypeInv, RestOK
<1> QED  BY <1>1 DEF TrapUses, Signals

LEMMA TakenOut ==
    ASSUME TypeInv, Saved, Known, mem' = r_bp_restore(bps, mem, FALSE)
    PROVE  mem' = Code
<1>1. bps \in Bps /\ mem \in Mems
    BY DEF TypeInv, InferiorOK
<1>2. ASSUME NEW a \in Addr PROVE mem'[a] = a
    <2>1. CASE \A i \in 1 .. Len(bps) : bps[i].addr # a
        <3>1. mem'[a] = mem[a]
            BY <1>1, <2>1, RestoredClear
        <3> QED  BY <2>1, <3>1 DEF Known
    <2>2. CASE \E i \in 1 .. Len(bps) : bps[i].addr = a
        <3>1. PICK i \in 1 .. Len(bps) : bps[i].addr = a /\ mem'[a] = bps[i].obytes[0]
            BY <1>1, <2>2, RestoredClear
        <3> QED  BY <3>1 DEF Saved
    <2> QED  BY <2>1, <2>2
<1>3. mem' \in [Addr -> Byte]
    BY <1>1, RestoreType DEF r_bp_restore, Mems
<1> QED  BY <1>2, <1>3 DEF Code

LEMMA CodeKnown == ASSUME mem = Code PROVE Known
BY DEF Code, Known

LEMMA PutIn ==
    ASSUME TypeInv, Saved, Known, UNCHANGED bps, mem' = r_bp_restore(bps, mem, TRUE)
    PROVE  Saved' /\ Known'
<1>1. bps \in Bps /\ mem \in Mems
    BY DEF TypeInv, InferiorOK
<1>2. ASSUME NEW a \in Addr
      PROVE  mem'[a] = a \/ (mem'[a] = Trap /\ \E i \in 1 .. Len(bps') : bps'[i].addr = a)
    <2>1. CASE \E i \in 1 .. Len(bps) : bps[i].addr = a
        <3>1. PICK i \in 1 .. Len(bps) : bps[i].addr = a
            BY <2>1
        <3>2. ~Skipped(bps[i], 0)
            BY DEF Skipped
        <3>3. mem'[a] = Trap
            BY <1>1, <3>1, <3>2, RestoredSet DEF r_bp_restore
        <3> QED  BY <3>1, <3>3
    <2>2. CASE \A i \in 1 .. Len(bps) : bps[i].addr # a
        <3>1. mem'[a] = mem[a]
            <4>1. DOMAIN bps = 1 .. Len(bps)
                BY <1>1, BpsSeq
            <4>2. Writers(bps, 0, a) = {}
                BY <1>1, <2>2, WriterAddr
            <4> QED  BY <4>2 DEF r_bp_restore, r_bp_restore_except
        <3> QED  BY <2>2, <3>1 DEF Known
    <2> QED  BY <2>1, <2>2
<1> QED  BY <1>2 DEF Saved, Known

\* The list changes only while the program is in memory.
LEMMA SavedAdd ==
    ASSUME TypeInv, Saved, mem = Code, NEW a \in Prog,
           NEW kind \in {"break", "trace", "cond"}, NEW sw \in BOOLEAN,
           bps' = WithBp(bps, a, kind, sw)
    PROVE  Saved'
<1>1. bps \in Bps /\ mem \in Mems /\ Len(bps) \in Nat
    BY BpsSeq DEF TypeInv, InferiorOK
<1>2. /\ (\E i \in 1 .. Len(bps) : bps[i].addr = a) => bps' = bps
      /\ (\A i \in 1 .. Len(bps) : bps[i].addr # a) =>
            /\ Len(bps') = Len(bps) + 1 /\ \A i \in 1 .. Len(bps) : bps'[i] = bps[i]
            /\ bps'[Len(bps) + 1].addr = a
            /\ bps'[Len(bps) + 1].obytes[0] = mem[a]
    BY <1>1, WithBpItems
<1>3. mem[a] = a
    BY ProgAddr DEF Code
<1>4. CASE bps' = bps
    BY <1>4 DEF Saved
<1>5. CASE \A i \in 1 .. Len(bps) : bps[i].addr # a
    <2>1. ASSUME NEW i \in 1 .. Len(bps') PROVE bps'[i].obytes[0] = bps'[i].addr
        <3>1. CASE i \in 1 .. Len(bps)
            BY <1>2, <1>5, <3>1 DEF Saved
        <3>2. CASE i = Len(bps) + 1
            BY <1>2, <1>3, <1>5, <3>2
        <3> QED  BY <1>1, <1>2, <1>5, <3>1, <3>2
    <2> QED  BY <2>1 DEF Saved
<1> QED  BY <1>2, <1>4, <1>5

LEMMA SavedFewer ==
    ASSUME Saved, \A j \in 1 .. Len(bps') : \E i \in 1 .. Len(bps) : bps'[j] = bps[i]
    PROVE  Saved'
BY DEF Saved

LEMMA NestedGoto ==
    ASSUME Nested, NEW x, x \notin {"step", "step_ret"}, GotoP(x)
    PROVE  Nested'
<1> SUFFICES ASSUME NEW i \in Nat \ {0}, P'[i] \in {"step", "step_ret"}
             PROVE  P'[i + 1] # "prompt"
    BY DEF Nested
<1>1. i # 1
    BY DEF GotoP
<1>2. i \in Deeper /\ i + 1 \in Deeper
    BY <1>1 DEF Deeper
<1> QED  BY <1>2 DEF GotoP, Nested

LEMMA NestedCall ==
    ASSUME Nested, NEW x, NEW y, CallP(x, y), x # "prompt",
           x \in {"step", "step_ret"} => P[1] \in {"step", "step_ret"}
    PROVE  Nested'
<1> SUFFICES ASSUME NEW i \in Nat \ {0}, P'[i] \in {"step", "step_ret"}
             PROVE  P'[i + 1] # "prompt"
    BY DEF Nested
<1>1. CASE i = 1
    BY <1>1 DEF CallP
<1>2. CASE i = 2
    <2>1. P[1] \in {"step", "step_ret"} => P[1 + 1] # "prompt"
        BY DEF Nested
    <2>2. P'[3] = P[2] /\ P'[2] = x
        BY DEF CallP
    <2> QED  BY <1>2, <2>1, <2>2
<1>3. CASE i \notin {1, 2}
    <2>1. PICK j \in Nat : j = i - 1
        OBVIOUS
    <2>2. j \in Deeper /\ j + 1 \in Deeper /\ i = j + 1 /\ j \in Nat \ {0}
        BY <1>3, <2>1 DEF Deeper
    <2>3. P'[i] = P[j] /\ P'[i + 1] = P[j + 1]
        BY <2>2 DEF CallP
    <2> QED  BY <2>2, <2>3 DEF Nested
<1> QED  BY <1>1, <1>2, <1>3

LEMMA NestedReturn ==
    ASSUME Nested, ReturnP
    PROVE  Nested'
<1> SUFFICES ASSUME NEW i \in Nat \ {0}, P'[i] \in {"step", "step_ret"}
             PROVE  P'[i + 1] # "prompt"
    BY DEF Nested
<1>1. i + 1 \in Nat \ {0}
    OBVIOUS
<1>2. P'[i] = P[i + 1] /\ P'[i + 1] = P[i + 1 + 1]
    BY <1>1 DEF ReturnP
<1> QED  BY <1>1, <1>2 DEF Nested

\* A dead debuggee stays dead.
LEMMA DeadStays == ASSUME Running, Next, Dead PROVE Dead'
<1>1. Hardware /\ Flow
    BY RunTop
<1>2. ~Resumed
    BY DEF Dead, Resumed
<1>3. ~Inferior
    BY <1>2 DEF Inferior, Exec, ExecTrap, Interrupt, Die
<1>4. ~StepHardGo
    BY <1>1, HardGoMoves DEF Flow
<1>5. ContGo => proc' = proc
    BY <1>1, ContGoMoves DEF Flow
<1>6. CASE Debugger
    BY <1>4, <1>5, <1>6 DEF Debugger, r_debug_step, StepReturn, StepHardEnter, StepHardRecoiled,
        StepHardWait, StepSoftEnter, StepSoftReturn, RecoilEnter, RecoilStepped, ContRepeat,
        ContWait, ContSkip, UntilEnter, UntilLoop, DcuEnter, DcuReturn, Quiet, inferior, Dead
<1>7. CASE User
    <2>1. proc' = proc
        BY <1>1, <1>7, UserCases, CommandMoves, SettingMoves
    <2> QED  BY <2>1 DEF Dead
<1> QED  BY <1>3, <1>6, <1>7 DEF Next

\* What r_debug_wait leaves in memory.
LEMMA WaitBytes ==
    ASSUME TypeInv, Saved, Known, r_debug_wait, UNCHANGED bps
    PROVE  /\ Saved' /\ Known' /\ event' = "none"
           /\ event = "TRAP" => mem' = Code /\ signum' = "TRAP"
           /\ event = "SIGNAL" => signum' = "SIG"
<1>1. Saved' /\ event' = "none"
    BY DEF Saved, r_debug_wait
<1>2. /\ event = "TRAP" => signum' = "TRAP"
      /\ event = "SIGNAL" => signum' = "SIG"
    BY DEF r_debug_wait
<1>3. CASE event = "TRAP"
    <2>1. mem' = r_bp_restore(bps, mem, FALSE)
        BY <1>3 DEF r_debug_wait, r_debug_bp_hit
    <2>2. mem' = Code
        BY <2>1, TakenOut
    <2>3. Known'
        BY <2>2 DEF Code, Known
    <2> QED  BY <1>1, <1>2, <1>3, <2>2, <2>3
<1>4. CASE event # "TRAP"
    <2>1. mem' = mem
        BY <1>4 DEF r_debug_wait
    <2>2. Known'
        BY <2>1 DEF Known
    <2> QED  BY <1>1, <1>2, <1>4, <2>2
<1> QED  BY <1>3, <1>4

LEMMA SameBytes == ASSUME Saved, Known, UNCHANGED <<mem, bps>> PROVE Saved' /\ Known'
BY DEF Saved, Known

LEMMA StepClean ==
    ASSUME Running, TrapUses, CleanInv, ~Dead,
           r_debug_step \/ StepReturn \/ StepHardEnter \/ StepHardRecoiled \/ StepHardGo \/ StepHardWait
    PROVE  CleanInv'
<1>1. Hardware /\ TypeInv /\ Flow /\ Saved /\ Known /\ Clean
    BY RunTop DEF CleanInv, Hardware
<1>2. P[1] # "prompt" => StandsOn(P[1], P[2])
    BY RunTop
<1>3. UNCHANGED <<use, bps>> /\ Signals' = Signals
    BY DEF r_debug_step, StepReturn, StepHardEnter, StepHardRecoiled, StepHardGo, StepHardWait,
           Quiet, config, Signals
<1>4. ASSUME r_debug_step PROVE CleanInv'
    <2>1. P[1] = "step" /\ CallP("step_ret", "hard")
        BY <1>1, <1>4, StepMoves
    <2>2. UNCHANGED <<mem, event, signum>>
        BY <1>4 DEF r_debug_step, Quiet, inferior
    <2>3. Signals => Nested'
        BY <1>1, <2>1, NestedCall DEF Clean
    <2>4. Clean'
        BY <1>1, <1>3, <2>1, <2>2, <2>3 DEF Clean, CallP
    <2> QED  BY <1>1, <1>3, <2>2, <2>4, SameBytes DEF CleanInv
<1>5. ASSUME StepReturn PROVE CleanInv'
    <2>1. P[1] = "step_ret" /\ ReturnP
        BY <1>1, <1>5, StepReturnMoves
    <2>2. UNCHANGED <<mem, event, signum, recoil_mode>>
        BY <1>5 DEF StepReturn, Quiet, inferior
    <2>3. Signals => Nested' /\ P[2] # "prompt"
        <3>1. Nested => P[1 + 1] # "prompt"
            BY <2>1 DEF Nested
        <3> QED  BY <1>1, <2>1, <3>1, NestedReturn DEF Clean
    <2>4. P'[1] \in {"recoil_stepped", "cont", "prompt"} /\ P'[1] = P[2]
        BY <1>2, <2>1 DEF ReturnP, StandsOn
    <2>5. Clean'
        BY <1>1, <1>3, <2>1, <2>2, <2>3, <2>4 DEF Clean
    <2> QED  BY <1>1, <1>3, <2>2, <2>5, SameBytes DEF CleanInv
<1>6. ASSUME StepHardEnter PROVE CleanInv'
    <2>1. P[1] = "hard" /\ (CallP("hard_recoiled", "recoil") \/ GotoP("hard_go"))
        BY <1>1, <1>6, HardEnterMoves
    <2>2. UNCHANGED <<mem, event, signum>>
        BY <1>6 DEF StepHardEnter, Quiet, inferior
    <2>3. Signals => Nested'
        BY <1>1, <2>1, NestedCall, NestedGoto DEF Clean
    <2>4. P'[1] \in {"recoil", "hard_go"}
        BY <2>1 DEF CallP, GotoP
    <2>5. Clean'
        BY <1>1, <1>3, <2>2, <2>3, <2>4 DEF Clean
    <2> QED  BY <1>1, <1>3, <2>2, <2>5, SameBytes DEF CleanInv
<1>7. ASSUME StepHardRecoiled PROVE CleanInv'
    <2>1. /\ P[1] = "hard_recoiled"
          /\ \/ ReturnP /\ recoil_mode = "STEP"
             \/ GotoP("hard_go")
        <3>1. P[1] = "hard_recoiled"
            BY <1>1, <1>7, HardRecoiledMoves
        <3>2. ret
            BY <1>1, <3>1 DEF Flow
        <3> QED  BY <1>1, <1>7, <3>1, <3>2, HardRecoiledMoves
    <2>2. UNCHANGED <<mem, event, signum>>
        BY <1>7 DEF StepHardRecoiled, inferior
    <2>3. Signals => Nested'
        BY <1>1, <2>1, NestedReturn, NestedGoto DEF Clean
    <2>4. P'[1] = "hard_go" \/ (P'[1] = "step_ret" /\ recoil_mode = "STEP")
        BY <1>2, <2>1 DEF ReturnP, GotoP, StandsOn
    <2>5. Clean'
        BY <1>1, <1>3, <2>1, <2>2, <2>3, <2>4 DEF Clean
    <2> QED  BY <1>1, <1>3, <2>2, <2>5, SameBytes DEF CleanInv
<1>8. ASSUME StepHardGo PROVE CleanInv'
    <2>1. P[1] = "hard_go" /\ GotoP("hard_wait")
        BY <1>1, <1>8, HardGoMoves DEF Running
    <2>2. UNCHANGED <<mem, event, signum>>
        BY <1>8 DEF StepHardGo
    <2>3. Signals => Nested'
        BY <1>1, <2>1, NestedGoto DEF Clean
    <2>4. Clean'
        BY <1>1, <1>3, <2>1, <2>2, <2>3 DEF Clean, GotoP
    <2> QED  BY <1>1, <1>3, <2>2, <2>4, SameBytes DEF CleanInv
<1>9. ASSUME StepHardWait PROVE CleanInv'
    <2>1. P[1] = "hard_wait" /\ ReturnP
        BY <1>1, <1>9, HardWaitMoves
    <2>2. /\ Saved' /\ Known' /\ event' = "none" /\ event # "none"
          /\ event = "TRAP" => mem' = Code /\ signum' = "TRAP"
        BY <1>1, <1>3, <1>9, WaitBytes DEF StepHardWait, r_debug_wait
    <2>3. Signals => Nested'
        BY <1>1, <2>1, NestedReturn DEF Clean
    <2>4. P'[1] = "step_ret"
        BY <1>2, <2>1 DEF ReturnP, StandsOn
    <2>5. Clean'
        BY <1>1, <1>3, <2>2, <2>3, <2>4 DEF Clean
    <2> QED  BY <2>2, <2>5 DEF CleanInv
<1> QED  BY <1>4, <1>5, <1>6, <1>7, <1>8, <1>9

LEMMA RecoilClean ==
    ASSUME Running, TrapUses, CleanInv, ~Dead, RecoilEnter \/ RecoilStepped
    PROVE  CleanInv'
<1>1. Hardware /\ TypeInv /\ Flow /\ Modes /\ Saved /\ Known /\ Clean
    BY RunTop DEF CleanInv, Hardware
<1>2. P[1] # "prompt" => StandsOn(P[1], P[2])
    BY RunTop
<1>3. UNCHANGED <<use, bps, event, signum>> /\ Signals' = Signals
    BY DEF RecoilEnter, RecoilStepped, config, Signals
<1>4. ASSUME r_debug_bps_enable, P'[1] \in {"hard_recoiled", "cont_recoiled"}, Signals => Nested'
      PROVE  CleanInv'
    <2>1. mem' = r_bp_restore(bps, mem, TRUE) /\ recoil_mode' = "NONE"
        BY <1>4 DEF r_debug_bps_enable
    <2>2. Saved' /\ Known'
        BY <1>1, <1>3, <2>1, PutIn
    <2>3. Clean'
        BY <1>1, <1>3, <1>4, <2>1 DEF Clean
    <2> QED  BY <2>2, <2>3 DEF CleanInv
<1>5. ASSUME RecoilEnter PROVE CleanInv'
    <2>1. /\ P[1] = "recoil"
          /\ \/ ReturnP /\ r_debug_bps_enable
             \/ CallP("recoil_stepped", "step") /\ mem' = mem
        BY <1>1, <1>5, RecoilMoves DEF Modes
    <2>2. CASE ReturnP /\ r_debug_bps_enable
        <3>1. P'[1] \in {"hard_recoiled", "cont_recoiled"}
            BY <1>2, <2>1, <2>2 DEF ReturnP, StandsOn
        <3>2. Signals => Nested'
            BY <1>1, <2>2, NestedReturn DEF Clean
        <3> QED  BY <1>4, <2>2, <3>1, <3>2
    <2>3. CASE CallP("recoil_stepped", "step") /\ mem' = mem
        <3>1. Signals => Nested'
            BY <1>1, <2>3, NestedCall DEF Clean
        <3>2. P'[1] = "step"
            BY <2>3 DEF CallP
        <3>3. Clean'
            BY <1>1, <1>3, <3>1, <3>2 DEF Clean
        <3> QED  BY <1>1, <1>3, <2>3, <3>3, SameBytes DEF CleanInv
    <2> QED  BY <2>1, <2>2, <2>3
<1>6. ASSUME RecoilStepped PROVE CleanInv'
    <2>1. P[1] = "recoil_stepped" /\ ReturnP
        BY <1>1, <1>6, RecoilSteppedMoves
    <2>2. ret
        BY <1>1, <2>1 DEF Flow
    <2>3. \/ bp_addr = 0 /\ recoil_mode = "STEP" /\ UNCHANGED <<mem, recoil_mode>>
          \/ r_debug_bps_enable
        BY <1>1, <1>6, <2>2, RecoilSteppedMoves
    <2>4. P'[1] \in {"hard_recoiled", "cont_recoiled"}
        BY <1>2, <2>1 DEF ReturnP, StandsOn
    <2>5. Signals => Nested'
        BY <1>1, <2>1, NestedReturn DEF Clean
    <2>6. CASE r_debug_bps_enable
        BY <1>4, <2>4, <2>5, <2>6
    <2>7. CASE bp_addr = 0 /\ recoil_mode = "STEP" /\ UNCHANGED <<mem, recoil_mode>>
        <3>1. Clean'
            BY <1>1, <1>3, <2>1, <2>4, <2>5, <2>7 DEF Clean
        <3> QED  BY <1>1, <1>3, <2>7, <3>1, SameBytes DEF CleanInv
    <2> QED  BY <2>3, <2>6, <2>7
<1> QED  BY <1>5, <1>6

LEMMA ContClean ==
    ASSUME Running, TrapUses, CleanInv, ~Dead, ContRepeat \/ ContGo \/ ContWait \/ ContSkip
    PROVE  CleanInv'
<1>1. Hardware /\ TypeInv /\ Flow /\ Saved /\ Known /\ Clean
    BY RunTop DEF CleanInv, Hardware
<1>2. P[1] # "prompt" => StandsOn(P[1], P[2])
    BY RunTop
<1>3. UNCHANGED <<use, bps>> /\ Signals' = Signals
    BY DEF ContRepeat, ContGo, ContWait, ContSkip, Quiet, config, Signals
<1>4. ASSUME ContRepeat PROVE CleanInv'
    <2>1. P[1] = "cont" /\ CallP("cont_recoiled", "recoil")
        BY <1>1, <1>4, ContMoves
    <2>2. UNCHANGED <<mem, event, signum>>
        BY <1>4 DEF ContRepeat, Quiet, inferior
    <2>3. Signals => Nested'
        BY <1>1, <2>1, NestedCall DEF Clean
    <2>4. Clean'
        BY <1>1, <1>3, <2>1, <2>2, <2>3 DEF Clean, CallP
    <2> QED  BY <1>1, <1>3, <2>2, <2>4, SameBytes DEF CleanInv
<1>5. ASSUME ContGo PROVE CleanInv'
    <2>1. P[1] = "cont_recoiled"
        BY <1>1, <1>5, ContGoMoves
    <2>2. GotoP("cont_wait")
        BY <1>1, <1>5, <2>1, ContGoMoves DEF Flow
    <2>3. UNCHANGED <<mem, event, signum>>
        BY <1>5 DEF ContGo
    <2>4. Signals => Nested'
        BY <1>1, <2>2, NestedGoto DEF Clean
    <2>5. Clean'
        BY <1>1, <1>3, <2>1, <2>2, <2>3, <2>4 DEF Clean, GotoP
    <2> QED  BY <1>1, <1>3, <2>3, <2>5, SameBytes DEF CleanInv
<1>6. ASSUME ContWait PROVE CleanInv'
    <2>1. /\ P[1] = "cont_wait"
          /\ \/ /\ WaitReason = "COND" \/ (signum' = "SIG" => policy = "stop")
                /\ ReturnP
             \/ WaitReason = "TRACEPOINT" /\ CallP("cont", "step")
             \/ GotoP("cont")
             \/ signum' = "SIG" /\ policy = "skip" /\ GotoP("cont_skip")
        BY <1>1, <1>6, ContWaitMoves
    <2>2. /\ Saved' /\ Known' /\ event' = "none" /\ event # "none"
          /\ event = "TRAP" => mem' = Code /\ signum' = "TRAP"
          /\ event = "SIGNAL" => signum' = "SIG"
        BY <1>1, <1>3, <1>6, WaitBytes DEF ContWait, r_debug_wait
    <2>3. WaitReason = "COND" => event = "TRAP"
        BY <1>1 DEF WaitReason, r_debug_native_wait, Clean
    <2>4. Signals => policy = "cont"
        BY <1>1, TrapUse
    <2>5. /\ event \in {"TRAP", "SIGNAL"} /\ (event = "SIGNAL" => Signals)
          /\ ~GotoP("cont_skip") \/ event # "TRAP" \/ ~(signum' = "SIG")
        BY <1>1, <2>2 DEF Clean
    <2>6. \/ ReturnP /\ event = "TRAP"
          \/ CallP("cont", "step")
          \/ GotoP("cont")
        BY <2>1, <2>2, <2>3, <2>4, <2>5
    <2>7. Signals => Nested'
        BY <1>1, <2>6, NestedReturn, NestedCall, NestedGoto DEF Clean
    <2>8. P'[1] \in {"step", "cont"} \/ (event = "TRAP" /\ P'[1] \in {"until_loop", "dcu_ret", "prompt"})
        BY <1>2, <2>1, <2>6 DEF ReturnP, CallP, GotoP, StandsOn
    <2>9. Clean'
        BY <1>1, <1>3, <2>2, <2>5, <2>7, <2>8 DEF Clean
    <2> QED  BY <2>2, <2>9 DEF CleanInv
<1>7. ~ContSkip
    BY <1>1, ContSkipMoves DEF Clean
<1> QED  BY <1>4, <1>5, <1>6, <1>7

\* What the commands do to the list.
LEMMA UntilList ==
    ASSUME Hardware, UntilEnter \/ UntilLoop \/ DcuEnter \/ DcuReturn
    PROVE  /\ stack # << >> /\ stack[1] \in Frame /\ stack[1].tmp \in Seq(Addr)
           /\ \/ bps' = bps
              \/ /\ stack[1].to \in Prog
                 /\ bps' = WithBp(bps, stack[1].to, "break", FALSE)
              \/ bps' = WithoutTmp(bps, stack[1].tmp)
<1>1. stack \in Seq(Frame) /\ ControlOK
    BY DEF Hardware, TypeInv, ControlOK
<1>2. stack # << >> /\ stack[1] \in Frame /\ Head(stack) = stack[1]
    BY <1>1, AtTop DEF UntilEnter, UntilLoop, DcuEnter, DcuReturn
<1>3. UntilEnter \/ DcuEnter => stack[1].to \in Prog
    <2>1. 1 \in 1 .. Len(stack)
        BY <1>1, <1>2
    <2>2. UntilEnter \/ DcuEnter => stack[1].at \in {"until", "dcu"}
        BY <1>1, AtTop DEF UntilEnter, DcuEnter
    <2> QED  BY <1>1, <2>1, <2>2 DEF ControlOK
<1>4. \/ bps' = bps
      \/ (UntilEnter \/ DcuEnter) /\ bps' = WithBp(bps, stack[1].to, "break", FALSE)
      \/ bps' = WithoutTmp(bps, stack[1].tmp)
    BY <1>2 DEF UntilEnter, UntilLoop, DcuEnter, DcuReturn
<1> QED  BY <1>2, <1>3, <1>4 DEF Frame

LEMMA UntilClean ==
    ASSUME Running, TrapUses, CleanInv, ~Dead, UntilEnter \/ UntilLoop \/ DcuEnter \/ DcuReturn
    PROVE  CleanInv'
<1>1. Hardware /\ TypeInv /\ Flow /\ Saved /\ Clean /\ bps \in Bps
    BY RunTop DEF CleanInv, Hardware, TypeInv
<1>2. P[1] # "prompt" => StandsOn(P[1], P[2])
    BY RunTop
<1>3. UNCHANGED <<use, mem, event, signum>> /\ Signals' = Signals
    BY DEF UntilEnter, UntilLoop, DcuEnter, DcuReturn, inferior, config, Signals
<1>4. /\ P[1] \in {"until", "until_loop", "dcu", "dcu_ret"}
      /\ ReturnP \/ GotoP("until_loop") \/ CallP("until_loop", "cont") \/ CallP("dcu_ret", "cont")
    BY <1>1, UntilMoves, UntilLoopMoves, DcuMoves, DcuReturnMoves
<1>5. mem = Code
    BY <1>1, <1>4 DEF Clean
<1>6. Saved'
    <2>1. /\ stack[1].tmp \in Seq(Addr)
          /\ \/ bps' = bps
             \/ /\ stack[1].to \in Prog
                /\ bps' = WithBp(bps, stack[1].to, "break", FALSE)
             \/ bps' = WithoutTmp(bps, stack[1].tmp)
        BY <1>1, UntilList
    <2>2. CASE bps' = bps
        BY <1>1, <2>2 DEF Saved
    <2>3. CASE stack[1].to \in Prog /\ bps' = WithBp(bps, stack[1].to, "break", FALSE)
        BY <1>1, <1>5, <2>3, SavedAdd
    <2>4. CASE bps' = WithoutTmp(bps, stack[1].tmp)
        <3>1. \A j \in 1 .. Len(bps') : \E i \in 1 .. Len(bps) : bps'[j] = bps[i]
            BY <1>1, <2>1, <2>4, WithoutTmpOne
        <3> QED  BY <1>1, <3>1, SavedFewer
    <2> QED  BY <2>1, <2>2, <2>3, <2>4
<1>7. Known'
    BY <1>3, <1>5 DEF Code, Known
<1>8. Signals => Nested'
    BY <1>1, <1>4, NestedReturn, NestedCall, NestedGoto DEF Clean
<1>9. P'[1] \in {"until_loop", "cont", "prompt"}
    BY <1>2, <1>4 DEF ReturnP, GotoP, CallP, StandsOn
<1>10. Clean'
    BY <1>1, <1>3, <1>5, <1>8, <1>9 DEF Clean
<1> QED  BY <1>6, <1>7, <1>10 DEF CleanInv

\* What the settings do to the list.
LEMMA SettingList ==
    ASSUME TypeInv, Settings
    PROVE  \/ bps' = bps /\ mine' = mine
           \/ \E a \in BpAddrs, kind \in use.kinds :
                 bps' = WithBp(bps, a, kind, FALSE) /\ mine' = mine \cup {a}
           \/ \E a \in BpAddrs : bps' = WithoutBp(bps, a) /\ mine' = mine \ {a}
           \/ /\ mine' = mine /\ Len(bps') = Len(bps)
              /\ \A j \in 1 .. Len(bps) : /\ bps'[j].addr = bps[j].addr
                                          /\ bps'[j].kind = bps[j].kind
                                          /\ bps'[j].obytes = bps[j].obytes
                                          /\ bps'[j].swstep = bps[j].swstep
<1>1. use \in Uses /\ bps \in Bps
    BY DEF TypeInv, RestOK
<1>2. ASSUME NEW a \in BpAddrs, NEW set \in use.enables, CmdEnable(a, set)
      PROVE  /\ mine' = mine /\ Len(bps') = Len(bps)
             /\ \A j \in 1 .. Len(bps) : /\ bps'[j].addr = bps[j].addr
                                         /\ bps'[j].kind = bps[j].kind
                                         /\ bps'[j].obytes = bps[j].obytes
                                         /\ bps'[j].swstep = bps[j].swstep
    <2>1. set \in BOOLEAN
        BY <1>1, UseType
    <2>2. PICK i \in 1 .. Len(bps) : i = r_bp_get_in(bps, a, FALSE)
        BY <1>1, <1>2, GetIn DEF CmdEnable
    <2>3. bps' = [bps EXCEPT ![i].enabled = set] /\ mine' = mine
        BY <1>2, <2>2 DEF CmdEnable
    <2>4. /\ Len([bps EXCEPT ![i].enabled = set]) = Len(bps)
          /\ \A j \in 1 .. Len(bps) :
                /\ [bps EXCEPT ![i].enabled = set][j].addr = bps[j].addr
                /\ [bps EXCEPT ![i].enabled = set][j].kind = bps[j].kind
                /\ [bps EXCEPT ![i].enabled = set][j].obytes = bps[j].obytes
                /\ [bps EXCEPT ![i].enabled = set][j].swstep = bps[j].swstep
        BY <1>1, <2>1, EnableType
    <2> QED  BY <2>3, <2>4, Zenon
<1>3. ASSUME NEW a \in BpAddrs, NEW kind \in use.kinds, CmdAdd(a, kind)
      PROVE  bps' = WithBp(bps, a, kind, FALSE) /\ mine' = mine \cup {a}
    BY <1>3 DEF CmdAdd
<1>4. ASSUME NEW a \in BpAddrs, CmdDel(a)
      PROVE  bps' = WithoutBp(bps, a) /\ mine' = mine \ {a}
    BY <1>4 DEF CmdDel
<1>5. ASSUME (\E a \in use.pcs : CmdSetPc(a)) \/ CmdConfig
      PROVE  bps' = bps /\ mine' = mine
    BY <1>5 DEF CmdSetPc, CmdConfig
<1> QED  BY <1>2, <1>3, <1>4, <1>5 DEF Settings

LEMMA UserClean ==
    ASSUME Running, TrapUses, CleanInv, ~Dead, User
    PROVE  CleanInv'
<1>1. Hardware /\ TypeInv /\ Flow /\ Saved /\ Clean /\ bps \in Bps /\ use \in Uses
    BY RunTop DEF CleanInv, Hardware, TypeInv, RestOK
<1>2. ASSUME Commands PROVE CleanInv'
    <2>1. /\ P[1] = "prompt" /\ P'[1] \in {"step", "cont", "until", "dcu"}
          /\ \A i \in Deeper : P'[i] = "prompt"
          /\ P'[1] = "step" => use.steps # {}
          /\ UNCHANGED <<mem, event, bps, signum, use>>
        BY <1>1, <1>2, CommandMoves
    <2>2. mem = Code /\ Signals' = Signals
        BY <1>1, <2>1 DEF Clean, Signals
    <2>3. Signals => Nested'
        <3>1. Signals => P'[1] # "step"
            BY <1>1, <2>1, TrapUse
        <3>2. ASSUME NEW i \in Nat \ {0}, P'[i] \in {"step", "step_ret"} PROVE i = 1
            BY <2>1, <3>2 DEF Deeper
        <3> QED  BY <2>1, <3>1, <3>2 DEF Nested
    <2>4. Clean'
        BY <1>1, <2>1, <2>2, <2>3 DEF Clean
    <2>5. Saved' /\ Known'
        BY <1>1, <2>1, <2>2, CodeKnown, SameBytes
    <2> QED  BY <2>4, <2>5 DEF CleanInv
<1>3. ASSUME Settings PROVE CleanInv'
    <2>1. P[1] = "prompt" /\ P' = P /\ UNCHANGED <<mem, event, recoil_mode, signum, use>>
        BY <1>1, <1>3, SettingMoves
    <2>2. mem = Code /\ Signals' = Signals
        BY <1>1, <2>1 DEF Clean, Signals
    <2>3. Known'
        BY <2>1, <2>2 DEF Code, Known
    <2>4. Clean'
        BY <1>1, <2>1, <2>2 DEF Clean, Nested
    <2>5. Saved'
        <3>1. CASE bps' = bps
            BY <1>1, <3>1 DEF Saved
        <3>2. ASSUME NEW a \in BpAddrs, NEW kind \in use.kinds, bps' = WithBp(bps, a, kind, FALSE)
              PROVE  Saved'
            <4>1. a \in Prog /\ kind \in {"break", "trace", "cond"}
                BY <1>1, ProgAssumption, UseType
            <4> QED  BY <1>1, <2>2, <3>2, <4>1, SavedAdd
        <3>3. ASSUME NEW a \in BpAddrs, bps' = WithoutBp(bps, a) PROVE Saved'
            <4>1. \A j \in 1 .. Len(bps') : \E i \in 1 .. Len(bps) : bps'[j] = bps[i]
                BY <1>1, <3>3, DeletedItems
            <4> QED  BY <1>1, <4>1, SavedFewer
        <3>4. CASE /\ Len(bps') = Len(bps)
                   /\ \A j \in 1 .. Len(bps) : /\ bps'[j].addr = bps[j].addr
                                               /\ bps'[j].obytes = bps[j].obytes
            BY <1>1, <3>4 DEF Saved
        <3> QED  BY <1>1, <1>3, <3>1, <3>2, <3>3, <3>4, SettingList
    <2> QED  BY <2>3, <2>4, <2>5 DEF CleanInv
<1> QED  BY <1>2, <1>3, UserCases

LEMMA InferiorClean ==
    ASSUME Running, TrapUses, CleanInv, ~Dead, Inferior
    PROVE  CleanInv'
<1>1. Hardware /\ TypeInv /\ Flow /\ Saved /\ Known /\ Clean /\ use \in Uses
    BY RunTop DEF CleanInv, Hardware, TypeInv, RestOK
<1>2. UNCHANGED <<mem, bps, recoil_mode, signum, stack, use>> /\ Resumed
    BY DEF Inferior, Exec, ExecTrap, Interrupt, Die, control, config
<1>3. P' = P /\ P[1] \in {"hard_wait", "cont_wait"} /\ Signals' = Signals
    BY <1>1, <1>2, SamePlaces DEF Flow, Resumed, Signals
<1>4. Dead' \/ event' \in {event, "TRAP"} \/ (event' = "SIGNAL" /\ Signals)
    <2>1. ASSUME NEW e \in use.events, Interrupt(e)
          PROVE  event' = "SIGNAL" /\ Signals
        <3>1. e = "SIGNAL"
            BY <1>1, <2>1, UseType, TrapUse DEF Interrupt, Running
        <3> QED  BY <2>1, <3>1 DEF Interrupt, Stop, Signals
    <2>2. Exec \/ ExecTrap => event' \in {event, "TRAP"}
        BY DEF Exec, ExecTrap, Stop
    <2>3. Die => Dead'
        BY DEF Die, Dead
    <2> QED  BY <2>1, <2>2, <2>3 DEF Inferior
<1>5. Dead' \/ Clean'
    BY <1>1, <1>2, <1>3, <1>4 DEF Clean, Nested
<1>6. Saved' /\ Known'
    BY <1>1, <1>2, SameBytes
<1> QED  BY <1>5, <1>6 DEF CleanInv

LEMMA CleanAlways ==
    ASSUME HardwareUses, TrapUses
    PROVE  Spec => [](TypeInv /\ RunInv /\ CleanInv)
<1>1. Init => CleanInv
    <2> SUFFICES ASSUME Init PROVE Saved /\ Known /\ Clean
        BY DEF CleanInv
    <2>1. /\ mem = Code /\ stack = << >> /\ event = "none" /\ signum = "none" /\ bps = << >>
        BY DEF Init
    <2>2. \A i \in Nat \ {0} : P[i] = "prompt"
        BY <2>1 DEF P
    <2>3. P[1] = "prompt" /\ Nested
        BY <2>2 DEF Nested
    <2>4. Saved
        BY <2>1 DEF Saved
    <2>5. Known
        BY <2>1, CodeKnown
    <2>6. Clean
        BY <2>1, <2>3 DEF Clean
    <2> QED  BY <2>4, <2>5, <2>6
<1>2. TypeInv /\ RunInv /\ CleanInv /\ [Next]_vars => CleanInv'
    <2> SUFFICES ASSUME TypeInv, RunInv, CleanInv, [Next]_vars PROVE CleanInv'
        OBVIOUS
    <2>1. Running
        BY HardwareUse DEF Running
    <2>2. CASE Next
        <3>1. CASE Dead
            BY <2>1, <2>2, <3>1, DeadStays DEF CleanInv
        <3>2. CASE ~Dead
            <4>1. CASE Inferior
                BY <2>1, <3>2, <4>1, InferiorClean
            <4>2. CASE Debugger
                BY <2>1, <3>2, <4>2, StepClean, SoftNever, RecoilClean, ContClean, UntilClean DEF Debugger
            <4>3. CASE User
                BY <2>1, <3>2, <4>3, UserClean
            <4> QED  BY <2>2, <4>1, <4>2, <4>3 DEF Next
        <3> QED  BY <3>1, <3>2
    <2>3. CASE UNCHANGED vars
        <3>1. UNCHANGED <<mem, proc, event, bps, recoil_mode, signum, stack, use>>
            BY <2>3 DEF vars, inferior, control, config
        <3>2. P' = P
            BY <3>1, SamePlaces
        <3> QED  BY <3>1, <3>2 DEF CleanInv, Saved, Known, Clean, Nested, Signals, Dead
    <2> QED  BY <2>2, <2>3
<1> QED  BY <1>1, <1>2, RunAlways, PTL DEF Spec

\* At the prompt the debuggee reads as the program, for every program and every
\* session of hardware steps in which signals do not end a command: every stop
\* that r_debug_step and r_debug_continue_kill report has been through
\* r_debug_bp_hit, and every byte it puts back is the one that was there.
THEOREM PromptShowsProgram ==
    ASSUME HardwareUses, TrapUses
    PROVE  Spec => []CleanWhenStopped
<1>1. ASSUME TypeInv, CleanInv PROVE CleanWhenStopped
    <2>1. Idle => P[1] = "prompt"
        BY <1>1, IdlePlace DEF TypeInv, ControlOK
    <2> QED  BY <1>1, <2>1 DEF CleanWhenStopped, CleanInv, Clean
<1> QED  BY <1>1, CleanAlways, PTL

----------------------------------------------------------------------------
(* The temporary breakpoints of a command, by the frame that deletes them. *)

T == [i \in Nat \ {0} |-> IF i \in 1 .. Len(stack) THEN stack[i].tmp ELSE << >>]

GotoT(t)    == T'[1] = t /\ \A i \in Deeper : T'[i] = T[i]
CallT(t, u) == T'[1] = u /\ T'[2] = t /\ \A i \in Deeper : T'[i + 1] = T[i]
ReturnT     == \A i \in Nat \ {0} : T'[i] = T[i + 1]

LEMMA TmpPlaces ==
    ASSUME stack \in Seq(Frame), stack # << >>
    PROVE  /\ T[1] = stack[1].tmp
           /\ \A f \in Frame : Goto(f) => GotoT(f.tmp)
           /\ \A f, g \in Frame : Call(f, g) => CallT(f.tmp, g.tmp)
           /\ \A v : Return(v) => ReturnT
<1>1. Len(stack) \in Nat \ {0}
    OBVIOUS
<1>2. T[1] = stack[1].tmp
    BY <1>1 DEF T
<1>3. ASSUME NEW f \in Frame, Goto(f) PROVE GotoT(f.tmp)
    <2>1. /\ stack' \in Seq(Frame) /\ Len(stack') = Len(stack) /\ stack'[1] = f
          /\ \A i \in 2 .. Len(stack) : stack'[i] = stack[i]
        BY <1>3, GotoStack
    <2>2. T'[1] = f.tmp
        BY <1>1, <2>1 DEF T
    <2>3. ASSUME NEW i \in Deeper PROVE T'[i] = T[i]
        <3>1. i \in Nat \ {0} /\ (i \in 1 .. Len(stack) => i \in 2 .. Len(stack))
            BY DEF Deeper
        <3> QED  BY <2>1, <3>1 DEF T
    <2> QED  BY <2>2, <2>3 DEF GotoT
<1>4. ASSUME NEW f \in Frame, NEW g \in Frame, Call(f, g) PROVE CallT(f.tmp, g.tmp)
    <2>1. /\ stack' \in Seq(Frame) /\ Len(stack') = Len(stack) + 1 /\ stack'[1] = g /\ stack'[2] = f
          /\ \A i \in 2 .. Len(stack) : stack'[i + 1] = stack[i]
        BY <1>4, CallStack
    <2>2. T'[1] = g.tmp /\ T'[2] = f.tmp
        BY <1>1, <2>1 DEF T
    <2>3. ASSUME NEW i \in Deeper PROVE T'[i + 1] = T[i]
        <3>1. i \in Nat \ {0} /\ i + 1 \in Nat \ {0}
            BY DEF Deeper
        <3>2. i \in 1 .. Len(stack) <=> i + 1 \in 1 .. Len(stack')
            BY <1>1, <2>1 DEF Deeper
        <3>3. i \in 1 .. Len(stack) => i \in 2 .. Len(stack)
            BY DEF Deeper
        <3> QED  BY <2>1, <3>1, <3>2, <3>3 DEF T
    <2> QED  BY <2>2, <2>3 DEF CallT
<1>5. ASSUME NEW v, Return(v) PROVE ReturnT
    <2>1. /\ stack' \in Seq(Frame) /\ Len(stack') = Len(stack) - 1
          /\ \A i \in 1 .. Len(stack) - 1 : stack'[i] = stack[i + 1]
        BY <1>5, ReturnStack
    <2>2. ASSUME NEW i \in Nat \ {0} PROVE T'[i] = T[i + 1]
        <3>1. i + 1 \in Nat \ {0}
            OBVIOUS
        <3>2. i \in 1 .. Len(stack') <=> i + 1 \in 1 .. Len(stack)
            BY <1>1, <2>1
        <3>3. i \in 1 .. Len(stack') => i \in 1 .. Len(stack) - 1
            BY <2>1
        <3> QED  BY <2>1, <3>1, <3>2, <3>3 DEF T
    <2> QED  BY <2>2 DEF ReturnT
<1> QED  BY <1>2, <1>3, <1>4, <1>5

\* Only the commands that delete a breakpoint remember one.
TmpShape ==
    \A i \in Nat \ {0} :
        \/ T[i] = << >>
        \/ P[i] \in {"until_loop", "dcu_ret"} /\ \E a \in Prog : T[i] = <<a>>

Tmp(a) == \E i \in Nat \ {0} : T[i] = <<a>>

\* The list holds the user's breakpoints and the temporary ones, each once.
Listed ==
    /\ \A i, j \in 1 .. Len(bps) : bps[i].addr = bps[j].addr => i = j
    /\ \A a \in Prog : (\E i \in 1 .. Len(bps) : bps[i].addr = a) <=> (a \in mine \/ Tmp(a))
    /\ \A a \in mine : ~Tmp(a)

MineInv ==
    /\ TmpShape /\ Listed
    /\ P[1] = "dcu" => stack[1].to \in use.dcus

\* Below the last frame there is nothing.
LEMMA BelowPrompt ==
    ASSUME stack \in Seq(Frame), NEW i \in Nat \ {0}, P[i] = "prompt"
    PROVE  \A j \in Nat \ {0} : j >= i => P[j] = "prompt" /\ T[j] = << >>
<1>1. i > Len(stack) /\ Len(stack) \in Nat
    BY Place
<1>2. ASSUME NEW j \in Nat \ {0}, j >= i PROVE P[j] = "prompt" /\ T[j] = << >>
    <2>1. j \notin 1 .. Len(stack)
        BY <1>1, <1>2
    <2> QED  BY <2>1 DEF P, T
<1> QED  BY <1>2

LEMMA PlainGoto ==
    ASSUME TmpShape, T[1] = << >>, NEW x, GotoP(x), GotoT(<< >>)
    PROVE  TmpShape' /\ \A a : Tmp(a)' <=> Tmp(a)
<1>1. \A i \in Nat \ {0} : T'[i] = T[i] /\ (T[i] # << >> => P'[i] = P[i])
    <2> SUFFICES ASSUME NEW i \in Nat \ {0} PROVE T'[i] = T[i] /\ (T[i] # << >> => P'[i] = P[i])
        OBVIOUS
    <2>1. CASE i = 1
        BY <2>1 DEF GotoT
    <2>2. CASE i # 1
        <3>1. i \in Deeper
            BY <2>2 DEF Deeper
        <3> QED  BY <3>1 DEF GotoT, GotoP
    <2> QED  BY <2>1, <2>2
<1>2. TmpShape'
    BY <1>1 DEF TmpShape
<1> QED  BY <1>1, <1>2 DEF Tmp

LEMMA PlainCall ==
    ASSUME TmpShape, T[1] = << >>, NEW x, NEW y, CallP(x, y), CallT(<< >>, << >>)
    PROVE  TmpShape' /\ \A a : Tmp(a)' <=> Tmp(a)
<1>1. T'[1] = << >> /\ T'[2] = << >>
    BY DEF CallT
<1>2. ASSUME NEW i \in Nat \ {0}, T'[i] # << >>
      PROVE  i - 1 \in Nat \ {0} /\ T'[i] = T[i - 1] /\ P'[i] = P[i - 1]
    <2>1. i \notin {1, 2}
        BY <1>1, <1>2
    <2>2. PICK j \in Nat : j = i - 1
        OBVIOUS
    <2>3. j \in Deeper /\ i = j + 1
        BY <2>1, <2>2 DEF Deeper
    <2> QED  BY <2>2, <2>3 DEF CallT, CallP, Deeper
<1>3. ASSUME NEW i \in Nat \ {0}, T[i] # << >>
      PROVE  i + 1 \in Nat \ {0} /\ T'[i + 1] = T[i]
    <2>1. i \in Deeper
        BY <1>3 DEF Deeper
    <2> QED  BY <2>1 DEF CallT
<1>4. TmpShape'
    <2> SUFFICES ASSUME NEW i \in Nat \ {0}, T'[i] # << >>
                 PROVE  P'[i] \in {"until_loop", "dcu_ret"} /\ \E a \in Prog : T'[i] = <<a>>
        BY DEF TmpShape
    <2>1. PICK j \in Nat \ {0} : T'[i] = T[j] /\ P'[i] = P[j]
        BY <1>2
    <2> QED  BY <2>1 DEF TmpShape
<1>5. ASSUME NEW a PROVE Tmp(a)' <=> Tmp(a)
    <2>1. <<a>> # << >>
        OBVIOUS
    <2>2. Tmp(a)' => Tmp(a)
        BY <1>2, <2>1 DEF Tmp
    <2>3. Tmp(a) => Tmp(a)'
        BY <1>3, <2>1 DEF Tmp
    <2> QED  BY <2>2, <2>3
<1> QED  BY <1>4, <1>5

LEMMA PlainReturn ==
    ASSUME TmpShape, ReturnP, ReturnT
    PROVE  /\ TmpShape'
           /\ T[1] = << >> => \A a : Tmp(a)' <=> Tmp(a)
<1>1. \A i \in Nat \ {0} : i + 1 \in Nat \ {0} /\ T'[i] = T[i + 1] /\ P'[i] = P[i + 1]
    BY DEF ReturnT, ReturnP
<1>2. TmpShape'
    <2> SUFFICES ASSUME NEW i \in Nat \ {0}, T'[i] # << >>
                 PROVE  P'[i] \in {"until_loop", "dcu_ret"} /\ \E a \in Prog : T'[i] = <<a>>
        BY DEF TmpShape
    <2>1. PICK j \in Nat \ {0} : T'[i] = T[j] /\ P'[i] = P[j]
        BY <1>1
    <2> QED  BY <2>1 DEF TmpShape
<1>3. ASSUME T[1] = << >>, NEW a PROVE Tmp(a)' <=> Tmp(a)
    <2>1. <<a>> # << >>
        OBVIOUS
    <2>2. Tmp(a)' => Tmp(a)
        BY <1>1 DEF Tmp
    <2>3. ASSUME Tmp(a) PROVE Tmp(a)'
        <3>1. PICK i \in Nat \ {0} : T[i] = <<a>>
            BY <2>3 DEF Tmp
        <3>2. i # 1
            BY <1>3, <2>1, <3>1
        <3>3. PICK j \in Nat \ {0} : i = j + 1
            BY <3>2
        <3> QED  BY <1>1, <3>1, <3>3 DEF Tmp
    <2> QED  BY <2>2, <2>3
<1> QED  BY <1>2, <1>3

\* The steps of r_debug_step, r_debug_recoil and r_debug_continue_kill.
LEMMA PlainMoves ==
    ASSUME Hardware, TmpShape,
           \/ r_debug_step \/ StepReturn \/ StepHardEnter \/ StepHardRecoiled \/ StepHardGo
           \/ StepHardWait \/ RecoilEnter \/ RecoilStepped
           \/ ContRepeat \/ ContGo \/ ContWait \/ ContSkip
    PROVE  TmpShape' /\ \A a : Tmp(a)' <=> Tmp(a)
<1>1. stack \in Seq(Frame)
    BY HwStack
<1>2. stack # << >> /\ P[1] \notin {"until_loop", "dcu_ret"}
    <2>1. CASE At("step") \/ At("step_ret") \/ At("hard") \/ At("hard_recoiled")
        BY <1>1, <2>1, AtPlace
    <2>2. CASE At("hard_go") \/ At("hard_wait") \/ At("recoil") \/ At("recoil_stepped")
        BY <1>1, <2>2, AtPlace
    <2>3. CASE At("cont") \/ At("cont_recoiled") \/ At("cont_wait") \/ At("cont_skip")
        BY <1>1, <2>3, AtPlace
    <2> QED  BY <2>1, <2>2, <2>3, Zenon DEF r_debug_step, StepReturn, StepHardEnter,
        StepHardRecoiled, StepHardGo, StepHardWait, RecoilEnter, RecoilStepped,
        ContRepeat, ContGo, ContWait, ContSkip
<1>3. T[1] = << >>
    BY <1>2 DEF TmpShape
<1>4. stack[1].tmp = << >>
    BY <1>1, <1>2, <1>3, TmpPlaces
<1>5. ASSUME NEW f \in Frame, f.tmp = << >>, Goto(f)
      PROVE  TmpShape' /\ \A a : Tmp(a)' <=> Tmp(a)
    <2>1. GotoP(f.at)
        BY <1>1, <1>2, <1>5, GotoPlaces
    <2>2. GotoT(<< >>)
        BY <1>1, <1>2, <1>5, TmpPlaces
    <2> QED  BY <1>3, <2>1, <2>2, PlainGoto
<1>6. ASSUME NEW f \in Frame, NEW g \in Frame, f.tmp = << >>, g.tmp = << >>, Call(f, g)
      PROVE  TmpShape' /\ \A a : Tmp(a)' <=> Tmp(a)
    <2>1. CallP(f.at, g.at)
        BY <1>1, <1>2, <1>6, CallPlaces
    <2>2. CallT(<< >>, << >>)
        BY <1>1, <1>2, <1>6, TmpPlaces
    <2> QED  BY <1>3, <2>1, <2>2, PlainCall
<1>7. ASSUME NEW v, Return(v)
      PROVE  TmpShape' /\ \A a : Tmp(a)' <=> Tmp(a)
    <2>1. ReturnP /\ ReturnT
        BY <1>1, <1>2, <1>7, ReturnPlaces, TmpPlaces
    <2> QED  BY <1>3, <2>1, PlainReturn
<1>8. \A at \in Places : /\ Fr(at) \in Frame /\ Fr(at).tmp = << >>
                         /\ Resume(at) \in Frame /\ Resume(at).tmp = << >>
    BY <1>1, <1>2, <1>4, FrType, ResumeType
<1>9. \A mode \in {"STEP", "CONTINUE"} :
         /\ [Fr("recoil") EXCEPT !.mode = mode] \in Frame
         /\ [Fr("recoil") EXCEPT !.mode = mode].tmp = << >>
    BY RecoilFrame
<1>10. CASE r_debug_step \/ StepReturn
    BY <1>6, <1>7, <1>8, <1>10, PlaceNames DEF r_debug_step, StepReturn, Hardware
<1>11. CASE StepHardEnter
    BY <1>5, <1>6, <1>7, <1>8, <1>9, <1>11, PlaceNames DEF StepHardEnter
<1>12. CASE StepHardRecoiled
    BY <1>5, <1>7, <1>8, <1>12, PlaceNames DEF StepHardRecoiled
<1>13. CASE StepHardGo \/ StepHardWait
    BY <1>5, <1>7, <1>8, <1>13, PlaceNames DEF StepHardGo, StepHardWait
<1>14. CASE RecoilEnter \/ RecoilStepped
    BY <1>6, <1>7, <1>8, <1>14, PlaceNames DEF RecoilEnter, RecoilStepped
<1>15. CASE ContRepeat \/ ContGo
    BY <1>5, <1>6, <1>7, <1>8, <1>9, <1>15, PlaceNames DEF ContRepeat, ContGo
<1>16. CASE ContWait
    <2> DEFINE c == [Resume("cont") EXCEPT !.sig = TRUE]
               k == [Resume("cont_skip") EXCEPT !.sig = FALSE]
    <2>1. c \in Frame /\ c.tmp = << >> /\ k \in Frame /\ k.tmp = << >>
        <3>1. /\ Resume("cont") \in Frame /\ Resume("cont").tmp = << >>
              /\ Resume("cont_skip") \in Frame /\ Resume("cont_skip").tmp = << >>
            BY <1>8, PlaceNames
        <3> QED  BY <3>1 DEF Frame
    <2> HIDE DEF c, k
    <2>2. Policy \in {"stop", "cont", "skip"}
        BY UseType DEF Policy, Hardware, TypeInv, RestOK
    <2>3. \/ \E v : Return(v)
          \/ Call(Resume("cont"), Fr("step"))
          \/ Goto(Resume("cont")) \/ Goto(c) \/ Goto(k)
        BY <1>16, <2>2 DEF ContWait, Again, c, k
    <2> QED  BY <1>5, <1>6, <1>7, <1>8, <2>1, <2>3, PlaceNames
<1>17. CASE ContSkip
    BY <1>5, <1>7, <1>8, <1>17, PlaceNames DEF ContSkip
<1> QED  BY <1>10, <1>11, <1>12, <1>13, <1>14, <1>15, <1>16, <1>17

\* Listed after each kind of change of the list.
LEMMA ListedSame ==
    ASSUME Listed, Len(bps') = Len(bps), \A i \in 1 .. Len(bps) : bps'[i].addr = bps[i].addr,
           mine' = mine, \A a : Tmp(a)' <=> Tmp(a)
    PROVE  Listed'
BY DEF Listed

LEMMA ListedAdd ==
    ASSUME Listed, bps \in Bps, mem \in Mems, NEW a \in Prog, NEW kind \in {"break", "trace", "cond"},
           NEW sw \in BOOLEAN, bps' = WithBp(bps, a, kind, sw),
           \A x \in Prog : (x \in mine \/ Tmp(x))' <=> (x \in mine \/ Tmp(x) \/ x = a),
           \A x \in mine' : ~Tmp(x)'
    PROVE  Listed'
<1>2. /\ (\E i \in 1 .. Len(bps) : bps[i].addr = a) => bps' = bps
      /\ (\A i \in 1 .. Len(bps) : bps[i].addr # a) =>
            /\ Len(bps') = Len(bps) + 1 /\ \A i \in 1 .. Len(bps) : bps'[i] = bps[i]
            /\ bps'[Len(bps) + 1].addr = a
    BY WithBpItems
<1>3. Len(bps) \in Nat
    BY BpsSeq
<1>4. \A i, j \in 1 .. Len(bps') : bps'[i].addr = bps'[j].addr => i = j
    BY <1>2, <1>3 DEF Listed
<1>5. \A x \in Prog : (\E i \in 1 .. Len(bps') : bps'[i].addr = x)
                         <=> ((\E i \in 1 .. Len(bps) : bps[i].addr = x) \/ x = a)
    <2>1. CASE \E i \in 1 .. Len(bps) : bps[i].addr = a
        BY <1>2, <2>1
    <2>2. CASE \A i \in 1 .. Len(bps) : bps[i].addr # a
        <3>1. \A i \in 1 .. Len(bps') : i \in 1 .. Len(bps) \/ i = Len(bps) + 1
            BY <1>2, <1>3, <2>2
        <3>2. Len(bps) + 1 \in 1 .. Len(bps') /\ \A i \in 1 .. Len(bps) : i \in 1 .. Len(bps')
            BY <1>2, <1>3, <2>2
        <3> QED  BY <1>2, <2>2, <3>1, <3>2
    <2> QED  BY <2>1, <2>2
<1>6. \A x \in Prog : (\E i \in 1 .. Len(bps') : bps'[i].addr = x) <=> (x \in mine' \/ Tmp(x)')
    BY <1>5 DEF Listed
<1> QED  BY <1>4, <1>6 DEF Listed

LEMMA ListedDel ==
    ASSUME Listed, bps \in Bps, NEW a \in Prog, bps' = WithoutBp(bps, a),
           \A x \in Prog : (x \in mine \/ Tmp(x))' <=> ((x \in mine \/ Tmp(x)) /\ x # a),
           \A x \in mine' : ~Tmp(x)'
    PROVE  Listed'
<1>1. PICK t : t = WithoutBp(bps, a)
    OBVIOUS
<1>2. \A i, j \in 1 .. Len(bps) : bps[i].addr = bps[j].addr => i = j
    BY DEF Listed
<1>3. /\ \A j \in 1 .. Len(t) : \E i \in 1 .. Len(bps) : t[j] = bps[i]
      /\ \A i, j \in 1 .. Len(t) : t[i].addr = t[j].addr => i = j
      /\ \A i \in 1 .. Len(t) : t[i].addr # a
      /\ \A i \in 1 .. Len(bps) : bps[i].addr # a => \E j \in 1 .. Len(t) : t[j] = bps[i]
    BY <1>1, <1>2, WithoutBpItems
<1>4. \A x \in Prog : (\E i \in 1 .. Len(t) : t[i].addr = x)
                         <=> ((\E i \in 1 .. Len(bps) : bps[i].addr = x) /\ x # a)
    BY <1>3
<1>5. \A x \in Prog : (\E i \in 1 .. Len(t) : t[i].addr = x) <=> (x \in mine' \/ Tmp(x)')
    BY <1>4 DEF Listed
<1>6. t = bps'
    BY <1>1
<1>7. /\ \A i, j \in 1 .. Len(bps') : bps'[i].addr = bps'[j].addr => i = j
      /\ \A x \in Prog : (\E i \in 1 .. Len(bps') : bps'[i].addr = x) <=> (x \in mine' \/ Tmp(x)')
    BY <1>3, <1>5, <1>6
<1> QED  BY <1>7 DEF Listed

\* The only temporary breakpoint is that of the last frame.
LEMMA LastTmp ==
    ASSUME stack \in Seq(Frame), P[2] = "prompt"
    PROVE  /\ \A j \in Deeper : P[j] = "prompt" /\ T[j] = << >>
           /\ \A a : Tmp(a) <=> T[1] = <<a>>
<1>1. \A j \in Deeper : j \in Nat \ {0} /\ j >= 2
    BY DEF Deeper
<1>2. \A j \in Deeper : P[j] = "prompt" /\ T[j] = << >>
    BY <1>1, BelowPrompt
<1>3. \A a : <<a>> # << >>
    OBVIOUS
<1>4. \A i \in Nat \ {0} : i = 1 \/ i \in Deeper
    BY DEF Deeper
<1>5. ASSUME NEW a PROVE Tmp(a) <=> T[1] = <<a>>
    <2>1. T[1] = <<a>> => Tmp(a)
        BY DEF Tmp
    <2>2. ASSUME NEW i \in Nat \ {0}, T[i] = <<a>> PROVE T[1] = <<a>>
        BY <1>2, <1>3, <1>4, <2>2
    <2> QED  BY <2>1, <2>2 DEF Tmp
<1> QED  BY <1>2, <1>5

LEMMA NoTmp ==
    ASSUME stack \in Seq(Frame), P[1] = "prompt"
    PROVE  (\A i \in Nat \ {0} : T[i] = << >>) /\ \A a : ~Tmp(a)
<1>1. \A i \in Nat \ {0} : i >= 1
    OBVIOUS
<1>2. \A i \in Nat \ {0} : T[i] = << >>
    BY <1>1, BelowPrompt
<1>3. \A a : <<a>> # << >>
    OBVIOUS
<1> QED  BY <1>2, <1>3 DEF Tmp

\* The return from a command deletes the temporary breakpoint it has set.
LEMMA CommandDeletes ==
    ASSUME Hardware, MineInv, stack # << >>, P[2] = "prompt", ReturnP, ReturnT,
           bps' = WithoutTmp(bps, stack[1].tmp), mine' = mine
    PROVE  TmpShape' /\ Listed'
<1>1. stack \in Seq(Frame) /\ bps \in Bps /\ TmpShape /\ Listed /\ mine \subseteq Prog
    BY HwStack, ProgAssumption DEF Hardware, TypeInv, RestOK, MineInv
<1>2. T[1] = stack[1].tmp /\ stack[1].tmp \in Seq(Addr)
    <2>1. stack[1] \in Frame
        BY <1>1
    <2> QED  BY <1>1, <2>1, TmpPlaces DEF Frame
<1>3. TmpShape'
    BY <1>1, PlainReturn
<1>4. \A a : ~Tmp(a)'
    <2>1. \A i \in Nat \ {0} : i + 1 \in Deeper /\ T'[i] = T[i + 1]
        BY DEF Deeper, ReturnT
    <2>2. \A i \in Nat \ {0} : T'[i] = << >>
        BY <1>1, <2>1, LastTmp
    <2>3. \A a : <<a>> # << >>
        OBVIOUS
    <2> QED  BY <2>2, <2>3 DEF Tmp
<1>5. \A a : Tmp(a) <=> T[1] = <<a>>
    BY <1>1, LastTmp
<1>6. CASE T[1] = << >>
    <2>1. bps' = bps
        BY <1>1, <1>2, <1>6, WithoutTmpOne
    <2>2. \A a : <<a>> # << >>
        OBVIOUS
    <2>3. \A a : Tmp(a)' <=> Tmp(a)
        BY <1>4, <1>5, <1>6, <2>2
    <2> QED  BY <1>1, <1>3, <2>1, <2>3, ListedSame
<1>7. ASSUME NEW a \in Prog, T[1] = <<a>> PROVE Listed'
    <2>1. bps' = WithoutBp(bps, a)
        <3>1. a \in Addr /\ stack[1].tmp = <<a>>
            BY <1>2, <1>7, ProgAddr
        <3>2. WithoutTmp(bps, stack[1].tmp) = WithoutBp(bps, a)
            BY <1>1, <1>2, <3>1, WithoutTmpOne
        <3> QED  BY <3>2
    <2>2. \A x : <<x>> = <<a>> <=> x = a
        OBVIOUS
    <2>3. \A x : Tmp(x) <=> x = a
        BY <1>5, <1>7, <2>2
    <2>4. a \notin mine
        BY <1>1, <2>3 DEF Listed
    <2>5. \A x \in Prog : (x \in mine' \/ Tmp(x)') <=> ((x \in mine \/ Tmp(x)) /\ x # a)
        BY <1>4, <2>3, <2>4
    <2>6. \A x \in mine' : ~Tmp(x)'
        BY <1>4
    <2> QED  BY <1>1, <2>1, <2>5, <2>6, ListedDel
<1> QED  BY <1>1, <1>3, <1>6, <1>7 DEF TmpShape

\* Only the command itself is at the beginning of r_debug_continue_until and of
\* dcu, and only a stop by a signal leads to the skip of an instruction.
LEMMA Entries ==
    ASSUME Running, Debugger
    PROVE  P'[1] \notin {"until", "dcu"} /\ (P'[1] = "cont_skip" => ContWait)
<1>1. Hardware /\ Modes /\ (P[1] # "prompt" => StandsOn(P[1], P[2])) /\ "ERROR" \notin use.events
    BY RunTop DEF Running
<1>2. ReturnP /\ P[1] # "prompt" => P'[1] \notin {"until", "dcu", "cont_skip"}
    BY <1>1 DEF ReturnP, StandsOn
<1>3. CASE r_debug_step \/ StepReturn
    BY <1>1, <1>2, <1>3, StepMoves, StepReturnMoves DEF CallP
<1>4. CASE StepHardEnter \/ StepHardRecoiled
    BY <1>1, <1>2, <1>4, HardEnterMoves, HardRecoiledMoves DEF CallP, GotoP
<1>5. CASE StepHardGo \/ StepHardWait
    BY <1>1, <1>2, <1>5, HardGoMoves, HardWaitMoves DEF GotoP
<1>6. CASE RecoilEnter \/ RecoilStepped
    BY <1>1, <1>2, <1>6, RecoilMoves, RecoilSteppedMoves DEF Modes, CallP
<1>7. CASE ContRepeat \/ ContGo
    BY <1>1, <1>2, <1>7, ContMoves, ContGoMoves DEF CallP, GotoP
<1>8. CASE ContWait \/ ContSkip
    BY <1>1, <1>2, <1>8, ContWaitMoves, ContSkipMoves DEF CallP, GotoP
<1>9. CASE UntilEnter \/ UntilLoop
    BY <1>1, <1>2, <1>9, UntilMoves, UntilLoopMoves DEF CallP, GotoP
<1>10. CASE DcuEnter \/ DcuReturn
    BY <1>1, <1>2, <1>10, DcuMoves, DcuReturnMoves DEF CallP
<1> QED  BY <1>3, <1>4, <1>5, <1>6, <1>7, <1>8, <1>9, <1>10, SoftNever DEF Debugger

\* Addresses of dcu are not addresses of the user's breakpoints: dcu deletes
\* the breakpoint at its address whoever has set it.
DcuApart == \A u \in Uses : u.dcus \cap BpAddrs = {}

LEMMA PlainMine ==
    ASSUME Running, MineInv,
           \/ r_debug_step \/ StepReturn \/ StepHardEnter \/ StepHardRecoiled \/ StepHardGo
           \/ StepHardWait \/ RecoilEnter \/ RecoilStepped
           \/ ContRepeat \/ ContGo \/ ContWait \/ ContSkip
    PROVE  MineInv'
<1>1. TmpShape' /\ \A a : Tmp(a)' <=> Tmp(a)
    BY PlainMoves, RunTop DEF MineInv
<1>2. bps' = bps /\ mine' = mine
    <2>1. CASE r_debug_step \/ StepReturn \/ StepHardEnter \/ StepHardRecoiled \/ StepHardGo
        BY <2>1 DEF r_debug_step, StepReturn, StepHardEnter, StepHardRecoiled, StepHardGo, Quiet, history
    <2>2. CASE StepHardWait \/ RecoilEnter \/ RecoilStepped
        BY <2>2 DEF StepHardWait, RecoilEnter, RecoilStepped, history
    <2>3. CASE ContRepeat \/ ContGo \/ ContWait \/ ContSkip
        BY <2>3 DEF ContRepeat, ContGo, ContWait, ContSkip, Quiet, history
    <2> QED  BY <2>1, <2>2, <2>3
<1>3. Listed'
    BY <1>1, <1>2, ListedSame DEF MineInv
<1>4. Debugger
    BY DEF Debugger
<1> QED  BY <1>1, <1>3, <1>4, Entries DEF MineInv

LEMMA UntilMine ==
    ASSUME Running, MineInv, UntilEnter
    PROVE  MineInv'
<1>1. /\ Hardware /\ stack \in Seq(Frame) /\ bps \in Bps /\ mem \in Mems /\ TmpShape /\ Listed
      /\ mine \subseteq Prog
    BY RunTop, HwStack, ProgAssumption DEF Hardware, TypeInv, InferiorOK, RestOK, MineInv
<1>2. P[1] = "until" /\ P[2] = "prompt" /\ stack # << >> /\ Head(stack) = stack[1]
    BY <1>1, UntilMoves, RunTop, AtPlace DEF UntilEnter, StandsOn
<1>3. stack[1] \in Frame /\ stack[1].to \in Prog
    <2>1. 1 \in 1 .. Len(stack) /\ stack[1].at = "until"
        BY <1>1, <1>2, AtTop DEF UntilEnter
    <2> QED  BY <1>1, <1>2, <2>1 DEF Hardware, TypeInv, ControlOK
<1>4. T[1] = << >> /\ stack[1].tmp = << >>
    BY <1>1, <1>2, TmpPlaces DEF TmpShape
<1>5. \A j \in Deeper : P[j] = "prompt" /\ T[j] = << >>
    BY <1>1, <1>2, LastTmp
<1>6. \A a : <<a>> # << >>
    OBVIOUS
<1>7. \A a : ~Tmp(a)
    BY <1>1, <1>2, <1>4, <1>6, LastTmp
<1>8. mine' = mine
    BY DEF UntilEnter, history
<1>9. CASE Dead
    <2>1. Return(FALSE) /\ bps' = bps
        BY <1>9 DEF UntilEnter
    <2>2. TmpShape' /\ \A a : Tmp(a)' <=> Tmp(a)
        BY <1>1, <1>2, <1>4, <2>1, ReturnPlaces, TmpPlaces, PlainReturn
    <2>3. Listed'
        BY <1>1, <1>8, <2>1, <2>2, ListedSame
    <2> QED  BY <2>2, <2>3, Entries DEF MineInv, Debugger
<1>10. CASE ~Dead
    <2> DEFINE to == stack[1].to
               has == r_bp_get_in(bps, to, TRUE) # NoPos
    <2>1. has <=> to \in mine
        BY <1>1, <1>3, <1>7, Added DEF Listed
    <2>2. PICK t : t = IF to \in mine THEN << >> ELSE <<to>>
        OBVIOUS
    <2>3. t \in Seq(Addr)
        <3>1. to \in Addr
            BY <1>3 DEF Frame
        <3> QED  BY <2>2, <3>1
    <2>4. PICK g : g = [Resume("until_loop") EXCEPT !.tmp = t]
        OBVIOUS
    <2>5. g \in Frame /\ g.at = "until_loop" /\ g.tmp = t
        <3>1. Resume("until_loop") \in Frame /\ Resume("until_loop").at = "until_loop"
            BY <1>1, <1>2, ResumeType, PlaceNames
        <3> QED  BY <2>3, <2>4, <3>1, TmpFrame
    <2>6. Goto(g) /\ bps' = WithBp(bps, to, "break", FALSE)
        <3>1. CASE has
            BY <1>2, <1>10, <2>1, <2>2, <2>4, <3>1 DEF UntilEnter
        <3>2. CASE ~has
            BY <1>2, <1>10, <2>1, <2>2, <2>4, <3>2 DEF UntilEnter
        <3> QED  BY <3>1, <3>2
    <2>7. GotoP("until_loop") /\ GotoT(t)
        BY <1>1, <1>2, <2>5, <2>6, GotoPlaces, TmpPlaces
    <2> HIDE DEF to, has
    <2>8. to \in Prog
        BY <1>3 DEF to
    <2>9. T'[1] = t /\ P'[1] = "until_loop" /\ \A j \in Deeper : T'[j] = << >>
        BY <1>5, <2>7 DEF GotoP, GotoT
    <2>10. \A i \in Nat \ {0} : i = 1 \/ i \in Deeper
        BY DEF Deeper
    <2>11. TmpShape'
        BY <2>2, <2>8, <2>9, <2>10 DEF TmpShape
    <2>12. \A a : Tmp(a)' <=> t = <<a>>
        <3> SUFFICES ASSUME NEW a PROVE Tmp(a)' <=> t = <<a>>
            OBVIOUS
        <3>1. t = <<a>> => Tmp(a)'
            BY <2>9 DEF Tmp
        <3>2. ASSUME NEW i \in Nat \ {0}, T'[i] = <<a>> PROVE t = <<a>>
            BY <1>6, <2>9, <2>10, <3>2
        <3> QED  BY <3>1, <3>2 DEF Tmp
    <2>13. \A x : <<x>> = <<to>> <=> x = to
        OBVIOUS
    <2>14. \A x : Tmp(x)' <=> x = to /\ to \notin mine
        BY <1>6, <2>2, <2>12, <2>13
    <2>15. \A x \in Prog : (x \in mine' \/ Tmp(x)') <=> (x \in mine \/ Tmp(x) \/ x = to)
        BY <1>7, <1>8, <2>14
    <2>16. \A x \in mine' : ~Tmp(x)'
        BY <1>8, <2>14
    <2>17. Listed'
        BY <1>1, <2>6, <2>8, <2>15, <2>16, ListedAdd
    <2> QED  BY <2>9, <2>11, <2>17 DEF MineInv
<1> QED  BY <1>9, <1>10

LEMMA UntilLoopMine ==
    ASSUME Running, MineInv, UntilLoop
    PROVE  MineInv'
<1>1. /\ Hardware /\ stack \in Seq(Frame) /\ TmpShape /\ Listed
    BY RunTop, HwStack DEF MineInv
<1>2. P[1] = "until_loop" /\ P[2] = "prompt" /\ stack # << >> /\ Head(stack) = stack[1]
    BY <1>1, UntilLoopMoves, RunTop, AtPlace DEF UntilLoop, StandsOn
<1>3. stack[1] \in Frame /\ T[1] = stack[1].tmp /\ stack[1].at = "until_loop"
    BY <1>1, <1>2, TmpPlaces, AtTop DEF UntilLoop
<1>4. mine' = mine
    BY DEF UntilLoop, history
<1>5. CASE bps' = WithoutTmp(bps, stack[1].tmp) /\ Return(TRUE)
    <2>1. TmpShape' /\ Listed'
        BY <1>1, <1>2, <1>4, <1>5, ReturnPlaces, TmpPlaces, CommandDeletes
    <2> QED  BY <2>1, Entries DEF MineInv, Debugger
<1>6. CASE Call(stack[1], Fr("cont")) /\ bps' = bps
    <2>1. Fr("cont") \in Frame /\ Fr("cont").at = "cont" /\ Fr("cont").tmp = << >>
        BY FrType, PlaceNames
    <2>2. CallP("until_loop", "cont") /\ CallT(T[1], << >>)
        BY <1>1, <1>2, <1>3, <1>6, <2>1, CallPlaces, TmpPlaces
    <2>3. \A j \in Nat \ {0} : T'[j + 1] = T[j] /\ (T[j] # << >> => P'[j + 1] = P[j])
        <3> SUFFICES ASSUME NEW j \in Nat \ {0}
                     PROVE  T'[j + 1] = T[j] /\ (T[j] # << >> => P'[j + 1] = P[j])
            OBVIOUS
        <3>1. CASE j = 1
            BY <1>2, <2>2, <3>1 DEF CallP, CallT
        <3>2. CASE j # 1
            <4>1. j \in Deeper
                BY <3>2 DEF Deeper
            <4> QED  BY <2>2, <4>1 DEF CallP, CallT
        <3> QED  BY <3>1, <3>2
    <2>4. T'[1] = << >>
        BY <2>2 DEF CallT
    <2>5. ASSUME NEW i \in Nat \ {0}
          PROVE  T'[i] = << >> \/ \E j \in Nat \ {0} : T'[i] = T[j] /\ P'[i] = P[j]
        <3>1. CASE i = 1
            BY <2>4, <3>1
        <3>2. CASE i # 1
            <4>1. PICK j \in Nat \ {0} : i = j + 1
                BY <3>2
            <4> QED  BY <2>3, <4>1
        <3> QED  BY <3>1, <3>2
    <2>6. TmpShape'
        BY <1>1, <2>5 DEF TmpShape
    <2>7. ASSUME NEW a PROVE Tmp(a)' <=> Tmp(a)
        <3>1. <<a>> # << >>
            OBVIOUS
        <3>2. Tmp(a)' => Tmp(a)
            BY <2>5, <3>1 DEF Tmp
        <3>3. \A j \in Nat \ {0} : j + 1 \in Nat \ {0}
            OBVIOUS
        <3>4. Tmp(a) => Tmp(a)'
            BY <2>3, <3>3 DEF Tmp
        <3> QED  BY <3>2, <3>4
    <2>8. Listed'
        BY <1>1, <1>4, <1>6, <2>7, ListedSame
    <2> QED  BY <2>6, <2>8, Entries DEF MineInv, Debugger
<1> QED  BY <1>2, <1>5, <1>6 DEF UntilLoop

LEMMA DcuMine ==
    ASSUME Running, DcuApart, MineInv, DcuEnter \/ DcuReturn
    PROVE  MineInv'
<1>1. /\ Hardware /\ stack \in Seq(Frame) /\ bps \in Bps /\ mem \in Mems /\ TmpShape /\ Listed
      /\ mine \subseteq BpAddrs /\ use \in Uses
    BY RunTop, HwStack DEF Hardware, TypeInv, InferiorOK, RestOK, MineInv
<1>2. mine' = mine
    BY DEF DcuEnter, DcuReturn, history
<1>3. CASE DcuReturn
    <2>1. P[1] = "dcu_ret" /\ P[2] = "prompt" /\ stack # << >> /\ Head(stack) = stack[1]
        BY <1>1, <1>3, DcuReturnMoves, RunTop, AtPlace DEF DcuReturn, StandsOn
    <2>2. bps' = WithoutTmp(bps, stack[1].tmp) /\ Return(TRUE)
        BY <1>3, <2>1 DEF DcuReturn
    <2>3. TmpShape' /\ Listed'
        BY <1>1, <1>2, <2>1, <2>2, ReturnPlaces, TmpPlaces, CommandDeletes
    <2> QED  BY <1>3, <2>3, Entries DEF MineInv, Debugger
<1>4. CASE DcuEnter
    <2>1. P[1] = "dcu" /\ P[2] = "prompt" /\ stack # << >> /\ Head(stack) = stack[1]
        BY <1>1, <1>4, DcuMoves, RunTop, AtPlace DEF DcuEnter, StandsOn
    <2>2. PICK to : to = stack[1].to
        OBVIOUS
    <2>3. to \in Prog /\ to \in Addr /\ to \notin mine
        <3>1. to \in use.dcus
            BY <2>1, <2>2 DEF MineInv
        <3>2. use.dcus \subseteq Prog /\ use.dcus \cap BpAddrs = {}
            BY <1>1, UseType DEF DcuApart
        <3> QED  BY <1>1, <3>1, <3>2, ProgAddr
    <2>4. T[1] = << >> /\ \A j \in Deeper : T[j] = << >>
        BY <1>1, <2>1, LastTmp DEF TmpShape
    <2>5. \A a : <<a>> # << >>
        OBVIOUS
    <2>6. \A a : ~Tmp(a)
        BY <1>1, <2>1, <2>4, <2>5, LastTmp
    <2>7. PICK f : f = [Resume("dcu_ret") EXCEPT !.tmp = <<to>>]
        OBVIOUS
    <2>8. f \in Frame /\ f.at = "dcu_ret" /\ f.tmp = <<to>>
        <3>1. Resume("dcu_ret") \in Frame /\ Resume("dcu_ret").at = "dcu_ret"
            BY <1>1, <2>1, ResumeType, PlaceNames
        <3>2. <<to>> \in Seq(Addr)
            BY <2>3
        <3> QED  BY <2>7, <3>1, <3>2, TmpFrame
    <2>9. Fr("cont") \in Frame /\ Fr("cont").at = "cont" /\ Fr("cont").tmp = << >>
        BY FrType, PlaceNames
    <2>10. Call(f, Fr("cont")) /\ bps' = WithBp(bps, to, "break", FALSE)
        BY <1>4, <2>1, <2>2, <2>7 DEF DcuEnter
    <2>11. CallP("dcu_ret", "cont") /\ CallT(<<to>>, << >>)
        BY <1>1, <2>1, <2>8, <2>9, <2>10, CallPlaces, TmpPlaces
    <2>12. /\ T'[2] = <<to>> /\ P'[2] = "dcu_ret"
           /\ \A i \in Nat \ {0} : i # 2 => T'[i] = << >>
        <3>1. T'[1] = << >> /\ T'[2] = <<to>> /\ P'[2] = "dcu_ret"
            BY <2>11 DEF CallP, CallT
        <3>2. ASSUME NEW i \in Nat \ {0}, i # 2, i # 1 PROVE T'[i] = << >>
            <4>1. PICK j \in Deeper : i = j + 1
                <5>1. i - 1 \in Deeper /\ i = (i - 1) + 1
                    BY <3>2 DEF Deeper
                <5> QED  BY <5>1
            <4> QED  BY <2>4, <2>11, <4>1 DEF CallT
        <3> QED  BY <3>1, <3>2
    <2>13. TmpShape'
        BY <2>3, <2>12 DEF TmpShape
    <2>14. \A x : Tmp(x)' <=> x = to
        <3> SUFFICES ASSUME NEW x PROVE Tmp(x)' <=> x = to
            OBVIOUS
        <3>1. <<x>> = <<to>> <=> x = to
            OBVIOUS
        <3>2. 2 \in Nat \ {0}
            OBVIOUS
        <3>3. x = to => Tmp(x)'
            BY <2>12, <3>2 DEF Tmp
        <3>4. ASSUME NEW i \in Nat \ {0}, T'[i] = <<x>> PROVE x = to
            BY <2>5, <2>12, <3>1, <3>4
        <3> QED  BY <3>3, <3>4 DEF Tmp
    <2>15. \A x \in Prog : (x \in mine' \/ Tmp(x)') <=> (x \in mine \/ Tmp(x) \/ x = to)
        BY <1>2, <2>6, <2>14
    <2>16. \A x \in mine' : ~Tmp(x)'
        BY <1>2, <2>3, <2>14
    <2>17. Listed'
        BY <1>1, <2>3, <2>10, <2>15, <2>16, ListedAdd
    <2> QED  BY <1>4, <2>13, <2>17, Entries DEF MineInv, Debugger
<1> QED  BY <1>3, <1>4

LEMMA UserMine ==
    ASSUME Running, MineInv, User
    PROVE  MineInv'
<1>1. /\ Hardware /\ TypeInv /\ stack \in Seq(Frame) /\ bps \in Bps /\ mem \in Mems /\ TmpShape /\ Listed
      /\ use \in Uses /\ BpAddrs \subseteq Prog
    BY RunTop, HwStack, ProgAssumption DEF Hardware, TypeInv, InferiorOK, RestOK, MineInv
<1>2. P[1] = "prompt"
    BY <1>1, UserCases, CommandMoves, SettingMoves
<1>3. (\A i \in Nat \ {0} : T[i] = << >>) /\ \A a : ~Tmp(a)
    BY <1>1, <1>2, NoTmp
<1>4. CASE Commands
    <2>1. PICK f \in Frame : /\ Start(f) /\ f.tmp = << >>
                             /\ f.at = "dcu" => f.to \in use.dcus
        BY <1>1, <1>4, CommandFrame
    <2>2. bps' = bps /\ mine' = mine /\ use' = use
        BY <1>1, <1>4, CommandMoves
    <2>3. stack' = <<f>> /\ P'[1] = f.at
        BY <1>1, <2>1, StartMoves
    <2>4. Len(stack') = 1 /\ stack'[1] = f
        BY <2>3
    <2>5. \A i \in Nat \ {0} : T'[i] = << >>
        BY <2>1, <2>4 DEF T
    <2>6. \A a : <<a>> # << >>
        OBVIOUS
    <2>7. \A a : Tmp(a)' <=> Tmp(a)
        BY <1>3, <2>5, <2>6 DEF Tmp
    <2>8. TmpShape'
        BY <2>5 DEF TmpShape
    <2>9. Listed'
        BY <1>1, <2>2, <2>7, ListedSame
    <2>10. (P[1] = "dcu" => stack[1].to \in use.dcus)'
        BY <2>1, <2>2, <2>3, <2>4
    <2> QED  BY <2>8, <2>9, <2>10 DEF MineInv
<1>5. CASE Settings
    <2>1. UNCHANGED <<stack, use>> /\ P' = P
        BY <1>1, <1>5, SettingMoves
    <2>2. T' = T
        BY <2>1 DEF T
    <2>3. TmpShape' /\ (\A a : Tmp(a)' <=> Tmp(a)) /\ \A a : ~Tmp(a)'
        BY <1>1, <1>3, <2>1, <2>2 DEF TmpShape, Tmp
    <2>4. Listed'
        <3>1. CASE bps' = bps /\ mine' = mine
            BY <1>1, <2>3, <3>1, ListedSame
        <3>2. ASSUME NEW a \in BpAddrs, NEW kind \in use.kinds,
                     bps' = WithBp(bps, a, kind, FALSE) /\ mine' = mine \cup {a}
              PROVE  Listed'
            <4>1. a \in Prog /\ kind \in {"break", "trace", "cond"}
                BY <1>1, UseType
            <4>2. \A x \in Prog : (x \in mine' \/ Tmp(x)') <=> (x \in mine \/ Tmp(x) \/ x = a)
                BY <1>3, <2>3, <3>2
            <4>3. \A x \in mine' : ~Tmp(x)'
                BY <2>3
            <4> QED  BY <1>1, <3>2, <4>1, <4>2, <4>3, ListedAdd
        <3>3. ASSUME NEW a \in BpAddrs, bps' = WithoutBp(bps, a) /\ mine' = mine \ {a}
              PROVE  Listed'
            <4>1. a \in Prog
                BY <1>1
            <4>2. \A x \in Prog : (x \in mine' \/ Tmp(x)') <=> ((x \in mine \/ Tmp(x)) /\ x # a)
                BY <1>3, <2>3, <3>3
            <4>3. \A x \in mine' : ~Tmp(x)'
                BY <2>3
            <4> QED  BY <1>1, <3>3, <4>1, <4>2, <4>3, ListedDel
        <3>4. CASE /\ mine' = mine /\ Len(bps') = Len(bps)
                   /\ \A j \in 1 .. Len(bps) : bps'[j].addr = bps[j].addr
            BY <1>1, <2>3, <3>4, ListedSame
        <3> QED  BY <1>1, <1>5, <3>1, <3>2, <3>3, <3>4, SettingList
    <2> QED  BY <1>2, <2>1, <2>3, <2>4 DEF MineInv
<1> QED  BY <1>4, <1>5, UserCases

LEMMA MineAlways ==
    ASSUME HardwareUses, DcuApart
    PROVE  Spec => [](TypeInv /\ RunInv /\ MineInv)
<1>1. Init => MineInv
    <2> SUFFICES ASSUME Init PROVE MineInv
        OBVIOUS
    <2>1. stack = << >> /\ bps = << >> /\ mine = {}
        BY DEF Init
    <2>2. P[1] = "prompt" /\ \A i \in Nat \ {0} : T[i] = << >>
        BY <2>1 DEF P, T
    <2>3. \A a : <<a>> # << >>
        OBVIOUS
    <2>4. \A a : ~Tmp(a)
        BY <2>2, <2>3 DEF Tmp
    <2>5. Len(bps) = 0
        BY <2>1
    <2>6. TmpShape /\ Listed
        BY <2>1, <2>2, <2>4, <2>5 DEF TmpShape, Listed
    <2> QED  BY <2>2, <2>6 DEF MineInv
<1>2. TypeInv /\ RunInv /\ MineInv /\ [Next]_vars => MineInv'
    <2> SUFFICES ASSUME TypeInv, RunInv, MineInv, [Next]_vars PROVE MineInv'
        OBVIOUS
    <2>1. Running
        BY HardwareUse DEF Running
    <2>2. CASE Inferior \/ UNCHANGED vars
        <3>1. UNCHANGED <<stack, bps, mine, use>>
            BY <2>2 DEF Inferior, Exec, ExecTrap, Interrupt, Die, vars, control, config, history
        <3>2. P' = P /\ T' = T
            BY <3>1, SamePlaces DEF T
        <3> QED  BY <3>1, <3>2 DEF MineInv, TmpShape, Listed, Tmp
    <2>3. CASE Debugger
        BY <2>1, <2>3, SoftNever, PlainMine, UntilMine, UntilLoopMine, DcuMine DEF Debugger
    <2>4. CASE User
        BY <2>1, <2>4, UserMine
    <2> QED  BY <2>2, <2>3, <2>4 DEF Next
<1> QED  BY <1>1, <1>2, RunAlways, PTL DEF Spec

\* At the prompt the list holds what the user has set, for every program and
\* every session of hardware steps in which dcu keeps off the addresses of the
\* user's breakpoints: a command deletes the breakpoint it has set itself,
\* through every stop, signal, fork and death on the way, and no other one.
THEOREM ListIsUsers ==
    ASSUME HardwareUses, DcuApart
    PROVE  Spec => []OnlyMine
<1>1. ASSUME TypeInv, MineInv PROVE OnlyMine
    <2> SUFFICES ASSUME Idle PROVE {bps[i].addr : i \in DOMAIN bps} = mine
        BY DEF OnlyMine
    <2>1. stack \in Seq(Frame) /\ bps \in Bps /\ mine \subseteq Prog /\ DOMAIN bps = 1 .. Len(bps)
        BY <1>1, BpsSeq, ProgAssumption DEF TypeInv, ControlOK, RestOK
    <2>2. \A a : ~Tmp(a)
        BY <2>1, IdlePlace, NoTmp
    <2>3. \A i \in 1 .. Len(bps) : bps[i].addr \in Prog
        BY <2>1 DEF Bps
    <2>4. \A a \in Prog : (\E i \in 1 .. Len(bps) : bps[i].addr = a) <=> a \in mine
        BY <1>1, <2>2 DEF MineInv, Listed
    <2> QED  BY <2>1, <2>3, <2>4
<1> QED  BY <1>1, MineAlways, PTL

----------------------------------------------------------------------------
(* Signals.                                                                *)

SigOf(f) == IF f.sig THEN "sig" ELSE "no"

\* Whether r_debug_continue_kill has a signal to deliver, by its frame.
S == [i \in Nat \ {0} |-> IF i \in 1 .. Len(stack) THEN SigOf(stack[i]) ELSE "no"]

GotoS(s)    == S'[1] = s /\ \A i \in Deeper : S'[i] = S[i]
CallS(s, t) == S'[1] = t /\ S'[2] = s /\ \A i \in Deeper : S'[i + 1] = S[i]
ReturnS     == \A i \in Nat \ {0} : S'[i] = S[i + 1]

LEMMA SigPlaces ==
    ASSUME stack \in Seq(Frame), stack # << >>
    PROVE  /\ S[1] = SigOf(stack[1])
           /\ \A f \in Frame : Goto(f) => GotoS(SigOf(f))
           /\ \A f, g \in Frame : Call(f, g) => CallS(SigOf(f), SigOf(g))
           /\ \A v : Return(v) => ReturnS
<1>1. Len(stack) \in Nat \ {0}
    OBVIOUS
<1>2. S[1] = SigOf(stack[1])
    BY <1>1 DEF S
<1>3. ASSUME NEW f \in Frame, Goto(f) PROVE GotoS(SigOf(f))
    <2>1. /\ stack' \in Seq(Frame) /\ Len(stack') = Len(stack) /\ stack'[1] = f
          /\ \A i \in 2 .. Len(stack) : stack'[i] = stack[i]
        BY <1>3, GotoStack
    <2>2. S'[1] = SigOf(f)
        BY <1>1, <2>1 DEF S, SigOf
    <2>3. ASSUME NEW i \in Deeper PROVE S'[i] = S[i]
        <3>1. i \in Nat \ {0} /\ (i \in 1 .. Len(stack) => i \in 2 .. Len(stack))
            BY DEF Deeper
        <3> QED  BY <2>1, <3>1 DEF S, SigOf
    <2> QED  BY <2>2, <2>3 DEF GotoS
<1>4. ASSUME NEW f \in Frame, NEW g \in Frame, Call(f, g) PROVE CallS(SigOf(f), SigOf(g))
    <2>1. /\ stack' \in Seq(Frame) /\ Len(stack') = Len(stack) + 1 /\ stack'[1] = g /\ stack'[2] = f
          /\ \A i \in 2 .. Len(stack) : stack'[i + 1] = stack[i]
        BY <1>4, CallStack
    <2>2. S'[1] = SigOf(g) /\ S'[2] = SigOf(f)
        BY <1>1, <2>1 DEF S, SigOf
    <2>3. ASSUME NEW i \in Deeper PROVE S'[i + 1] = S[i]
        <3>1. i \in Nat \ {0} /\ i + 1 \in Nat \ {0}
            BY DEF Deeper
        <3>2. i \in 1 .. Len(stack) <=> i + 1 \in 1 .. Len(stack')
            BY <1>1, <2>1 DEF Deeper
        <3>3. i \in 1 .. Len(stack) => i \in 2 .. Len(stack)
            BY DEF Deeper
        <3> QED  BY <2>1, <3>1, <3>2, <3>3 DEF S, SigOf
    <2> QED  BY <2>2, <2>3 DEF CallS
<1>5. ASSUME NEW v, Return(v) PROVE ReturnS
    <2>1. /\ stack' \in Seq(Frame) /\ Len(stack') = Len(stack) - 1
          /\ \A i \in 1 .. Len(stack) - 1 : stack'[i] = stack[i + 1]
        BY <1>5, ReturnStack
    <2>2. ASSUME NEW i \in Nat \ {0} PROVE S'[i] = S[i + 1]
        <3>1. i + 1 \in Nat \ {0}
            OBVIOUS
        <3>2. i \in 1 .. Len(stack') <=> i + 1 \in 1 .. Len(stack)
            BY <1>1, <2>1
        <3>3. i \in 1 .. Len(stack') => i \in 1 .. Len(stack) - 1
            BY <2>1
        <3> QED  BY <2>1, <3>1, <3>2, <3>3 DEF S, SigOf
    <2> QED  BY <2>2 DEF ReturnS
<1> QED  BY <1>2, <1>3, <1>4, <1>5

\* The places from which a frame still goes to h->cont with its signal.
Sending == \E i \in Nat \ {0} : P[i] \in {"cont", "cont_recoiled"} /\ S[i] = "sig"

LEMMA SendGoto ==
    ASSUME NEW x, NEW s, GotoP(x), GotoS(s), Sending'
    PROVE  Sending \/ (x \in {"cont", "cont_recoiled"} /\ s = "sig")
<1>1. PICK i \in Nat \ {0} : P'[i] \in {"cont", "cont_recoiled"} /\ S'[i] = "sig"
    BY DEF Sending
<1>2. CASE i = 1
    BY <1>1, <1>2 DEF GotoP, GotoS
<1>3. CASE i # 1
    <2>1. i \in Deeper
        BY <1>3 DEF Deeper
    <2> QED  BY <1>1, <2>1 DEF GotoP, GotoS, Sending
<1> QED  BY <1>2, <1>3

LEMMA SendCall ==
    ASSUME NEW x, NEW y, NEW s, CallP(x, y), CallS(s, "no"), Sending'
    PROVE  Sending \/ (x \in {"cont", "cont_recoiled"} /\ s = "sig")
<1>1. PICK i \in Nat \ {0} : P'[i] \in {"cont", "cont_recoiled"} /\ S'[i] = "sig"
    BY DEF Sending
<1>2. CASE i = 1
    BY <1>1, <1>2 DEF CallS
<1>3. CASE i = 2
    BY <1>1, <1>3 DEF CallP, CallS
<1>4. CASE i \notin {1, 2}
    <2>1. i - 1 \in Deeper /\ i = (i - 1) + 1
        BY <1>4 DEF Deeper
    <2>2. PICK j \in Deeper : i = j + 1
        BY <2>1
    <2> QED  BY <1>1, <2>2 DEF CallP, CallS, Sending, Deeper
<1> QED  BY <1>2, <1>3, <1>4

LEMMA SendReturn == ASSUME ReturnP, ReturnS, Sending' PROVE Sending
<1>1. PICK i \in Nat \ {0} : P'[i] \in {"cont", "cont_recoiled"} /\ S'[i] = "sig"
    BY DEF Sending
<1>2. i + 1 \in Nat \ {0} /\ P'[i] = P[i + 1] /\ S'[i] = S[i + 1]
    BY DEF ReturnP, ReturnS
<1> QED  BY <1>1, <1>2 DEF Sending

\* The signals of the frames that are put on the stack.
LEMMA SigFrames ==
    /\ \A at \in Places : SigOf(Fr(at)) = "no"
    /\ \A mode \in {"STEP", "CONTINUE"} : SigOf([Fr("recoil") EXCEPT !.mode = mode]) = "no"
    /\ stack \in Seq(Frame) /\ stack # << >> =>
          \A at \in Places : /\ SigOf(Resume(at)) = S[1]
                             /\ SigOf([Resume(at) EXCEPT !.sig = FALSE]) = "no"
<1>1. \A at \in Places : SigOf(Fr(at)) = "no"
    BY DEF SigOf, Fr
<1>2. \A mode \in {"STEP", "CONTINUE"} : SigOf([Fr("recoil") EXCEPT !.mode = mode]) = "no"
    BY DEF SigOf, Fr
<1>3. ASSUME stack \in Seq(Frame), stack # << >>, NEW at \in Places
      PROVE  /\ SigOf(Resume(at)) = S[1]
             /\ SigOf([Resume(at) EXCEPT !.sig = FALSE]) = "no"
    <2>1. S[1] = SigOf(stack[1])
        BY <1>3, SigPlaces
    <2>2. PICK f \in Frame : f = Head(stack) /\ f = stack[1]
        BY <1>3
    <2>3. [f EXCEPT !.at = at].sig = f.sig
        BY <2>2 DEF Frame
    <2>4. [[f EXCEPT !.at = at] EXCEPT !.sig = FALSE].sig = FALSE
        BY <2>2 DEF Frame
    <2>5. Resume(at) = [f EXCEPT !.at = at]
        BY <2>2 DEF Resume
    <2>6. SigOf(Resume(at)) = S[1]
        BY <2>1, <2>2, <2>3, <2>5, Zenon DEF SigOf
    <2> QED  BY <2>4, <2>5, <2>6, Zenon DEF SigOf
<1> QED  BY <1>1, <1>2, <1>3

\* A signal that is waiting to be reported, or that a frame has yet to deliver,
\* is one that is owed.  Stops are breaks or signals.
Owes ==
    /\ owed >= 0
    /\ event = "SIGNAL" \/ Sending => owed >= 1
    /\ P[1] = "cont_skip" => S[1] = "no"
    /\ event # "NEW_PID"
Breaks == \A i \in 1 .. Len(bps) : bps[i].kind = "break"

SigInv == Owes /\ Breaks

\* Sessions without forks, tracepoints and conditions: after each of these
\* r_debug_continue_kill may deliver the signal of an earlier stop again.
BreakUses == \A u \in Uses : u.kinds \subseteq {"break"} /\ "NEW_PID" \notin u.events

\* The steps in which no signal is read from the debuggee or handed to it.
LEMMA SigMoves ==
    ASSUME Running, Owes,
           \/ r_debug_step \/ StepReturn \/ StepHardEnter \/ StepHardRecoiled \/ StepHardGo
           \/ StepHardWait \/ RecoilEnter \/ RecoilStepped
           \/ ContRepeat \/ ContSkip \/ UntilEnter \/ UntilLoop \/ DcuEnter \/ DcuReturn
    PROVE  Sending' => Sending
<1>1. Hardware /\ stack \in Seq(Frame)
    BY RunTop, HwStack
<1>2. stack # << >> /\ Head(stack) = stack[1] /\ stack[1] \in Frame
    <2>1. CASE r_debug_step \/ StepReturn \/ StepHardEnter \/ StepHardRecoiled
        BY <1>1, <2>1, AtTop DEF r_debug_step, StepReturn, StepHardEnter, StepHardRecoiled
    <2>2. CASE StepHardGo \/ StepHardWait \/ RecoilEnter \/ RecoilStepped
        BY <1>1, <2>2, AtTop DEF StepHardGo, StepHardWait, RecoilEnter, RecoilStepped
    <2>3. CASE ContRepeat \/ ContSkip \/ UntilEnter \/ UntilLoop \/ DcuEnter \/ DcuReturn
        BY <1>1, <2>3, AtTop DEF ContRepeat, ContSkip, UntilEnter, UntilLoop, DcuEnter, DcuReturn
    <2> QED  BY <2>1, <2>2, <2>3
<1>3. ASSUME NEW f \in Frame, Goto(f), Sending',
             f.at \notin {"cont", "cont_recoiled"} \/ SigOf(f) = "no"
      PROVE  Sending
    <2>1. GotoP(f.at) /\ GotoS(SigOf(f))
        BY <1>1, <1>2, <1>3, GotoPlaces, SigPlaces
    <2> QED  BY <1>3, <2>1, SendGoto
<1>4. ASSUME NEW f \in Frame, NEW g \in Frame, Call(f, g), SigOf(g) = "no", Sending',
             f.at \notin {"cont", "cont_recoiled"} \/ SigOf(f) = "no" \/ (P[1] = "cont" /\ SigOf(f) = S[1])
      PROVE  Sending
    <2>1. CallP(f.at, g.at) /\ CallS(SigOf(f), "no")
        BY <1>1, <1>2, <1>4, CallPlaces, SigPlaces
    <2>2. P[1] = "cont" /\ S[1] = "sig" => Sending
        BY DEF Sending
    <2> QED  BY <1>4, <2>1, <2>2, SendCall
<1>5. ASSUME NEW v, Return(v), Sending' PROVE Sending
    <2>1. ReturnP /\ ReturnS
        BY <1>1, <1>2, <1>5, ReturnPlaces, SigPlaces
    <2> QED  BY <1>5, <2>1, SendReturn
<1>6. \A at \in Places : /\ Fr(at) \in Frame /\ Fr(at).at = at /\ SigOf(Fr(at)) = "no"
                         /\ Resume(at) \in Frame /\ Resume(at).at = at /\ SigOf(Resume(at)) = S[1]
    BY <1>1, <1>2, FrType, ResumeType, SigFrames
<1>7. \A mode \in {"STEP", "CONTINUE"} :
         /\ [Fr("recoil") EXCEPT !.mode = mode] \in Frame
         /\ SigOf([Fr("recoil") EXCEPT !.mode = mode]) = "no"
    BY RecoilFrame, SigFrames
<1>8. CASE r_debug_step \/ StepReturn
    BY <1>1, <1>4, <1>5, <1>6, <1>8, PlaceNames DEF r_debug_step, StepReturn, Hardware
<1>9. CASE StepHardEnter
    BY <1>3, <1>4, <1>5, <1>6, <1>7, <1>9, PlaceNames DEF StepHardEnter
<1>10. CASE StepHardRecoiled
    BY <1>3, <1>5, <1>6, <1>10, PlaceNames DEF StepHardRecoiled
<1>11. CASE StepHardGo \/ StepHardWait
    BY <1>3, <1>5, <1>6, <1>11, PlaceNames DEF StepHardGo, StepHardWait
<1>12. CASE RecoilEnter \/ RecoilStepped
    BY <1>4, <1>5, <1>6, <1>12, PlaceNames DEF RecoilEnter, RecoilStepped
<1>13. CASE ContRepeat
    <2>1. P[1] = "cont"
        BY <1>1, <1>13, ContMoves
    <2> QED  BY <1>4, <1>5, <1>6, <1>7, <1>13, <2>1, PlaceNames DEF ContRepeat
<1>14. CASE ContSkip
    <2>1. S[1] = "no"
        BY <1>1, <1>14, ContSkipMoves DEF Owes
    <2> QED  BY <1>3, <1>5, <1>6, <1>14, <2>1, PlaceNames DEF ContSkip
<1>15. ASSUME NEW at \in {"until_loop", "dcu_ret"}, NEW t \in {<< >>, <<stack[1].to>>}
       PROVE  LET g == [Resume(at) EXCEPT !.tmp = t] IN g \in Frame /\ g.at = at
    <2>1. stack[1].to \in Addr
        BY <1>2 DEF Frame
    <2>2. << >> \in Seq(Addr) /\ <<stack[1].to>> \in Seq(Addr)
        BY <2>1
    <2>3. t \in Seq(Addr)
        BY <2>2
    <2> QED  BY <1>6, <2>3, PlaceNames, TmpFrame
<1>16. CASE UntilEnter
    <2>1. \/ Return(FALSE)
          \/ \E t \in {<< >>, <<stack[1].to>>} : Goto([Resume("until_loop") EXCEPT !.tmp = t])
        BY <1>2, <1>16, Zenon DEF UntilEnter
    <2> QED  BY <1>3, <1>5, <1>15, <2>1
<1>17. CASE UntilLoop
    <2>1. stack[1].at = "until_loop"
        BY <1>1, <1>17, AtTop DEF UntilLoop
    <2>2. Return(TRUE) \/ Call(stack[1], Fr("cont"))
        BY <1>2, <1>17 DEF UntilLoop
    <2>3. Fr("cont") \in Frame /\ SigOf(Fr("cont")) = "no"
        BY <1>6, PlaceNames
    <2>4. PICK f \in Frame : f = stack[1] /\ f.at = "until_loop"
        BY <1>2, <2>1
    <2>5. Return(TRUE) \/ Call(f, Fr("cont"))
        BY <2>2, <2>4
    <2> QED  BY <1>4, <1>5, <2>3, <2>4, <2>5
<1>18. CASE DcuEnter
    <2>1. \E t \in {<< >>, <<stack[1].to>>} : Call([Resume("dcu_ret") EXCEPT !.tmp = t], Fr("cont"))
        BY <1>2, <1>18 DEF DcuEnter
    <2>2. PICK t \in {<< >>, <<stack[1].to>>} : Call([Resume("dcu_ret") EXCEPT !.tmp = t], Fr("cont"))
        BY <2>1
    <2>3. PICK f \in Frame : f = [Resume("dcu_ret") EXCEPT !.tmp = t] /\ f.at = "dcu_ret"
        BY <1>15
    <2>4. Call(f, Fr("cont"))
        BY <2>2, <2>3
    <2> QED  BY <1>4, <1>6, <2>3, <2>4, PlaceNames
<1>19. CASE DcuReturn
    BY <1>5, <1>19 DEF DcuReturn
<1> QED  BY <1>8, <1>9, <1>10, <1>11, <1>12, <1>13, <1>14, <1>16, <1>17, <1>18, <1>19

\* A stop of the debuggee that ends, or does not end, a continuation.
LEMMA ContWaitSig ==
    ASSUME Running, SigInv, ContWait
    PROVE  /\ Sending' => Sending \/ event = "SIGNAL"
           /\ P'[1] = "cont_skip" => S'[1] = "no"
<1>1. /\ Hardware /\ stack \in Seq(Frame) /\ bps \in Bps
      /\ P[1] = "cont_wait" /\ P[2] \in {"until_loop", "dcu_ret", "prompt"}
      /\ event \in {"none", "TRAP", "SIGNAL", "NEW_PID", "DEAD", "ERROR"}
    BY RunTop, HwStack, ContWaitMoves DEF StandsOn, Hardware, TypeInv, InferiorOK
<1>2. stack # << >>
    BY <1>1, AtTop DEF ContWait
<1>3. event # "none" /\ Policy \in {"stop", "cont", "skip"}
    BY <1>1, UseType DEF ContWait, r_debug_wait, Policy, Hardware, TypeInv, RestOK
<1>4. CASE Dead
    <2>1. ReturnP /\ ReturnS
        BY <1>1, <1>2, <1>4, ReturnPlaces, SigPlaces DEF ContWait
    <2>2. Sending' => Sending
        BY <2>1, SendReturn
    <2>3. P'[1] # "cont_skip"
        BY <1>1, <2>1 DEF ReturnP
    <2> QED  BY <2>2, <2>3
<1>5. CASE ~Dead
    <2>1. event \in {"TRAP", "SIGNAL"}
        BY <1>1, <1>3, <1>5, RunTop DEF Flow, SigInv, Owes
    <2>2. WaitReason \in {"BREAKPOINT", "SIGNAL"}
        <3>1. HitPos # NoPos => KindReason(bps[HitPos].kind) = "BREAKPOINT"
            <4>1. HitPos # NoPos => HitPos \in 1 .. Len(bps)
                BY <1>1, GetAt DEF HitPos
            <4> QED  BY <4>1 DEF KindReason, SigInv, Breaks
        <3> QED  BY <2>1, <3>1 DEF WaitReason, r_debug_native_wait
    <2> DEFINE c == [Resume("cont") EXCEPT !.sig = TRUE]
               k == [Resume("cont_skip") EXCEPT !.sig = FALSE]
    <2>3. /\ c \in Frame /\ c.at = "cont" /\ k \in Frame /\ k.at = "cont_skip"
        <3>1. /\ Resume("cont") \in Frame /\ Resume("cont").at = "cont"
              /\ Resume("cont_skip") \in Frame /\ Resume("cont_skip").at = "cont_skip"
            BY <1>1, <1>2, ResumeType, PlaceNames
        <3> QED  BY <3>1 DEF Frame
    <2>4. SigOf(k) = "no"
        BY <1>1, <1>2, SigFrames, PlaceNames
    <2> HIDE DEF c, k
    <2>5. \/ Policy = "stop" /\ Return(TRUE)
          \/ Policy = "cont" /\ Goto(c)
          \/ Policy = "skip" /\ Goto(k)
        BY <1>3, <1>5, <2>2 DEF ContWait, Again, c, k
    <2>6. CASE Return(TRUE)
        <3>1. ReturnP /\ ReturnS
            BY <1>1, <1>2, <2>6, ReturnPlaces, SigPlaces
        <3>2. Sending' => Sending
            BY <3>1, SendReturn
        <3>3. P'[1] # "cont_skip"
            BY <1>1, <3>1 DEF ReturnP
        <3> QED  BY <3>2, <3>3
    <2>7. CASE Policy = "cont" /\ Goto(c)
        <3>1. signum' = "SIG"
            BY <2>7 DEF Policy
        <3>2. event = "SIGNAL"
            BY <2>1, <3>1 DEF ContWait, r_debug_wait
        <3>3. P'[1] = "cont"
            BY <1>1, <1>2, <2>3, <2>7, GotoPlaces DEF GotoP
        <3> QED  BY <3>2, <3>3
    <2>8. CASE Goto(k)
        <3>1. GotoP("cont_skip") /\ GotoS("no")
            BY <1>1, <1>2, <2>3, <2>4, <2>8, GotoPlaces, SigPlaces
        <3>2. Sending' => Sending
            BY <3>1, SendGoto
        <3> QED  BY <3>1, <3>2 DEF GotoS
    <2> QED  BY <2>5, <2>6, <2>7, <2>8
<1> QED  BY <1>4, <1>5

\* h->cont takes the signal of the only frame that has one.
LEMMA ContGoSig ==
    ASSUME Running, SigInv, ContGo
    PROVE  Owes'
<1>1. /\ Hardware /\ stack \in Seq(Frame) /\ P[1] = "cont_recoiled" /\ owed \in Int
      /\ P[2] \in {"until_loop", "dcu_ret", "prompt"} /\ event = "none"
    BY RunTop, HwStack, ContGoMoves DEF StandsOn, Flow, Hardware, TypeInv, RestOK
<1>2. stack # << >> /\ Head(stack) = stack[1] /\ stack[1] \in Frame /\ event' = event
    BY <1>1, AtTop DEF ContGo
<1>3. Resume("cont_wait") \in Frame /\ Resume("cont_wait").at = "cont_wait"
    BY <1>1, <1>2, ResumeType, PlaceNames
<1>4. CASE ret
    <2>1. Goto(Resume("cont_wait")) /\ owed' = IF stack[1].sig THEN owed - 1 ELSE owed
        BY <1>2, <1>4 DEF ContGo
    <2>2. owed' >= 0
        <3>1. S[1] = SigOf(stack[1])
            BY <1>1, <1>2, SigPlaces
        <3>2. stack[1].sig => S[1] = "sig"
            BY <3>1, Zenon DEF SigOf
        <3>3. stack[1].sig => owed >= 1
            BY <1>1, <3>2 DEF SigInv, Owes, Sending
        <3>4. owed' = owed \/ (owed' = owed - 1 /\ stack[1].sig)
            BY <2>1, Zenon
        <3> QED  BY <1>1, <3>3, <3>4 DEF SigInv, Owes
    <2>3. GotoP("cont_wait")
        BY <1>1, <1>2, <1>3, <2>1, GotoPlaces
    <2>4. \A i \in Nat \ {0} : P'[i] \notin {"cont", "cont_recoiled"}
        <3> SUFFICES ASSUME NEW i \in Nat \ {0} PROVE P'[i] \notin {"cont", "cont_recoiled"}
            OBVIOUS
        <3>1. P[3] = "prompt" \/ P[2] = "prompt"
            BY <1>1, RunTop DEF StandsOn
        <3>2. CASE i \in {1, 2}
            BY <1>1, <2>3, <3>2 DEF GotoP
        <3>3. CASE i \notin {1, 2}
            <4>1. i \in Deeper /\ i >= 3 /\ i >= 2
                BY <3>3 DEF Deeper
            <4>2. 2 \in Nat \ {0} /\ 3 \in Nat \ {0}
                OBVIOUS
            <4>3. P[i] = "prompt"
                BY <1>1, <3>1, <4>1, <4>2, BelowPrompt
            <4> QED  BY <2>3, <4>1, <4>3 DEF GotoP
        <3> QED  BY <3>2, <3>3
    <2>5. ~Sending'
        BY <2>4 DEF Sending
    <2> QED  BY <1>1, <1>2, <2>2, <2>3, <2>5 DEF Owes, GotoP
<1>5. CASE ~ret
    <2>1. Return(FALSE) /\ owed' = owed
        BY <1>5 DEF ContGo
    <2>2. ReturnP /\ ReturnS
        BY <1>1, <1>2, <2>1, ReturnPlaces, SigPlaces
    <2>3. Sending' => Sending
        BY <2>2, SendReturn
    <2>4. P'[1] # "cont_skip"
        BY <1>1, <2>2 DEF ReturnP
    <2> QED  BY <1>1, <1>2, <2>1, <2>3, <2>4 DEF Owes, SigInv
<1> QED  BY <1>4, <1>5

LEMMA DebuggerOwes ==
    ASSUME Running, SigInv, Debugger
    PROVE  Owes'
<1>1. Owes
    BY DEF SigInv
<1>2. CASE \/ r_debug_step \/ StepReturn \/ StepHardEnter \/ StepHardRecoiled \/ StepHardGo
           \/ StepHardWait \/ RecoilEnter \/ RecoilStepped
           \/ ContRepeat \/ ContSkip \/ UntilEnter \/ UntilLoop \/ DcuEnter \/ DcuReturn
    <2>1. Sending' => Sending
        BY <1>1, <1>2, SigMoves
    <2>2. owed' = owed /\ event' \in {event, "none"}
        <3>1. CASE r_debug_step \/ StepReturn \/ StepHardEnter \/ StepHardRecoiled \/ StepHardGo
            BY <3>1 DEF r_debug_step, StepReturn, StepHardEnter, StepHardRecoiled, StepHardGo,
                Quiet, history, inferior
        <3>2. CASE StepHardWait \/ RecoilEnter \/ RecoilStepped
            BY <3>2 DEF StepHardWait, r_debug_wait, RecoilEnter, RecoilStepped, history
        <3>3. CASE ContRepeat \/ ContSkip
            BY <3>3 DEF ContRepeat, ContSkip, Quiet, history, inferior
        <3>4. CASE UntilEnter \/ UntilLoop \/ DcuEnter \/ DcuReturn
            BY <3>4 DEF UntilEnter, UntilLoop, DcuEnter, DcuReturn, history, inferior
        <3> QED  BY <1>2, <3>1, <3>2, <3>3, <3>4
    <2>3. P'[1] # "cont_skip"
        <3>1. P'[1] = "cont_skip" => ContWait
            BY Entries
        <3>2. ContWait => P[1] = "cont_wait"
            BY ContWaitMoves, RunTop
        <3>3. P[1] # "cont_wait"
            <4>1. Hardware
                BY RunTop
            <4>2. CASE r_debug_step \/ StepReturn \/ StepHardEnter \/ StepHardRecoiled \/ StepHardGo
                BY <4>1, <4>2, StepMoves, StepReturnMoves, HardEnterMoves, HardRecoiledMoves, HardGoMoves
            <4>3. CASE StepHardWait \/ RecoilEnter \/ RecoilStepped \/ ContRepeat \/ ContSkip
                BY <4>1, <4>3, HardWaitMoves, RecoilMoves, RecoilSteppedMoves, ContMoves, ContSkipMoves
            <4>4. CASE UntilEnter \/ UntilLoop \/ DcuEnter \/ DcuReturn
                BY <4>1, <4>4, UntilMoves, UntilLoopMoves, DcuMoves, DcuReturnMoves
            <4> QED  BY <1>2, <4>2, <4>3, <4>4
        <3> QED  BY <3>1, <3>2, <3>3
    <2> QED  BY <1>1, <2>1, <2>2, <2>3 DEF Owes
<1>3. CASE ContWait
    <2>1. owed' = owed /\ event' = "none"
        BY <1>3 DEF ContWait, r_debug_wait
    <2> QED  BY <1>1, <1>3, <2>1, ContWaitSig DEF Owes
<1>4. CASE ContGo
    BY <1>4, ContGoSig
<1> QED  BY <1>2, <1>3, <1>4, SoftNever DEF Debugger

LEMMA BreaksFewer ==
    ASSUME Breaks, \A j \in 1 .. Len(bps') : \E i \in 1 .. Len(bps) : bps'[j].kind = bps[i].kind
    PROVE  Breaks'
BY DEF Breaks

LEMMA BreaksAdd ==
    ASSUME TypeInv, Breaks, NEW a \in Prog, NEW kind \in {"break"}, NEW sw \in BOOLEAN,
           bps' = WithBp(bps, a, kind, sw)
    PROVE  Breaks'
<1>1. bps \in Bps /\ mem \in Mems /\ Len(bps) \in Nat /\ kind \in {"break", "trace", "cond"}
    BY BpsSeq DEF TypeInv, InferiorOK
<1>2. /\ (\E i \in 1 .. Len(bps) : bps[i].addr = a) => bps' = bps
      /\ (\A i \in 1 .. Len(bps) : bps[i].addr # a) =>
            /\ Len(bps') = Len(bps) + 1 /\ \A i \in 1 .. Len(bps) : bps'[i] = bps[i]
            /\ bps'[Len(bps) + 1].kind = kind
    BY <1>1, WithBpItems
<1>3. CASE bps' = bps
    BY <1>3 DEF Breaks
<1>4. CASE \A i \in 1 .. Len(bps) : bps[i].addr # a
    <2>1. ASSUME NEW i \in 1 .. Len(bps') PROVE bps'[i].kind = "break"
        <3>1. CASE i \in 1 .. Len(bps)
            BY <1>2, <1>4, <3>1 DEF Breaks
        <3>2. CASE i = Len(bps) + 1
            BY <1>2, <1>4, <3>2
        <3> QED  BY <1>1, <1>2, <1>4, <3>1, <3>2
    <2> QED  BY <2>1 DEF Breaks
<1> QED  BY <1>2, <1>3, <1>4

LEMMA DebuggerBreaks ==
    ASSUME Running, Breaks, Debugger
    PROVE  Breaks'
<1>1. Hardware /\ TypeInv /\ bps \in Bps
    BY RunTop DEF Hardware, TypeInv
<1>2. CASE UntilEnter \/ UntilLoop \/ DcuEnter \/ DcuReturn
    <2>1. /\ stack[1].tmp \in Seq(Addr)
          /\ \/ bps' = bps
             \/ /\ stack[1].to \in Prog
                /\ bps' = WithBp(bps, stack[1].to, "break", FALSE)
             \/ bps' = WithoutTmp(bps, stack[1].tmp)
        BY <1>1, <1>2, UntilList
    <2>2. CASE bps' = bps
        BY <2>2 DEF Breaks
    <2>3. CASE stack[1].to \in Prog /\ bps' = WithBp(bps, stack[1].to, "break", FALSE)
        BY <1>1, <2>3, BreaksAdd
    <2>4. CASE bps' = WithoutTmp(bps, stack[1].tmp)
        <3>1. \A j \in 1 .. Len(bps') : \E i \in 1 .. Len(bps) : bps'[j] = bps[i]
            BY <1>1, <2>1, <2>4, WithoutTmpOne
        <3> QED  BY <1>1, <3>1, BreaksFewer
    <2> QED  BY <2>1, <2>2, <2>3, <2>4
<1>3. CASE r_debug_step \/ StepReturn \/ StepHardEnter \/ StepHardRecoiled \/ StepHardGo \/ StepHardWait
    BY <1>3 DEF r_debug_step, StepReturn, StepHardEnter, StepHardRecoiled, StepHardGo,
        StepHardWait, Quiet, Breaks
<1>4. CASE \/ RecoilEnter \/ RecoilStepped \/ ContRepeat \/ ContGo \/ ContWait \/ ContSkip
    BY <1>4 DEF RecoilEnter, RecoilStepped, ContRepeat, ContGo, ContWait, ContSkip, Quiet, Breaks
<1> QED  BY <1>2, <1>3, <1>4, SoftNever DEF Debugger

LEMMA UserSig ==
    ASSUME Running, BreakUses, SigInv, User
    PROVE  SigInv'
<1>1. /\ Hardware /\ TypeInv /\ stack \in Seq(Frame) /\ bps \in Bps /\ use \in Uses /\ owed \in Int
      /\ BpAddrs \subseteq Prog /\ use.kinds \subseteq {"break"} /\ Owes /\ Breaks
    BY RunTop, HwStack, ProgAssumption DEF Hardware, TypeInv, RestOK, SigInv, BreakUses
<1>2. CASE Commands
    <2>1. PICK f \in Frame : /\ Start(f)
                             /\ f.at \in {"step", "until", "dcu"} \/ (f.at = "cont" /\ (f.sig => owed' = owed + 1))
        BY <1>1, <1>2, CommandFrame
    <2>2. bps' = bps /\ event' = event
        BY <1>1, <1>2, CommandMoves
    <2>3. stack' = <<f>> /\ P'[1] = f.at /\ \A i \in Deeper : P'[i] = "prompt"
        BY <1>1, <2>1, StartMoves
    <2>4. Len(stack') = 1 /\ stack'[1] = f
        BY <2>3
    <2>5. owed' \in {owed, owed + 1}
        BY <1>2 DEF Commands, CmdStep, CmdContinue, CmdUntil, CmdDcu
    <2>6. S'[1] = SigOf(f)
        BY <2>4 DEF S, SigOf
    <2>7. Sending' => owed' >= 1
        <3> SUFFICES ASSUME Sending' PROVE owed' >= 1
            OBVIOUS
        <3>1. PICK i \in Nat \ {0} : P'[i] \in {"cont", "cont_recoiled"} /\ S'[i] = "sig"
            BY DEF Sending
        <3>2. i \notin Deeper
            BY <2>3, <3>1
        <3>3. i = 1
            BY <3>2 DEF Deeper
        <3>4. f.at = "cont" /\ SigOf(f) = "sig"
            BY <2>1, <2>3, <2>6, <3>1, <3>3
        <3>5. f.sig
            BY <3>4 DEF SigOf
        <3>6. owed' = owed + 1
            BY <2>1, <3>4, <3>5
        <3> QED  BY <1>1, <3>6 DEF Owes
    <2>8. P'[1] # "cont_skip"
        BY <2>1, <2>3
    <2>9. Owes'
        BY <1>1, <2>2, <2>5, <2>7, <2>8 DEF Owes
    <2> QED  BY <1>1, <2>2, <2>9 DEF SigInv, Breaks
<1>3. CASE Settings
    <2>1. UNCHANGED <<stack, event, owed>> /\ P' = P
        BY <1>1, <1>3, SettingMoves
    <2>2. S' = S
        BY <2>1 DEF S, SigOf
    <2>3. Owes'
        BY <1>1, <2>1, <2>2 DEF Owes, Sending
    <2>4. Breaks'
        <3>1. CASE bps' = bps
            BY <1>1, <3>1 DEF Breaks
        <3>2. ASSUME NEW a \in BpAddrs, NEW kind \in use.kinds, bps' = WithBp(bps, a, kind, FALSE)
              PROVE  Breaks'
            BY <1>1, <3>2, BreaksAdd
        <3>3. ASSUME NEW a \in BpAddrs, bps' = WithoutBp(bps, a) PROVE Breaks'
            <4>1. bps \in Bps
                BY <1>1
            <4>2. \A j \in 1 .. Len(bps') : \E i \in 1 .. Len(bps) : bps'[j] = bps[i]
                BY <3>3, <4>1, DeletedItems
            <4> QED  BY <1>1, <4>2, BreaksFewer
        <3>4. CASE Len(bps') = Len(bps) /\ \A j \in 1 .. Len(bps) : bps'[j].kind = bps[j].kind
            BY <1>1, <3>4 DEF Breaks
        <3> QED  BY <1>1, <1>3, <3>1, <3>2, <3>3, <3>4, SettingList
    <2> QED  BY <2>3, <2>4 DEF SigInv
<1> QED  BY <1>2, <1>3, UserCases

LEMMA InferiorSig ==
    ASSUME Running, BreakUses, SigInv, Inferior \/ UNCHANGED vars
    PROVE  SigInv'
<1>1. use \in Uses /\ "NEW_PID" \notin use.events /\ "ERROR" \notin use.events /\ owed \in Int
      /\ use.events \subseteq {"SIGNAL", "NEW_PID", "DEAD", "ERROR"}
    BY UseType DEF Running, Hardware, TypeInv, RestOK, BreakUses
<1>2. UNCHANGED <<stack, bps>>
    BY DEF Inferior, Exec, ExecTrap, Interrupt, Die, vars, control
<1>3. P' = P /\ S' = S
    BY <1>2, SamePlaces DEF S, SigOf
<1>4. \/ owed' = owed /\ event' \in {event, "TRAP", "DEAD", "ERROR"}
      \/ owed' = owed + 1 /\ event' = "SIGNAL"
    <2>1. CASE Exec \/ ExecTrap \/ Die \/ UNCHANGED vars
        BY <2>1 DEF Exec, ExecTrap, Die, Stop, vars, inferior, history
    <2>2. ASSUME NEW e \in use.events, Interrupt(e) PROVE owed' = owed + 1 /\ event' = "SIGNAL"
        <3>1. e = "SIGNAL"
            BY <1>1, <2>2 DEF Interrupt
        <3> QED  BY <2>2, <3>1 DEF Interrupt, Stop
    <2> QED  BY <2>1, <2>2 DEF Inferior
<1>5. Owes'
    BY <1>1, <1>3, <1>4 DEF SigInv, Owes, Sending
<1> QED  BY <1>2, <1>5 DEF SigInv, Breaks

\* No signal reaches the debuggee more often than it was raised or sent, for
\* every program and every session of hardware steps without forks, tracepoints
\* and conditions: what r_debug_continue_kill hands to h->cont is the signal of
\* the stop it has just seen, or the one it was called with, and it hands it on
\* once, whatever the step of the recoil in between meets.
THEOREM SignalsDeliveredOnce ==
    ASSUME HardwareUses, BreakUses
    PROVE  Spec => []SignalOnce
<1>1. Init => SigInv
    <2> SUFFICES ASSUME Init PROVE SigInv
        OBVIOUS
    <2>1. stack = << >> /\ bps = << >> /\ owed = 0 /\ event = "none"
        BY DEF Init
    <2>2. \A i \in Nat \ {0} : P[i] = "prompt"
        BY <2>1 DEF P
    <2>3. ~Sending
        BY <2>2 DEF Sending
    <2>4. Len(bps) = 0
        BY <2>1
    <2> QED  BY <2>1, <2>2, <2>3, <2>4 DEF SigInv, Owes, Breaks
<1>2. TypeInv /\ RunInv /\ SigInv /\ [Next]_vars => SigInv'
    <2> SUFFICES ASSUME TypeInv, RunInv, SigInv, [Next]_vars PROVE SigInv'
        OBVIOUS
    <2>1. Running
        BY HardwareUse DEF Running
    <2>2. CASE Inferior \/ UNCHANGED vars
        BY <2>1, <2>2, InferiorSig
    <2>3. CASE Debugger
        BY <2>1, <2>3, DebuggerOwes, DebuggerBreaks DEF SigInv
    <2>4. CASE User
        BY <2>1, <2>4, UserSig
    <2> QED  BY <2>2, <2>3, <2>4 DEF Next
<1>3. SigInv => SignalOnce
    BY DEF SigInv, Owes, SignalOnce
<1> QED  BY <1>1, <1>2, <1>3, RunAlways, PTL DEF Spec

----------------------------------------------------------------------------
(* The session that the user sees: what is known of the traps, of bp_addr  *)
(* and of the instruction at pc wherever the debuggee is let run, and from *)
(* that, step by step, the implementation of DebugSession.                 *)
----------------------------------------------------------------------------

\* A step or a continuation may execute the instruction at pc: it is the first
\* one of the command, or the command is no step and no breakpoint that stops
\* a continuation is there.
Ready ==
    moved => /\ Nested
             /\ \A i \in 1 .. Len(bps) : bps[i].addr = pc => bps[i].kind # "break"

Standing(a) == \E i \in 1 .. Len(bps) : bps[i].addr = a

\* No item is there for a software step.
Single == \A i \in 1 .. Len(bps) : ~bps[i].swstep

\* A trap that was executed is that of an item, and r_debug_bp_hit will find
\* the item; it finds none after an instruction of the program.
Trapping ==
    /\ trapped => event = "TRAP" /\ recoil_mode = "NONE" /\ Standing(pc - 1)
    /\ event = "TRAP" /\ ~trapped =>
          P[1] = "hard_wait" /\ (recoil_mode = "NONE" => ~Standing(pc - 1))

\* The traps are out in the step of a recoil, and all in in any other step,
\* which is the user's.
Bytes ==
    /\ P[1] \in {"step", "hard", "recoil", "cont"} => mem = Code
    /\ P[1] \in {"hard_go", "hard_wait"} /\ recoil_mode # "NONE" => mem = Code
    /\ P[1] \in {"hard_recoiled", "hard_go", "hard_wait"} /\ recoil_mode = "NONE" =>
          Armed /\ P[3] = "prompt"

\* The step of a recoil clears bp_addr, so no second recoil follows it; a step
\* over a tracepoint starts with it set.
Hits ==
    /\ P[1] = "recoil_stepped" => bp_addr = 0
    /\ P[1] = "step_ret" /\ P[2] # "prompt" => bp_addr = 0
    /\ P[1] = "hard_recoiled" /\ recoil_mode = "STEP" => bp_addr = 0
    /\ P[1] = "step" /\ P[2] = "cont" => bp_addr # 0
    /\ P[1] = "hard" /\ P[3] = "cont" => bp_addr # 0
    /\ P[1] = "recoil" /\ P[4] = "cont" => bp_addr # 0

\* Where an instruction will be executed before the traps are in.
Goes ==
    /\ P[1] \in {"step", "hard", "hard_go"} \/ proc = "stepping" => Ready
    /\ P[1] = "recoil" /\ (bp_addr # 0 \/ P[2] = "hard_recoiled") => Ready
    /\ P[1] = "cont" /\ bp_addr # 0 => Ready
    /\ P[1] = "hard_recoiled" /\ recoil_mode = "NONE" => Ready
    /\ P[1] = "until_loop" => ~moved \/ Standing(pc)

Alive == Single /\ Trapping /\ Bytes /\ Hits /\ Goes

SessionInv ==
    /\ P[1] \in {"until", "dcu"} => ~moved
    /\ P[1] # "cont_skip"
    /\ ~Dead => Alive

\* Sessions without signals, forks and failing waits.
QuietUses == \A u \in Uses : u.events \subseteq {"DEAD"}

\* The program does not jump to the byte after a breakpoint: after the step of
\* a user r_debug_bp_hit takes that breakpoint for the one that was hit.
NoJumpBehind == \A a \in Prog : \A n \in Succ[a] : n - 1 \in BpAddrs => n - 1 = a

InSession ==
    /\ Running /\ CleanInv /\ MineInv /\ SessionInv
    /\ use.events \subseteq {"DEAD"}

LEMMA SessionTop ==
    ASSUME InSession
    PROVE  /\ Running /\ Hardware /\ TypeInv /\ Flow /\ Modes
           /\ bps \in Bps /\ mem \in Mems /\ pc \in Addr
           /\ P[1] # "prompt" => StandsOn(P[1], P[2])
           /\ P[2] # "prompt" => StandsOn(P[2], P[3])
           /\ P[3] # "prompt" => StandsOn(P[3], P[4])
           /\ P[4] # "recoil_stepped"
           /\ ~Dead => Saved /\ Known /\ Clean /\ Single /\ Trapping /\ Bytes /\ Hits /\ Goes
           /\ P[1] \in {"until", "dcu"} => ~moved
           /\ P[1] # "cont_skip" /\ ~Signals
<1>1. Running /\ Hardware /\ TypeInv /\ Flow /\ Modes
    BY RunTop DEF InSession, Hardware
<1>2. bps \in Bps /\ mem \in Mems /\ pc \in Addr
    BY <1>1 DEF TypeInv, InferiorOK
<1>3. ~Signals
    BY DEF InSession, Signals
<1> QED  BY <1>1, <1>2, <1>3, RunTop DEF InSession, CleanInv, SessionInv, Alive

\* In a continuation no step is the command.
LEMMA ContNested ==
    ASSUME Running, P[1] \in {"cont", "cont_recoiled", "cont_wait", "until", "until_loop",
                              "dcu", "dcu_ret"}
    PROVE  Nested
<1>1. stack \in Seq(Frame) /\ StandsOn(P[1], P[2]) /\ (P[2] # "prompt" => StandsOn(P[2], P[3]))
    BY RunTop, HwStack
<1>2. P[2] \in {"until_loop", "dcu_ret", "prompt"} /\ (P[2] = "prompt" \/ P[3] = "prompt")
    BY <1>1 DEF StandsOn
<1>3. P[3] = "prompt"
    <2>1. 3 \in Nat \ {0} /\ 2 \in Nat \ {0} /\ 3 >= 2
        OBVIOUS
    <2> QED  BY <1>1, <1>2, <2>1, BelowPrompt
<1>4. ASSUME NEW i \in Nat \ {0} PROVE P[i] \notin {"step", "step_ret"}
    <2>1. CASE i = 1
        BY <2>1
    <2>2. CASE i = 2
        BY <1>2, <2>2
    <2>3. CASE i \notin {1, 2}
        <3>1. i >= 3 /\ 3 \in Nat \ {0}
            BY <2>3
        <3>2. P[i] = "prompt"
            BY <1>1, <1>3, <3>1, BelowPrompt
        <3> QED  BY <3>2
    <2> QED  BY <2>1, <2>2, <2>3
<1> QED  BY <1>4 DEF Nested

LEMMA ReadySame ==
    ASSUME Ready, UNCHANGED <<pc, bps, moved>>, Nested => Nested'
    PROVE  Ready'
BY DEF Ready

\* What r_debug_wait does to a debuggee that was not killed.
LEMMA WaitHits ==
    ASSUME InSession, ~Dead, r_debug_wait, UNCHANGED <<bps, recoil_mode>>
    PROVE  /\ event = "TRAP" /\ event' = "none" /\ mem' = Code /\ signum' = "TRAP"
           /\ ~trapped'
           /\ trapped =>
                 \E i \in 1 .. Len(bps) :
                     /\ pc' = pc - 1 /\ bps[i].addr = pc' /\ bp_addr' = pc'
                     /\ bp_addr' # 0
                     /\ WaitReason = KindReason(bps[i].kind)
           /\ ~trapped => /\ pc' = pc
                          /\ bp_addr' = IF recoil_mode = "NONE" THEN bp_addr ELSE 0
<1>1. /\ TypeInv /\ Flow /\ bps \in Bps /\ pc \in Addr /\ ~Signals /\ ~swstep
      /\ Saved /\ Known /\ Clean /\ Single /\ Trapping
    BY SessionTop DEF Hardware
<1>2. event = "TRAP"
    BY <1>1 DEF Clean, r_debug_wait
<1>3. event' = "none" /\ mem' = Code /\ signum' = "TRAP"
    BY <1>1, <1>2, WaitBytes
<1>4. r_debug_bp_hit
    BY <1>2 DEF r_debug_wait
<1>5. CASE trapped
    <2>1. recoil_mode = "NONE" /\ Standing(pc - 1)
        BY <1>1, <1>5 DEF Trapping
    <2>2. HitPos = r_bp_get_at(bps, pc - 1)
        BY <2>1 DEF HitPos, Recoiling
    <2>3. PICK i \in 1 .. Len(bps) : i = HitPos /\ HitPos # NoPos /\ bps[i].addr = pc - 1
        BY <1>1, <2>1, <2>2, GetAt DEF Standing
    <2>4. ~bps[i].swstep
        BY <1>1 DEF Single
    <2>5. pc' = pc - 1 /\ trapped' = FALSE /\ bp_addr' = bps[i].addr
        BY <1>4, <2>1, <2>3, <2>4 DEF r_debug_bp_hit, Recoiling
    <2>6. WaitReason = KindReason(bps[i].kind)
        BY <1>2, <2>3 DEF WaitReason, r_debug_native_wait
    <2>7. bps[i].addr # 0
        <3>1. bps[i].addr \in Prog
            BY <1>1, ItemAt
        <3> QED  BY <3>1, ProgAssumption
    <2> QED  BY <1>2, <1>3, <1>5, <2>3, <2>5, <2>6, <2>7
<1>6. CASE ~trapped
    <2>1. CASE recoil_mode # "NONE"
        <3>1. bp_addr' = 0 /\ pc' = pc /\ trapped' = trapped
            BY <1>1, <1>4, <2>1 DEF r_debug_bp_hit, Recoiling
        <3> QED  BY <1>2, <1>3, <1>6, <2>1, <3>1
    <2>2. CASE recoil_mode = "NONE"
        <3>1. HitPos = r_bp_get_at(bps, pc - 1)
            BY <2>2 DEF HitPos, Recoiling
        <3>2. ~Standing(pc - 1)
            BY <1>1, <1>2, <1>6, <2>2 DEF Trapping
        <3>3. HitPos = NoPos
            BY <1>1, <3>1, <3>2, GetAt DEF Standing
        <3>4. bp_addr' = bp_addr /\ pc' = pc /\ trapped' = trapped
            BY <1>4, <2>2, <3>3 DEF r_debug_bp_hit, Recoiling
        <3> QED  BY <1>2, <1>3, <1>6, <2>2, <3>4
    <2> QED  BY <2>1, <2>2
<1> QED  BY <1>5, <1>6


LEMMA CalmKeeps ==
    ASSUME InSession, ~Dead, event = "none", UNCHANGED <<bps, event, trapped>>
    PROVE  Single' /\ Trapping' /\ ~trapped
<1>1. Single /\ Trapping
    BY SessionTop
<1>2. ~trapped
    BY <1>1 DEF Trapping
<1>3. Trapping'
    BY <1>2 DEF Trapping
<1> QED  BY <1>1, <1>2, <1>3 DEF Single

LEMMA StepAlive ==
    ASSUME InSession, ~Dead,
           r_debug_step \/ StepReturn \/ StepHardEnter \/ StepHardRecoiled \/ StepHardGo
    PROVE  Alive'
<1>1. /\ Running /\ Hardware /\ Flow /\ Modes /\ ~Signals /\ Clean /\ Bytes /\ Hits /\ Goes
      /\ P[1] # "prompt" => StandsOn(P[1], P[2])
    BY SessionTop
<1>2. UNCHANGED <<pc, mem, event, bps, bp_addr, trapped, moved>>
    BY DEF r_debug_step, StepReturn, StepHardEnter, StepHardRecoiled, StepHardGo,
           Quiet, inferior, history
<1>3. Armed => Armed'
    BY <1>2 DEF Armed
<1>4. ASSUME event = "none" PROVE Single' /\ Trapping'
    BY <1>2, <1>4, CalmKeeps
<1>5. ASSUME Nested => Nested' PROVE Ready => Ready'
    BY <1>2, <1>5, ReadySame
<1>6. ASSUME r_debug_step PROVE Alive'
    <2>1. P[1] = "step" /\ CallP("step_ret", "hard")
        BY <1>1, <1>6, StepMoves
    <2>2. event = "none" /\ proc # "stepping" /\ proc' = proc
        BY <1>1, <1>6, <2>1 DEF Flow, r_debug_step, Quiet, inferior
    <2>3. Ready'
        BY <1>1, <1>5, <2>1, NestedCall DEF Goes
    <2>4. P'[1] = "hard" /\ P'[3] = P[2]
        BY <2>1 DEF CallP
    <2>5. Bytes' /\ Hits' /\ Goes'
        BY <1>1, <1>2, <2>1, <2>2, <2>3, <2>4 DEF Bytes, Hits, Goes
    <2> QED  BY <1>4, <2>2, <2>5 DEF Alive
<1>7. ASSUME StepReturn PROVE Alive'
    <2>1. P[1] = "step_ret" /\ ReturnP
        BY <1>1, <1>7, StepReturnMoves
    <2>2. event = "none" /\ proc # "stepping" /\ proc' = proc
        BY <1>1, <1>7, <2>1 DEF Flow, StepReturn, Quiet, inferior
    <2>3. P'[1] = P[2] /\ P[2] \in {"recoil_stepped", "cont", "prompt"}
        BY <1>1, <2>1 DEF ReturnP, StandsOn
    <2>4. mem = Code /\ (P[2] # "prompt" => bp_addr = 0)
        BY <1>1, <2>1 DEF Clean, Hits
    <2>5. Bytes' /\ Hits' /\ Goes'
        BY <1>2, <2>2, <2>3, <2>4 DEF Bytes, Hits, Goes
    <2> QED  BY <1>4, <2>2, <2>5 DEF Alive
<1>8. ASSUME StepHardEnter PROVE Alive'
    <2>1. /\ P[1] = "hard"
          /\ recoil_mode = "NONE" => CallP("hard_recoiled", "recoil")
          /\ recoil_mode # "NONE" => GotoP("hard_go")
        BY <1>1, <1>8, HardEnterMoves
    <2>2. event = "none" /\ proc # "stepping" /\ proc' = proc /\ recoil_mode' = recoil_mode
        BY <1>1, <1>8, <2>1 DEF Flow, StepHardEnter, Quiet, inferior
    <2>3. Ready'
        BY <1>1, <1>5, <2>1, NestedCall, NestedGoto DEF Goes
    <2>4. CASE recoil_mode = "NONE"
        <3>1. P'[1] = "recoil" /\ P'[4] = P[3]
            BY <2>1, <2>4 DEF CallP
        <3>2. Bytes' /\ Hits' /\ Goes'
            BY <1>1, <1>2, <2>1, <2>2, <2>3, <3>1 DEF Bytes, Hits, Goes
        <3> QED  BY <1>4, <2>2, <3>2 DEF Alive
    <2>5. CASE recoil_mode # "NONE"
        <3>1. P'[1] = "hard_go"
            BY <2>1, <2>5 DEF GotoP
        <3>2. Bytes' /\ Hits' /\ Goes'
            BY <1>1, <1>2, <2>1, <2>2, <2>3, <2>5, <3>1 DEF Bytes, Hits, Goes
        <3> QED  BY <1>4, <2>2, <3>2 DEF Alive
    <2> QED  BY <2>4, <2>5
<1>9. ASSUME StepHardRecoiled PROVE Alive'
    <2>1. P[1] = "hard_recoiled" /\ ret
        BY <1>1, <1>9, HardRecoiledMoves DEF Flow
    <2>2. event = "none" /\ proc # "stepping" /\ proc' = proc /\ P[2] = "step_ret"
        BY <1>1, <1>9, <2>1 DEF Flow, StepHardRecoiled, inferior, StandsOn
    <2>3. /\ recoil_mode = "STEP" => ReturnP
          /\ recoil_mode # "STEP" => GotoP("hard_go") /\ recoil_mode' = recoil_mode
        BY <1>1, <1>9, <2>1, HardRecoiledMoves
    <2>4. CASE recoil_mode = "STEP"
        <3>1. P'[1] = "step_ret"
            BY <2>2, <2>3, <2>4 DEF ReturnP
        <3>2. bp_addr = 0
            BY <1>1, <2>1, <2>4 DEF Hits
        <3>3. Bytes' /\ Hits' /\ Goes'
            BY <1>2, <2>2, <3>1, <3>2 DEF Bytes, Hits, Goes
        <3> QED  BY <1>4, <2>2, <3>3 DEF Alive
    <2>5. CASE recoil_mode # "STEP"
        <3>1. P'[1] = "hard_go" /\ P'[3] = P[3] /\ recoil_mode' = recoil_mode
            BY <2>3, <2>5 DEF GotoP
        <3>2. recoil_mode = "NONE"
            BY <1>1, <2>1, <2>2, <2>5 DEF Modes
        <3>3. Ready'
            BY <1>1, <1>5, <2>1, <2>3, <2>5, <3>2, NestedGoto DEF Goes
        <3>4. Bytes' /\ Hits' /\ Goes'
            BY <1>1, <1>2, <1>3, <2>1, <2>2, <3>1, <3>2, <3>3 DEF Bytes, Hits, Goes
        <3> QED  BY <1>4, <2>2, <3>4 DEF Alive
    <2> QED  BY <2>4, <2>5
<1>10. ASSUME StepHardGo PROVE Alive'
    <2>1. P[1] = "hard_go" /\ GotoP("hard_wait")
        BY <1>1, <1>10, HardGoMoves DEF Running
    <2>2. event = "none" /\ recoil_mode' = recoil_mode
        BY <1>1, <1>10, <2>1 DEF Flow, StepHardGo
    <2>3. Ready'
        BY <1>1, <1>5, <2>1, NestedGoto DEF Goes
    <2>4. P'[1] = "hard_wait" /\ P'[3] = P[3]
        BY <2>1 DEF GotoP
    <2>5. Bytes' /\ Hits' /\ Goes'
        BY <1>1, <1>2, <1>3, <2>1, <2>2, <2>3, <2>4 DEF Bytes, Hits, Goes
    <2> QED  BY <1>4, <2>2, <2>5 DEF Alive
<1> QED  BY <1>6, <1>7, <1>8, <1>9, <1>10

LEMMA HardWaitAlive ==
    ASSUME InSession, ~Dead, StepHardWait
    PROVE  Alive'
<1>1. /\ Hardware /\ Flow /\ Single /\ Trapping /\ Bytes
      /\ P[1] # "prompt" => StandsOn(P[1], P[2])
    BY SessionTop
<1>2. UNCHANGED <<proc, bps, recoil_mode>> /\ r_debug_wait
    BY DEF StepHardWait
<1>3. P[1] = "hard_wait" /\ ReturnP
    BY <1>1, HardWaitMoves
<1>4. /\ event = "TRAP" /\ event' = "none" /\ ~trapped'
      /\ ~trapped => bp_addr' = IF recoil_mode = "NONE" THEN bp_addr ELSE 0
    BY <1>2, WaitHits
<1>5. P'[1] = "step_ret" /\ P'[2] = P[3] /\ proc # "stepping"
    BY <1>1, <1>3, <1>4 DEF ReturnP, StandsOn, Flow, Resumed
<1>6. P[3] # "prompt" => bp_addr' = 0
    BY <1>1, <1>3, <1>4 DEF Bytes, Trapping
<1>7. Single' /\ Trapping'
    BY <1>1, <1>2, <1>4 DEF Single, Trapping
<1>8. Bytes' /\ Hits' /\ Goes'
    BY <1>2, <1>5, <1>6 DEF Bytes, Hits, Goes
<1> QED  BY <1>7, <1>8 DEF Alive

LEMMA RecoilAlive ==
    ASSUME InSession, ~Dead, RecoilEnter \/ RecoilStepped
    PROVE  Alive'
<1>1. /\ Running /\ Hardware /\ Flow /\ Modes /\ Bytes /\ Hits /\ Goes
      /\ P[1] # "prompt" => StandsOn(P[1], P[2])
      /\ P[2] # "prompt" => StandsOn(P[2], P[3])
      /\ P[3] # "prompt" => StandsOn(P[3], P[4])
      /\ P[4] # "recoil_stepped"
    BY SessionTop
<1>2. UNCHANGED <<pc, proc, event, bps, bp_addr, trapped, moved>>
    BY DEF RecoilEnter, RecoilStepped, history
<1>3. P[1] \in {"recoil", "recoil_stepped"}
    BY <1>1, RecoilMoves, RecoilSteppedMoves
<1>4. event = "none" /\ proc # "stepping" /\ P[2] \in {"hard_recoiled", "cont_recoiled"}
    BY <1>1, <1>3 DEF Flow, StandsOn
<1>5. Single' /\ Trapping'
    BY <1>2, <1>4, CalmKeeps
<1>6. ASSUME Nested => Nested' PROVE Ready => Ready'
    BY <1>2, <1>6, ReadySame
<1>7. ASSUME RecoilEnter PROVE Alive'
    <2>1. P[1] = "recoil" /\ recoil_mode = "NONE"
        BY <1>1, <1>7, RecoilMoves DEF Modes
    <2>2. CASE bp_addr = 0
        <3>1. ReturnP /\ Armed' /\ recoil_mode' = "NONE"
            BY <1>1, <1>2, <1>7, <2>2, RecoilMoves, EnableArms
        <3>2. P'[1] = P[2] /\ P'[3] = P[4]
            BY <3>1 DEF ReturnP
        <3>3. P[2] = "hard_recoiled" => P[4] = "prompt" /\ Ready'
            <4>1. P[2] = "hard_recoiled" => P[3] = "step_ret"
                BY <1>1 DEF StandsOn
            <4>2. P[2] = "hard_recoiled" => P[4] = "prompt"
                BY <1>1, <2>1, <2>2, <4>1 DEF StandsOn, Hits
            <4>3. P[2] = "hard_recoiled" => Ready'
                BY <1>1, <1>6, <2>1, <3>1, NestedReturn DEF Goes
            <4> QED  BY <4>2, <4>3
        <3>4. Bytes' /\ Hits' /\ Goes'
            BY <1>2, <1>4, <3>1, <3>2, <3>3 DEF Bytes, Hits, Goes
        <3> QED  BY <1>5, <3>4 DEF Alive
    <2>3. CASE bp_addr # 0
        <3>1. CallP("recoil_stepped", "step") /\ mem' = mem
            BY <1>1, <1>7, <2>1, <2>3, RecoilMoves
        <3>2. P'[1] = "step" /\ P'[2] = "recoil_stepped"
            BY <3>1 DEF CallP
        <3>3. Ready'
            BY <1>1, <1>6, <2>1, <2>3, <3>1, NestedCall DEF Goes
        <3>4. Bytes' /\ Hits' /\ Goes'
            BY <1>1, <1>2, <1>4, <2>1, <3>1, <3>2, <3>3 DEF Bytes, Hits, Goes
        <3> QED  BY <1>5, <3>4 DEF Alive
    <2> QED  BY <2>2, <2>3
<1>8. ASSUME RecoilStepped PROVE Alive'
    <2>1. P[1] = "recoil_stepped" /\ ReturnP /\ ret
        BY <1>1, <1>8, RecoilSteppedMoves DEF Flow
    <2>2. bp_addr = 0 /\ recoil_mode = ModeOf(P[2]) /\ P'[1] = P[2]
        BY <1>1, <2>1 DEF Hits, Modes, ReturnP
    <2>3. CASE P[2] = "hard_recoiled"
        <3>1. recoil_mode' = "STEP"
            BY <1>1, <1>8, <2>1, <2>2, <2>3, RecoilSteppedMoves DEF ModeOf
        <3>2. Bytes' /\ Hits' /\ Goes'
            BY <1>2, <1>4, <2>2, <2>3, <3>1 DEF Bytes, Hits, Goes
        <3> QED  BY <1>5, <3>2 DEF Alive
    <2>4. CASE P[2] = "cont_recoiled"
        <3>1. Bytes' /\ Hits' /\ Goes'
            BY <1>2, <1>4, <2>2, <2>4 DEF Bytes, Hits, Goes
        <3> QED  BY <1>5, <3>1 DEF Alive
    <2> QED  BY <1>4, <2>3, <2>4
<1> QED  BY <1>7, <1>8


LEMMA ContAlive ==
    ASSUME InSession, ~Dead, ContRepeat \/ ContGo
    PROVE  Alive'
<1>1. /\ Running /\ Hardware /\ Flow /\ Bytes /\ Goes /\ stack \in Seq(Frame)
      /\ P[1] # "prompt" => StandsOn(P[1], P[2])
      /\ P[2] # "prompt" => StandsOn(P[2], P[3])
    BY SessionTop, HwStack
<1>2. UNCHANGED <<pc, mem, event, bps, bp_addr, trapped, moved>>
    BY DEF ContRepeat, ContGo, Quiet, inferior, history
<1>3. P[1] \in {"cont", "cont_recoiled"}
    BY <1>1, ContMoves, ContGoMoves
<1>4. event = "none" /\ proc # "stepping"
    BY <1>1, <1>3 DEF Flow
<1>5. Single' /\ Trapping'
    BY <1>2, <1>4, CalmKeeps
<1>6. ASSUME ContRepeat PROVE Alive'
    <2>1. P[1] = "cont" /\ CallP("cont_recoiled", "recoil") /\ proc' = proc
        BY <1>1, <1>6, ContMoves DEF ContRepeat, Quiet, inferior
    <2>2. P'[1] = "recoil" /\ P'[2] = "cont_recoiled" /\ P'[4] = P[3]
        BY <2>1 DEF CallP
    <2>3. P[3] = "prompt"
        <3>1. P[2] \in {"until_loop", "dcu_ret", "prompt"}
            BY <1>1, <2>1 DEF StandsOn
        <3>2. P[2] = "prompt" => P[3] = "prompt"
            <4>1. 3 \in Nat \ {0} /\ 2 \in Nat \ {0} /\ 3 >= 2
                OBVIOUS
            <4> QED  BY <1>1, <4>1, BelowPrompt
        <3> QED  BY <1>1, <3>1, <3>2 DEF StandsOn
    <2>4. bp_addr # 0 => Ready'
        <3>1. Nested => Nested'
            BY <2>1, NestedCall
        <3> QED  BY <1>1, <1>2, <2>1, <3>1, ReadySame DEF Goes
    <2>5. Bytes' /\ Hits' /\ Goes'
        BY <1>1, <1>2, <1>4, <2>1, <2>2, <2>3, <2>4 DEF Bytes, Hits, Goes
    <2> QED  BY <1>5, <2>5 DEF Alive
<1>7. ASSUME ContGo PROVE Alive'
    <2>1. P[1] = "cont_recoiled"
        BY <1>1, <1>7, ContGoMoves
    <2>2. GotoP("cont_wait") /\ proc' = "running"
        BY <1>1, <1>7, <2>1, ContGoMoves DEF Flow
    <2>3. P'[1] = "cont_wait"
        BY <2>2 DEF GotoP
    <2>4. Bytes' /\ Hits' /\ Goes'
        BY <2>2, <2>3 DEF Bytes, Hits, Goes
    <2> QED  BY <1>5, <2>4 DEF Alive
<1> QED  BY <1>6, <1>7

\* A continuation that goes on from a stop stands on a tracepoint or on a
\* breakpoint with a condition.
LEMMA ContWaitAlive ==
    ASSUME InSession, ~Dead, ContWait
    PROVE  Alive'
<1>1. /\ Running /\ Hardware /\ Flow /\ Single /\ Trapping
      /\ P[1] # "prompt" => StandsOn(P[1], P[2])
    BY SessionTop
<1>2. UNCHANGED <<proc, bps, recoil_mode, moved>> /\ r_debug_wait
    BY DEF ContWait
<1>3. P[1] = "cont_wait"
    BY <1>1, ContWaitMoves
<1>4. event = "TRAP" /\ event' = "none" /\ mem' = Code /\ signum' = "TRAP" /\ ~trapped'
    BY <1>2, WaitHits
<1>5. trapped
    BY <1>1, <1>3, <1>4 DEF Trapping
<1>6. PICK i \in 1 .. Len(bps) : /\ bps[i].addr = pc' /\ bp_addr' # 0
                                 /\ WaitReason = KindReason(bps[i].kind)
    BY <1>2, <1>5, WaitHits
<1>7. proc # "stepping"
    BY <1>1, <1>3 DEF Flow
<1>8. Single' /\ Trapping'
    BY <1>1, <1>2, <1>4 DEF Single, Trapping
<1>9. bps[i].kind = "break" => WaitReason \notin {"TRACEPOINT", "COND"}
    BY <1>6 DEF KindReason
<1>10. ASSUME WaitReason \in {"TRACEPOINT", "COND"}, Nested => Nested' PROVE Ready'
    <2>1. Nested'
        BY <1>1, <1>3, <1>10, ContNested
    <2>2. \A j \in 1 .. Len(bps) : bps[j].addr = pc' => j = i
        BY <1>6 DEF InSession, MineInv, Listed
    <2>3. \A j \in 1 .. Len(bps) : bps[j].addr = pc' => bps[j].kind # "break"
        BY <1>9, <1>10, <2>2
    <2> QED  BY <1>2, <2>1, <2>3 DEF Ready
<1>11. \/ ReturnP
       \/ WaitReason = "TRACEPOINT" /\ CallP("cont", "step")
       \/ WaitReason = "COND" /\ GotoP("cont")
    BY <1>1, <1>4, ContWaitMoves
<1>12. CASE ReturnP
    <2>1. P'[1] \in {"until_loop", "dcu_ret", "prompt"}
        BY <1>1, <1>3, <1>12 DEF ReturnP, StandsOn
    <2>2. Standing(pc)'
        BY <1>2, <1>6 DEF Standing
    <2>3. Bytes' /\ Hits' /\ Goes'
        BY <1>2, <1>7, <2>1, <2>2 DEF Bytes, Hits, Goes
    <2> QED  BY <1>8, <2>3 DEF Alive
<1>13. CASE WaitReason = "TRACEPOINT" /\ CallP("cont", "step")
    <2>1. P'[1] = "step" /\ P'[2] = "cont"
        BY <1>13 DEF CallP
    <2>2. Ready'
        BY <1>10, <1>13, NestedCall
    <2>3. Bytes' /\ Hits' /\ Goes'
        BY <1>2, <1>4, <1>6, <1>7, <2>1, <2>2 DEF Bytes, Hits, Goes
    <2> QED  BY <1>8, <2>3 DEF Alive
<1>14. CASE WaitReason = "COND" /\ GotoP("cont")
    <2>1. P'[1] = "cont"
        BY <1>14 DEF GotoP
    <2>2. Ready'
        BY <1>10, <1>14, NestedGoto
    <2>3. Bytes' /\ Hits' /\ Goes'
        BY <1>2, <1>4, <1>7, <2>1, <2>2 DEF Bytes, Hits, Goes
    <2> QED  BY <1>8, <2>3 DEF Alive
<1> QED  BY <1>11, <1>12, <1>13, <1>14

\* What the items of a list have in common after it is changed.
LEMMA SingleAdd ==
    ASSUME Single, bps \in Bps, mem \in Mems, NEW a \in Prog,
           NEW kind \in {"break", "trace", "cond"}, NEW sw \in BOOLEAN, ~sw,
           bps' = WithBp(bps, a, kind, sw)
    PROVE  Single'
<1>1. Len(bps) \in Nat
    BY BpsSeq
<1>2. PICK t : t = WithBp(bps, a, kind, sw)
    OBVIOUS
<1>3. /\ (\E i \in 1 .. Len(bps) : bps[i].addr = a) => t = bps
      /\ (\A i \in 1 .. Len(bps) : bps[i].addr # a) =>
            /\ Len(t) = Len(bps) + 1 /\ \A i \in 1 .. Len(bps) : t[i] = bps[i]
            /\ t[Len(bps) + 1].swstep = sw
    BY <1>1, <1>2, WithBpItems
<1>4. \A i \in 1 .. Len(t) : ~t[i].swstep
    <2>1. CASE t = bps
        BY <2>1 DEF Single
    <2>2. CASE \A i \in 1 .. Len(bps) : bps[i].addr # a
        <3>1. \A i \in 1 .. Len(t) : i \in 1 .. Len(bps) \/ i = Len(bps) + 1
            BY <1>1, <1>3, <2>2
        <3>2. \A i \in 1 .. Len(bps) : ~t[i].swstep
            BY <1>3, <2>2 DEF Single
        <3>3. ~t[Len(bps) + 1].swstep
            BY <1>3, <2>2, Zenon
        <3> QED  BY <3>1, <3>2, <3>3, Zenon
    <2> QED  BY <1>3, <2>1, <2>2
<1>5. t = bps'
    BY <1>2
<1> QED  BY <1>4, <1>5 DEF Single

LEMMA SingleFewer ==
    ASSUME Single, \A j \in 1 .. Len(bps') : \E i \in 1 .. Len(bps) : bps'[j] = bps[i]
    PROVE  Single'
BY DEF Single

LEMMA UntilAlive ==
    ASSUME InSession, ~Dead, UntilEnter \/ UntilLoop \/ DcuEnter \/ DcuReturn
    PROVE  Alive'
<1>1. /\ Running /\ Hardware /\ Flow /\ Clean /\ Single /\ Trapping /\ Goes
      /\ bps \in Bps /\ mem \in Mems
      /\ P[1] # "prompt" => StandsOn(P[1], P[2])
      /\ P[1] \in {"until", "dcu"} => ~moved
    BY SessionTop
<1>2. UNCHANGED <<pc, mem, proc, event, trapped, moved>>
    BY DEF UntilEnter, UntilLoop, DcuEnter, DcuReturn, inferior, history
<1>3. P[1] \in {"until", "until_loop", "dcu", "dcu_ret"} /\ P[2] = "prompt"
    BY <1>1, UntilMoves, UntilLoopMoves, DcuMoves, DcuReturnMoves DEF StandsOn
<1>4. mem = Code /\ event = "none" /\ proc # "stepping" /\ ~trapped
    BY <1>1, <1>3 DEF Clean, Flow, Trapping
<1>5. Single'
    <2>1. /\ stack[1].tmp \in Seq(Addr)
          /\ \/ bps' = bps
             \/ /\ stack[1].to \in Prog
                /\ bps' = WithBp(bps, stack[1].to, "break", FALSE)
             \/ bps' = WithoutTmp(bps, stack[1].tmp)
        BY <1>1, UntilList
    <2>2. CASE bps' = bps
        BY <1>1, <2>2 DEF Single
    <2>3. CASE stack[1].to \in Prog /\ bps' = WithBp(bps, stack[1].to, "break", FALSE)
        <3>1. FALSE \in BOOLEAN /\ ~FALSE
            OBVIOUS
        <3> QED  BY <1>1, <2>3, <3>1, SingleAdd
    <2>4. CASE bps' = WithoutTmp(bps, stack[1].tmp)
        <3>1. \A j \in 1 .. Len(bps') : \E i \in 1 .. Len(bps) : bps'[j] = bps[i]
            BY <1>1, <2>1, <2>4, WithoutTmpOne
        <3> QED  BY <1>1, <3>1, SingleFewer
    <2> QED  BY <2>1, <2>2, <2>3, <2>4
<1>6. Trapping'
    BY <1>2, <1>4 DEF Trapping
<1>7. \/ ReturnP
      \/ GotoP("until_loop") /\ ~moved
      \/ (\E x : CallP(x, "cont")) /\ ~moved
    <2>1. CASE UntilEnter
        BY <1>1, <2>1, UntilMoves
    <2>2. CASE UntilLoop
        <3>1. P[1] = "until_loop" /\ (ReturnP \/ CallP("until_loop", "cont"))
            BY <1>1, <2>2, UntilLoopMoves
        <3>2. ReturnP \/ ~moved
            <4>1. CASE moved
                <5>1. r_bp_get_at(bps, pc) # NoPos
                    BY <1>1, <3>1, <4>1, GetAt DEF Goes, Standing
                <5>2. Return(TRUE)
                    BY <2>2, <5>1 DEF UntilLoop
                <5>3. stack \in Seq(Frame) /\ stack # << >>
                    BY <1>1, <2>2, HwStack, AtPlace DEF UntilLoop
                <5> QED  BY <5>2, <5>3, ReturnPlaces
            <4> QED  BY <4>1
        <3> QED  BY <3>1, <3>2
    <2>3. CASE DcuEnter
        BY <1>1, <2>3, DcuMoves
    <2>4. CASE DcuReturn
        BY <1>1, <2>4, DcuReturnMoves
    <2> QED  BY <2>1, <2>2, <2>3, <2>4
<1>8. CASE ReturnP
    <2>1. P'[1] = "prompt"
        BY <1>3, <1>8 DEF ReturnP
    <2>2. Bytes' /\ Hits' /\ Goes'
        BY <1>2, <1>4, <2>1 DEF Bytes, Hits, Goes
    <2> QED  BY <1>5, <1>6, <2>2 DEF Alive
<1>9. CASE GotoP("until_loop") /\ ~moved
    <2>1. P'[1] = "until_loop"
        BY <1>9 DEF GotoP
    <2>2. Bytes' /\ Hits' /\ Goes'
        BY <1>2, <1>4, <1>9, <2>1 DEF Bytes, Hits, Goes
    <2> QED  BY <1>5, <1>6, <2>2 DEF Alive
<1>10. CASE (\E x : CallP(x, "cont")) /\ ~moved
    <2>1. P'[1] = "cont"
        BY <1>10 DEF CallP
    <2>2. Ready'
        BY <1>2, <1>10 DEF Ready
    <2>3. Bytes' /\ Hits' /\ Goes'
        BY <1>2, <1>4, <2>1, <2>2 DEF Bytes, Hits, Goes
    <2> QED  BY <1>5, <1>6, <2>3 DEF Alive
<1> QED  BY <1>7, <1>8, <1>9, <1>10


LEMMA UserAlive ==
    ASSUME InSession, ~Dead, User
    PROVE  Alive'
<1>1. /\ Hardware /\ TypeInv /\ Flow /\ Clean /\ Single /\ Trapping /\ bps \in Bps /\ mem \in Mems
      /\ use \in Uses /\ BpAddrs \subseteq Prog
    BY SessionTop, ProgAssumption DEF TypeInv, RestOK
<1>2. ASSUME Commands PROVE Alive'
    <2>1. /\ P[1] = "prompt" /\ P'[1] \in {"step", "cont", "until", "dcu"} /\ P'[2] = "prompt"
          /\ moved' = FALSE /\ UNCHANGED <<mem, proc, event, bps, trapped>>
        <3>1. 2 \in Deeper
            BY DEF Deeper
        <3> QED  BY <1>1, <1>2, <3>1, CommandMoves
    <2>2. event = "none" /\ proc # "stepping" /\ mem = Code
        BY <1>1, <2>1 DEF Flow, Clean
    <2>3. Single' /\ Trapping'
        BY <2>1, <2>2, CalmKeeps
    <2>4. Ready'
        BY <2>1 DEF Ready
    <2>5. Bytes' /\ Hits' /\ Goes'
        BY <2>1, <2>2, <2>4 DEF Bytes, Hits, Goes
    <2> QED  BY <2>3, <2>5 DEF Alive
<1>3. ASSUME Settings PROVE Alive'
    <2>1. P[1] = "prompt" /\ P' = P /\ UNCHANGED <<proc, event>>
        BY <1>1, <1>3, SettingMoves
    <2>2. event = "none" /\ proc # "stepping" /\ ~trapped
        BY <1>1, <2>1 DEF Flow, Trapping
    <2>3. ~trapped'
        BY <1>3, <2>2 DEF Settings, CmdAdd, CmdDel, CmdEnable, CmdSetPc, CmdConfig
    <2>4. Trapping'
        BY <2>1, <2>2, <2>3 DEF Trapping
    <2>5. Single'
        <3>1. CASE bps' = bps
            BY <1>1, <3>1 DEF Single
        <3>2. ASSUME NEW a \in BpAddrs, NEW kind \in use.kinds, bps' = WithBp(bps, a, kind, FALSE)
              PROVE  Single'
            <4>1. a \in Prog /\ kind \in {"break", "trace", "cond"}
                BY <1>1, UseType
            <4>2. FALSE \in BOOLEAN /\ ~FALSE
                OBVIOUS
            <4> QED  BY <1>1, <3>2, <4>1, <4>2, SingleAdd
        <3>3. ASSUME NEW a \in BpAddrs, bps' = WithoutBp(bps, a) PROVE Single'
            <4>1. \A j \in 1 .. Len(bps') : \E i \in 1 .. Len(bps) : bps'[j] = bps[i]
                BY <1>1, <3>3, DeletedItems
            <4> QED  BY <1>1, <4>1, SingleFewer
        <3>4. CASE /\ Len(bps') = Len(bps)
                   /\ \A j \in 1 .. Len(bps) : bps'[j].swstep = bps[j].swstep
            BY <1>1, <3>4, Zenon DEF Single
        <3> QED  BY <1>1, <1>3, <3>1, <3>2, <3>3, <3>4, SettingList
    <2>6. Bytes' /\ Hits' /\ Goes'
        BY <2>1, <2>2 DEF Bytes, Hits, Goes
    <2> QED  BY <2>4, <2>5, <2>6 DEF Alive
<1> QED  BY <1>2, <1>3, UserCases

\* In a step of the user all items of the list are the user's.
LEMMA StepList ==
    ASSUME InSession, P[1] = "hard_wait", P[3] = "prompt"
    PROVE  \A i \in 1 .. Len(bps) : bps[i].addr \in BpAddrs
<1>1. /\ stack \in Seq(Frame) /\ StandsOn(P[1], P[2]) /\ mine \subseteq BpAddrs
      /\ TmpShape /\ Listed /\ bps \in Bps
    BY SessionTop, HwStack DEF InSession, MineInv, TypeInv, RestOK
<1>2. P[2] = "step_ret"
    BY <1>1 DEF StandsOn
<1>3. ASSUME NEW i \in Nat \ {0} PROVE T[i] = << >>
    <2>1. CASE i \in {1, 2}
        BY <1>1, <1>2, <2>1 DEF TmpShape
    <2>2. CASE i \notin {1, 2}
        <3>1. i >= 3 /\ 3 \in Nat \ {0}
            BY <2>2
        <3> QED  BY <1>1, <3>1, BelowPrompt
    <2> QED  BY <2>1, <2>2
<1>4. \A a : <<a>> # << >>
    OBVIOUS
<1>5. \A a : ~Tmp(a)
    BY <1>3, <1>4 DEF Tmp
<1>6. \A i \in 1 .. Len(bps) : bps[i].addr \in Prog
    BY <1>1 DEF Bps
<1> QED  BY <1>1, <1>5, <1>6 DEF Listed

\* The traps of a running debuggee stop it, and it executes nothing else that a
\* breakpoint is at.
LEMMA InferiorAlive ==
    ASSUME InSession, ~Dead, NoJumpBehind, Inferior, ~Dead'
    PROVE  Alive'
<1>1. /\ Running /\ Hardware /\ Flow /\ Modes /\ Known /\ Single /\ Trapping /\ Bytes /\ Goes
      /\ bps \in Bps /\ pc \in Addr
      /\ P[1] # "prompt" => StandsOn(P[1], P[2])
      /\ P[2] # "prompt" => StandsOn(P[2], P[3])
    BY SessionTop
<1>2. UNCHANGED <<mem, bps, recoil_mode, bp_addr, stack>> /\ Resumed
    BY DEF Inferior, Exec, ExecTrap, Interrupt, Die, control
<1>3. /\ P' = P /\ event = "none" /\ ~trapped
      /\ \/ proc = "stepping" /\ P[1] = "hard_wait"
         \/ proc = "running" /\ P[1] = "cont_wait"
    BY <1>1, <1>2, SamePlaces DEF Flow, Resumed, Trapping
<1>4. Single' /\ (Armed => Armed')
    BY <1>1, <1>2 DEF Single, Armed
<1>5. Exec \/ ExecTrap
    <2>1. ~Die
        BY DEF Die, Dead
    <2>2. ~(\E e \in use.events : Interrupt(e))
        BY DEF InSession, Interrupt
    <2> QED  BY <2>1, <2>2 DEF Inferior
<1>6. proc' # "stepping"
    BY <1>3, <1>5 DEF Exec, ExecTrap, Stop
<1>7. Bytes' /\ Hits' /\ Goes'
    BY <1>1, <1>2, <1>3, <1>4, <1>6 DEF Bytes, Hits, Goes
<1>8. Trapping'
    <2>1. CASE Exec
        <3>1. trapped' = trapped /\ mem[pc] # Trap /\ pc \in Prog /\ pc' \in Succ[pc]
            BY <2>1 DEF Exec
        <3>2. CASE proc = "running"
            <4>1. event' = "none"
                BY <1>3, <2>1, <3>2 DEF Exec
            <4> QED  BY <1>3, <3>1, <4>1 DEF Trapping
        <3>3. CASE proc = "stepping"
            <4>1. event' = "TRAP" /\ P[1] = "hard_wait"
                BY <1>3, <2>1, <3>3 DEF Exec, Stop
            <4>2. ASSUME recoil_mode = "NONE" PROVE ~Standing(pc - 1)'
                <5>1. Armed /\ P[3] = "prompt"
                    BY <1>1, <4>1, <4>2 DEF Bytes
                <5>2. ASSUME NEW i \in 1 .. Len(bps), bps[i].addr = pc' - 1 PROVE FALSE
                    <6>1. pc' - 1 \in BpAddrs
                        BY <4>1, <5>1, <5>2, StepList
                    <6>2. pc' - 1 = pc
                        BY <3>1, <6>1 DEF NoJumpBehind
                    <6> QED  BY <3>1, <5>1, <5>2, <6>2 DEF Armed
                <5> QED  BY <1>2, <5>2 DEF Standing
            <4> QED  BY <1>2, <1>3, <3>1, <4>1, <4>2 DEF Trapping
        <3> QED  BY <1>3, <3>2, <3>3
    <2>2. CASE ExecTrap
        <3>1. mem[pc] = Trap /\ pc' = pc + 1 /\ event' = "TRAP" /\ trapped'
            BY <2>2 DEF ExecTrap, Stop
        <3>2. Trap # pc
            BY <1>1 DEF Trap, Addr
        <3>3. recoil_mode = "NONE"
            <4>1. CASE recoil_mode # "NONE"
                <5>1. P[1] = "hard_wait"
                    BY <1>1, <1>3, <4>1 DEF Modes, StandsOn
                <5>2. mem = Code
                    BY <1>1, <4>1, <5>1 DEF Bytes
                <5> QED  BY <1>1, <3>1, <3>2, <5>2 DEF Code
            <4> QED  BY <4>1
        <3>4. PICK i \in 1 .. Len(bps) : bps[i].addr = pc
            BY <1>1, <3>1, <3>2 DEF Known
        <3>5. pc' - 1 = pc
            BY <1>1, <3>1 DEF Addr
        <3>6. Standing(pc - 1)'
            BY <1>2, <3>4, <3>5 DEF Standing
        <3> QED  BY <1>2, <3>1, <3>3, <3>6 DEF Trapping
    <2> QED  BY <1>5, <2>1, <2>2
<1> QED  BY <1>4, <1>7, <1>8 DEF Alive

LEMMA NoSkip ==
    ASSUME InSession, ContWait
    PROVE  P'[1] # "cont_skip"
<1>1. Hardware /\ (P[1] # "prompt" => StandsOn(P[1], P[2]))
    BY SessionTop
<1>2. P[1] = "cont_wait" /\ (ReturnP \/ CallP("cont", "step") \/ GotoP("cont") \/ signum' = "SIG")
    BY <1>1, ContWaitMoves
<1>3. CASE Dead
    <2>1. ReturnP
        BY <1>1, <1>3, ContWaitMoves
    <2> QED  BY <1>1, <1>2, <2>1 DEF ReturnP, StandsOn
<1>4. CASE ~Dead
    <2>1. signum' = "TRAP"
        BY <1>4, WaitHits DEF ContWait
    <2> QED  BY <1>1, <1>2, <2>1 DEF ReturnP, CallP, GotoP, StandsOn
<1> QED  BY <1>3, <1>4

LEMMA NextSession ==
    ASSUME InSession, NoJumpBehind, [Next]_vars
    PROVE  SessionInv'
<1>1. Running /\ (P[1] \in {"until", "dcu"} => ~moved) /\ P[1] # "cont_skip"
    BY SessionTop
<1>2. CASE UNCHANGED vars
    <2>1. UNCHANGED <<pc, mem, proc, event, bps, recoil_mode, bp_addr, stack, trapped, moved>>
        BY <1>2 DEF vars, inferior, control, history
    <2>2. P' = P
        BY <2>1, SamePlaces
    <2>3. ~Dead => Single /\ Trapping /\ Bytes /\ Hits /\ Goes
        BY SessionTop
    <2>4. ~Dead => Single' /\ Trapping'
        BY <2>1, <2>2, <2>3 DEF Single, Trapping, Standing
    <2>5. ~Dead => Bytes' /\ Hits'
        BY <2>1, <2>2, <2>3 DEF Bytes, Hits, Armed
    <2>6. ~Dead => Goes'
        BY <2>1, <2>2, <2>3 DEF Goes, Ready, Nested, Standing
    <2> QED  BY <1>1, <2>1, <2>2, <2>4, <2>5, <2>6 DEF SessionInv, Alive, Dead
<1>3. CASE Next
    <2>1. (P'[1] \in {"until", "dcu"} => ~moved') /\ P'[1] # "cont_skip"
        <3>1. CASE Inferior
            <4>1. UNCHANGED stack /\ Resumed
                BY <3>1 DEF Inferior, Exec, ExecTrap, Interrupt, Die, control
            <4>2. P'[1] \in {"hard_wait", "cont_wait"}
                BY <4>1, SamePlaces, SessionTop DEF Flow, Resumed
            <4> QED  BY <4>2
        <3>2. CASE Debugger
            BY <1>1, <3>2, Entries, NoSkip
        <3>3. CASE User
            BY <3>3, UserCases, CommandMoves, SettingMoves, SessionTop
        <3> QED  BY <1>3, <3>1, <3>2, <3>3 DEF Next
    <2>2. ASSUME ~Dead' PROVE Alive'
        <3>1. ~Dead
            BY <1>1, <1>3, <2>2, DeadStays
        <3>2. CASE Inferior
            BY <2>2, <3>1, <3>2, InferiorAlive
        <3>3. ~ContSkip
            BY ContSkipMoves, SessionTop
        <3>4. CASE Debugger
            BY <1>1, <3>1, <3>3, <3>4, SoftNever, StepAlive, HardWaitAlive, RecoilAlive, ContAlive,
               ContWaitAlive, UntilAlive DEF Debugger
        <3>5. CASE User
            BY <3>1, <3>5, UserAlive
        <3> QED  BY <1>3, <3>2, <3>4, <3>5 DEF Next
    <2> QED  BY <2>1, <2>2 DEF SessionInv
<1> QED  BY <1>2, <1>3


----------------------------------------------------------------------------
(* The refinement.  The command is read off the bottom of the stack.       *)

LEMMA CommandIs ==
    TypeInv => Command = IF P[1] = "prompt" THEN "idle" ELSE IF Nested THEN "run" ELSE "step"
<1> SUFFICES ASSUME TypeInv
             PROVE  Command = IF P[1] = "prompt" THEN "idle" ELSE IF Nested THEN "run" ELSE "step"
    OBVIOUS
<1>1. stack \in Seq(Frame) /\ (P[1] = "prompt" <=> Idle)
    BY IdlePlace DEF TypeInv, ControlOK
<1>2. CASE Idle
    BY <1>1, <1>2 DEF Command
<1>3. CASE ~Idle
    <2>1. PICK n \in Nat \ {0} : n = Len(stack)
        BY <1>1, <1>3 DEF Idle
    <2>2. P[n] = stack[n].at /\ P[n + 1] = "prompt"
        <3>1. n \in 1 .. Len(stack) /\ n + 1 \in Nat \ {0} /\ n + 1 > Len(stack)
            BY <2>1
        <3> QED  BY <1>1, <3>1, Place
    <2>3. P[n] \in {"step", "step_ret"} => ~Nested
        BY <2>2 DEF Nested
    <2>4. ASSUME ~Nested PROVE P[n] \in {"step", "step_ret"}
        <3>1. PICK i \in Nat \ {0} : P[i] \in {"step", "step_ret"} /\ P[i + 1] = "prompt"
            BY <2>4 DEF Nested
        <3>2. i + 1 \in Nat \ {0}
            OBVIOUS
        <3>3. ~(i > Len(stack)) /\ i + 1 > Len(stack)
            BY <1>1, <3>1, <3>2, Place
        <3>4. i = n
            BY <2>1, <3>3
        <3> QED  BY <3>1, <3>4
    <2>5. Command = IF P[n] \in {"step", "step_ret"} THEN "step" ELSE "run"
        BY <1>3, <2>1, <2>2 DEF Command
    <2> QED  BY <1>1, <1>3, <2>3, <2>4, <2>5
<1> QED  BY <1>2, <1>3

LEMMA CommandNext ==
    TypeInv' => Command' = IF P'[1] = "prompt" THEN "idle" ELSE IF Nested' THEN "run" ELSE "step"
<1>1. (TypeInv => Command = IF P[1] = "prompt" THEN "idle" ELSE IF Nested THEN "run" ELSE "step")'
    BY CommandIs, PTL
<1> QED  BY <1>1

\* A debugger step leaves the command, or ends it.
LEMMA UnnestedGoto ==
    ASSUME Nested', NEW x, P[1] \notin {"step", "step_ret"}, GotoP(x)
    PROVE  Nested
<1> SUFFICES ASSUME NEW i \in Nat \ {0}, P[i] \in {"step", "step_ret"}
             PROVE  P[i + 1] # "prompt"
    BY DEF Nested
<1>1. i \in Deeper /\ i + 1 \in Deeper
    BY DEF Deeper
<1> QED  BY <1>1 DEF GotoP, Nested

LEMMA UnnestedCall ==
    ASSUME Nested', NEW x, NEW y, CallP(x, y),
           P[1] \in {"step", "step_ret"} => x \in {"step", "step_ret"}
    PROVE  Nested
<1> SUFFICES ASSUME NEW i \in Nat \ {0}, P[i] \in {"step", "step_ret"}
             PROVE  P[i + 1] # "prompt"
    BY DEF Nested
<1>1. CASE i = 1
    <2>1. P'[2] = x /\ P'[3] = P[2]
        BY DEF CallP
    <2>2. P'[2] \in {"step", "step_ret"} => P'[2 + 1] # "prompt"
        BY DEF Nested
    <2> QED  BY <1>1, <2>1, <2>2
<1>2. CASE i # 1
    <2>1. i \in Deeper /\ i + 1 \in Deeper /\ i + 1 \in Nat \ {0}
        BY <1>2 DEF Deeper
    <2>2. P'[i + 1] = P[i] /\ P'[i + 1 + 1] = P[i + 1]
        BY <2>1 DEF CallP
    <2> QED  BY <2>1, <2>2 DEF Nested
<1> QED  BY <1>1, <1>2

LEMMA UnnestedReturn ==
    ASSUME Nested', ReturnP, P[2] # "prompt"
    PROVE  Nested
<1> SUFFICES ASSUME NEW i \in Nat \ {0}, P[i] \in {"step", "step_ret"}
             PROVE  P[i + 1] # "prompt"
    BY DEF Nested
<1>1. CASE i = 1
    BY <1>1
<1>2. CASE i # 1
    <2>1. PICK j \in Nat \ {0} : i = j + 1
        BY <1>2
    <2>2. j + 1 \in Nat \ {0}
        OBVIOUS
    <2>3. P'[j] = P[i] /\ P'[j + 1] = P[i + 1]
        BY <2>1, <2>2 DEF ReturnP
    <2> QED  BY <2>1, <2>3 DEF Nested
<1> QED  BY <1>1, <1>2

LEMMA DebuggerCommand ==
    ASSUME Running, TypeInv', Debugger
    PROVE  Command # "idle" /\ Command' \in {Command, "idle"}
<1>1. Hardware /\ TypeInv /\ Modes /\ "ERROR" \notin use.events
    BY RunTop DEF Running, Hardware
<1>2. ASSUME ReturnP PROVE P'[1] = "prompt" \/ (Nested' <=> Nested)
    BY <1>2, NestedReturn, UnnestedReturn DEF ReturnP
<1>3. ASSUME NEW x, GotoP(x), x \notin {"step", "step_ret"}, P[1] \notin {"step", "step_ret"}
      PROVE  Nested' <=> Nested
    BY <1>3, NestedGoto, UnnestedGoto
<1>4. ASSUME NEW x, NEW y, CallP(x, y), x # "prompt",
             x \in {"step", "step_ret"} <=> P[1] \in {"step", "step_ret"}
      PROVE  Nested' <=> Nested
    BY <1>4, NestedCall, UnnestedCall
<1>5. P[1] # "prompt" /\ (P'[1] = "prompt" \/ (Nested' <=> Nested))
    <2>1. CASE r_debug_step \/ StepReturn
        BY <1>1, <1>2, <1>4, <2>1, StepMoves, StepReturnMoves
    <2>2. CASE StepHardEnter
        BY <1>1, <1>2, <1>3, <1>4, <2>2, HardEnterMoves
    <2>3. CASE StepHardRecoiled
        BY <1>1, <1>2, <1>3, <2>3, HardRecoiledMoves
    <2>4. CASE StepHardGo \/ StepHardWait
        BY <1>1, <1>2, <1>3, <2>4, HardGoMoves, HardWaitMoves
    <2>5. CASE RecoilEnter \/ RecoilStepped
        BY <1>1, <1>2, <1>4, <2>5, RecoilMoves, RecoilSteppedMoves DEF Modes
    <2>6. CASE ContRepeat \/ ContGo
        BY <1>1, <1>2, <1>3, <1>4, <2>6, ContMoves, ContGoMoves
    <2>7. CASE ContWait
        <3>1. P[1] = "cont_wait" /\ (ReturnP \/ CallP("cont", "step") \/ GotoP("cont") \/ GotoP("cont_skip"))
            BY <1>1, <2>7, ContWaitMoves
        <3> QED  BY <1>2, <1>3, <1>4, <3>1
    <2>8. CASE ContSkip
        BY <1>1, <1>2, <1>3, <2>8, ContSkipMoves
    <2>9. CASE UntilEnter
        BY <1>1, <1>2, <1>3, <2>9, UntilMoves
    <2>10. CASE UntilLoop
        BY <1>1, <1>2, <1>4, <2>10, UntilLoopMoves
    <2>11. CASE DcuEnter \/ DcuReturn
        BY <1>1, <1>2, <1>4, <2>11, DcuMoves, DcuReturnMoves
    <2> QED  BY <2>1, <2>2, <2>3, <2>4, <2>5, <2>6, <2>7, <2>8, <2>9, <2>10, <2>11, SoftNever
             DEF Debugger
<1>6. Command = IF P[1] = "prompt" THEN "idle" ELSE IF Nested THEN "run" ELSE "step"
    BY <1>1, CommandIs
<1>7. Command' = IF P'[1] = "prompt" THEN "idle" ELSE IF Nested' THEN "run" ELSE "step"
    BY CommandNext
<1> QED  BY <1>5, <1>6, <1>7


\* Breakpoints that stop a continuation, after a change of the list.
LEMMA StopsMore ==
    ASSUME bps \in Bps, bps' \in Bps, mem \in Mems, NEW a \in Prog,
           NEW kind \in {"break", "trace", "cond"}, NEW sw \in BOOLEAN,
           bps' = WithBp(bps, a, kind, sw)
    PROVE  Stops \subseteq Stops'
<1>1. Len(bps) \in Nat
    BY BpsSeq
<1>2. PICK t : t = WithBp(bps, a, kind, sw)
    OBVIOUS
<1>3. /\ (\E i \in 1 .. Len(bps) : bps[i].addr = a) => t = bps
      /\ (\A i \in 1 .. Len(bps) : bps[i].addr # a) =>
            /\ Len(t) = Len(bps) + 1 /\ \A i \in 1 .. Len(bps) : t[i] = bps[i]
    BY <1>1, <1>2, WithBpItems
<1>4. bps' = t
    BY <1>2
<1>5. DOMAIN bps = 1 .. Len(bps) /\ DOMAIN bps' = 1 .. Len(bps')
    BY BpsSeq
<1>6. CASE t = bps
    BY <1>4, <1>6 DEF Stops
<1>7. CASE \A i \in 1 .. Len(bps) : bps[i].addr # a
    <2>1. Len(bps') = Len(bps) + 1 /\ \A i \in 1 .. Len(bps) : bps'[i] = bps[i]
        BY <1>3, <1>4, <1>7
    <2>2. \A i \in DOMAIN bps : i \in DOMAIN bps' /\ bps'[i] = bps[i]
        BY <1>1, <1>5, <2>1
    <2> QED  BY <2>2 DEF Stops
<1> QED  BY <1>3, <1>6, <1>7

LEMMA StopsFewer ==
    ASSUME bps \in Bps, bps' \in Bps,
           \A j \in 1 .. Len(bps') : \E i \in 1 .. Len(bps) : bps'[j] = bps[i]
    PROVE  Stops' \subseteq Stops
<1>1. DOMAIN bps = 1 .. Len(bps)
    BY BpsSeq
<1>2. PICK t \in Bps : t = bps'
    OBVIOUS
<1>3. DOMAIN bps' = 1 .. Len(bps')
    BY <1>2, BpsSeq
<1> QED  BY <1>1, <1>3 DEF Stops

\* Where the program is: a trap that was executed does not count.
Shown == IF trapped THEN pc - 1 ELSE pc

\* r_debug_wait winds pc back by the trap that was executed, and only then.
LEMMA DebuggerShows ==
    ASSUME InSession, Debugger
    PROVE  moved' = moved /\ Shown' = Shown
<1>1. Running /\ Hardware /\ Flow /\ P[1] # "cont_skip" /\ pc \in Addr
    BY SessionTop
<1>2. CASE StepHardWait \/ ContWait
    <2>1. /\ UNCHANGED <<bps, recoil_mode, moved>> /\ r_debug_wait
          /\ P[1] \in {"hard_wait", "cont_wait"}
        BY <1>1, <1>2, HardWaitMoves, ContWaitMoves DEF StepHardWait, ContWait
    <2>2. CASE Dead
        <3>1. event # "TRAP"
            BY <1>1, <2>1, <2>2 DEF Flow
        <3>2. UNCHANGED <<pc, trapped>>
            BY <2>1, <3>1 DEF r_debug_wait
        <3> QED  BY <2>1, <3>2 DEF Shown
    <2>3. CASE ~Dead
        <3>1. ~trapped' /\ pc' = IF trapped THEN pc - 1 ELSE pc
            BY <2>1, <2>3, WaitHits
        <3> QED  BY <2>1, <3>1 DEF Shown
    <2> QED  BY <2>2, <2>3
<1>3. ~ContSkip
    BY <1>1, ContSkipMoves
<1>4. CASE ~(StepHardWait \/ ContWait)
    <2>1. UNCHANGED <<pc, trapped, moved>>
        <3>1. CASE r_debug_step \/ StepReturn \/ StepHardEnter \/ StepHardRecoiled \/ StepHardGo
            BY <3>1 DEF r_debug_step, StepReturn, StepHardEnter, StepHardRecoiled, StepHardGo,
                        Quiet, inferior, history
        <3>2. CASE RecoilEnter \/ RecoilStepped \/ ContRepeat \/ ContGo
            BY <3>2 DEF RecoilEnter, RecoilStepped, ContRepeat, ContGo, Quiet, inferior, history
        <3>3. CASE UntilEnter \/ UntilLoop \/ DcuEnter \/ DcuReturn
            BY <3>3 DEF UntilEnter, UntilLoop, DcuEnter, DcuReturn, inferior, history
        <3> QED  BY <1>1, <1>3, <1>4, <3>1, <3>2, <3>3, SoftNever DEF Debugger
    <2> QED  BY <2>1 DEF Shown
<1> QED  BY <1>2, <1>4

LEMMA DebuggerStops ==
    ASSUME InSession, TypeInv', Debugger
    PROVE  \/ Stops' = Stops
           \/ Stops \subseteq Stops' /\ ~moved /\ Command' # "idle"
           \/ Stops' \subseteq Stops /\ Command' = "idle"
<1>1. /\ Running /\ Hardware /\ bps \in Bps /\ bps' \in Bps /\ mem \in Mems
      /\ P[1] # "prompt" => StandsOn(P[1], P[2])
      /\ P[1] \in {"until", "dcu"} => ~moved
    BY SessionTop DEF TypeInv
<1>2. Command' = "idle" <=> P'[1] = "prompt"
    BY CommandNext
<1>3. CASE UNCHANGED bps
    BY <1>3 DEF Stops
<1>4. CASE bps' # bps
    <2>1. UntilEnter \/ UntilLoop \/ DcuEnter \/ DcuReturn
        BY <1>1, <1>4, SoftNever DEF Debugger, r_debug_step, StepReturn, StepHardEnter,
            StepHardRecoiled, StepHardGo, StepHardWait, RecoilEnter, RecoilStepped, ContRepeat,
            ContGo, ContWait, ContSkip, Quiet
    <2>2. stack[1].tmp \in Seq(Addr)
        BY <1>1, <2>1, UntilList
    <2>3. CASE UntilEnter \/ DcuEnter
        <3>1. /\ P[1] \in {"until", "dcu"} /\ P'[1] \in {"until_loop", "cont"}
              /\ bps' = WithBp(bps, stack[1].to, "break", FALSE)
            BY <1>1, <1>4, <2>3, UntilMoves, DcuMoves DEF GotoP, CallP
        <3>2. stack[1].to \in Prog
            <4>1. stack \in Seq(Frame) /\ ControlOK
                BY <1>1 DEF Hardware, TypeInv, ControlOK
            <4>2. stack # << >> /\ stack[1].at \in {"until", "dcu"}
                BY <2>3, <4>1, AtTop DEF UntilEnter, DcuEnter
            <4>3. 1 \in 1 .. Len(stack)
                BY <4>1, <4>2
            <4> QED  BY <4>1, <4>2, <4>3 DEF ControlOK
        <3>3. Stops \subseteq Stops'
            <4>1. FALSE \in BOOLEAN /\ "break" \in {"break", "trace", "cond"}
                OBVIOUS
            <4> QED  BY <1>1, <3>1, <3>2, <4>1, StopsMore
        <3> QED  BY <1>1, <1>2, <3>1, <3>3
    <2>4. CASE UntilLoop \/ DcuReturn
        <3>1. /\ P[1] \in {"until_loop", "dcu_ret"} /\ ReturnP
              /\ bps' = WithoutTmp(bps, stack[1].tmp)
            BY <1>1, <1>4, <2>4, UntilLoopMoves, DcuReturnMoves
        <3>2. P'[1] = "prompt"
            BY <1>1, <3>1 DEF ReturnP, StandsOn
        <3>3. \A j \in 1 .. Len(bps') : \E i \in 1 .. Len(bps) : bps'[j] = bps[i]
            BY <1>1, <2>2, <3>1, WithoutTmpOne
        <3>4. Stops' \subseteq Stops
            BY <1>1, <3>3, StopsFewer
        <3> QED  BY <1>2, <3>2, <3>4
    <2> QED  BY <2>1, <2>3, <2>4
<1> QED  BY <1>3, <1>4

LEMMA DebuggerSimulates ==
    ASSUME InSession, TypeInv', Debugger
    PROVE  [Session!Next]_(Session!vars)
<1>1. Command # "idle" /\ Command' \in {Command, "idle"}
    BY DebuggerCommand, SessionTop
<1>2. moved' = moved /\ Shown' = Shown
    BY DebuggerShows
<1>3. (IF trapped' THEN pc' - 1 ELSE pc') = (IF trapped THEN pc - 1 ELSE pc)
    BY <1>2 DEF Shown
<1>4. CASE Stops' = Stops /\ Command' = Command
    BY <1>2, <1>3, <1>4 DEF Session!vars
<1>5. CASE Stops' \subseteq Stops /\ Command' = "idle"
    BY <1>1, <1>2, <1>3, <1>5 DEF Session!Next, Session!End
<1>6. CASE Stops \subseteq Stops' /\ ~moved /\ Command' # "idle"
    BY <1>1, <1>2, <1>3, <1>6 DEF Session!Next, Session!Prepare
<1> QED  BY <1>1, <1>4, <1>5, <1>6, DebuggerStops

\* The program moves only by an instruction that the command may execute.
LEMMA InferiorSimulates ==
    ASSUME InSession, Inferior
    PROVE  [Session!Next]_(Session!vars)
<1>1. /\ Running /\ Hardware /\ TypeInv /\ Flow /\ Arms /\ bps \in Bps /\ pc \in Addr
    BY SessionTop, RunTop
<1>2. UNCHANGED <<bps, stack>> /\ Resumed
    BY DEF Inferior, Exec, ExecTrap, Interrupt, Die, control
<1>3. ~Dead
    BY <1>2 DEF Resumed, Dead
<1>4. event = "none" /\ ~trapped
    BY <1>1, <1>2, <1>3, SessionTop DEF Flow, Trapping
<1>5. Stops' = Stops /\ Command' = Command
    BY <1>2 DEF Stops, Command, Idle
<1>6. CASE Exec
    <2>1. mem[pc] # Trap /\ pc \in Prog /\ pc' \in Succ[pc] /\ moved' = TRUE /\ trapped' = trapped
        BY <1>6 DEF Exec
    <2>2. P[1] \in {"hard_wait", "cont_wait"}
        BY <1>1, <1>2 DEF Flow, Resumed
    <2>3. Command # "idle" /\ (Nested => Command = "run")
        BY <1>1, <2>2, CommandIs
    <2>4. moved => Nested /\ pc \notin Stops
        <3>1. DOMAIN bps = 1 .. Len(bps)
            BY <1>1, BpsSeq
        <3>2. CASE proc = "running"
            <4>1. P[1] = "cont_wait" /\ Armed
                BY <1>1, <3>2 DEF Flow, Arms
            <4>2. Nested
                BY <1>1, <4>1, ContNested
            <4>3. pc \notin Stops
                BY <2>1, <3>1, <4>1 DEF Stops, Armed
            <4> QED  BY <4>2, <4>3
        <3>3. CASE proc = "stepping"
            <4>1. Ready
                BY <1>3, <3>3, SessionTop DEF Goes
            <4> QED  BY <3>1, <4>1 DEF Ready, Stops
        <3> QED  BY <1>2, <3>2, <3>3 DEF Resumed
    <2>5. Session!Exec
        BY <1>4, <1>5, <2>1, <2>3, <2>4 DEF Session!Exec
    <2> QED  BY <2>5 DEF Session!Next
<1>7. CASE ~Exec
    <2>1. moved' = moved
        BY <1>7 DEF Inferior, ExecTrap, Interrupt, Die, history
    <2>2. (IF trapped' THEN pc' - 1 ELSE pc') = (IF trapped THEN pc - 1 ELSE pc)
        <3>1. CASE ExecTrap
            <4>1. pc' = pc + 1 /\ trapped'
                BY <3>1 DEF ExecTrap
            <4>2. pc' - 1 = pc
                BY <1>1, <4>1 DEF Addr
            <4> QED  BY <1>4, <4>1, <4>2
        <3>2. CASE ~ExecTrap
            BY <1>7, <3>2 DEF Inferior, Interrupt, Die, history
        <3> QED  BY <3>1, <3>2
    <2> QED  BY <1>5, <2>1, <2>2 DEF Session!vars
<1> QED  BY <1>6, <1>7

LEMMA UserSimulates ==
    ASSUME InSession, TypeInv', User
    PROVE  [Session!Next]_(Session!vars)
<1>1. Hardware /\ TypeInv
    BY SessionTop
<1>2. CASE Commands
    <2>1. /\ P[1] = "prompt" /\ P'[1] # "prompt" /\ moved' = FALSE /\ UNCHANGED <<pc, bps, trapped>>
        BY <1>1, <1>2, CommandMoves
    <2>2. Command = "idle" /\ Command' \in {"step", "run"}
        BY <1>1, <2>1, CommandIs, CommandNext
    <2>3. Stops' = Stops
        BY <2>1 DEF Stops
    <2> QED  BY <2>1, <2>2, <2>3 DEF Session!Next, Session!Begin
<1>3. CASE Settings
    <2>1. P[1] = "prompt" /\ P' = P /\ moved' = moved
        BY <1>1, <1>3, SettingMoves
    <2>2. Command = "idle" /\ Command' = "idle"
        BY <1>1, <2>1, CommandIs, CommandNext
    <2> QED  BY <2>1, <2>2 DEF Session!Next, Session!Edit
<1> QED  BY <1>2, <1>3, UserCases

LEMMA InitSession == Init => SessionInv /\ Session!Init
<1> SUFFICES ASSUME Init PROVE SessionInv /\ Session!Init
    OBVIOUS
<1>1. /\ stack = << >> /\ proc = "stopped" /\ event = "none" /\ bps = << >> /\ pc \in Prog
      /\ trapped = FALSE /\ moved = FALSE /\ recoil_mode = "NONE"
    BY ProgAssumption DEF Init
<1>2. P[1] = "prompt"
    BY <1>1 DEF P
<1>3. Len(bps) = 0 /\ DOMAIN bps = {}
    BY <1>1
<1>4. Single
    BY <1>3 DEF Single
<1>5. Trapping
    BY <1>1 DEF Trapping
<1>6. Bytes /\ Hits /\ Goes
    BY <1>1, <1>2 DEF Bytes, Hits, Goes
<1>7. SessionInv
    BY <1>2, <1>4, <1>5, <1>6 DEF SessionInv, Alive
<1>8. Stops = {}
    BY <1>3 DEF Stops
<1>9. Command = "idle"
    BY <1>1 DEF Command, Idle
<1> QED  BY <1>1, <1>7, <1>8, <1>9 DEF Session!Init

\* Stepping and continuing show the program's own execution, for every program
\* and every session of hardware steps without signals, in which dcu keeps off
\* the addresses of the user's breakpoints and the program does not jump to the
\* byte after one: r_debug_recoil and r_debug_bp_hit, through all tracepoints,
\* conditions, temporary breakpoints and the death of the debuggee, neither
\* skip an instruction nor execute one twice, and a continuation does not
\* execute past a breakpoint it has reached.
THEOREM DebugImplementsSession ==
    ASSUME HardwareUses, QuietUses, DcuApart, NoJumpBehind
    PROVE  Spec => SessionSpec
<1>1. TrapUses
    BY DEF QuietUses, TrapUses
<1>2. Init => SessionInv /\ Session!Init
    BY InitSession
<1>3. ASSUME TypeInv, RunInv, CleanInv, MineInv, SessionInv PROVE InSession
    <2>1. Running
        BY <1>3, HardwareUse DEF Running
    <2>2. use.events \subseteq {"DEAD"}
        BY <1>3 DEF QuietUses, TypeInv, RestOK
    <2> QED  BY <1>3, <2>1, <2>2 DEF InSession
<1>4. ASSUME TypeInv, RunInv, CleanInv, MineInv, SessionInv, TypeInv', [Next]_vars
      PROVE  SessionInv' /\ [Session!Next]_(Session!vars)
    <2>1. InSession
        BY <1>3, <1>4
    <2>2. SessionInv'
        BY <1>4, <2>1, NextSession
    <2>3. CASE UNCHANGED vars
        <3>1. UNCHANGED <<pc, bps, stack, trapped, moved>>
            BY <2>3 DEF vars, inferior, control, history
        <3>2. Stops' = Stops /\ Command' = Command
            BY <3>1 DEF Stops, Command, Idle
        <3>3. UNCHANGED Session!vars
            BY <3>1, <3>2 DEF Session!vars
        <3> QED  BY <2>2, <3>3
    <2>4. CASE Next
        BY <1>4, <2>1, <2>2, <2>4, DebuggerSimulates, InferiorSimulates, UserSimulates DEF Next
    <2> QED  BY <1>4, <2>3, <2>4
<1>5. Spec => [](TypeInv /\ RunInv /\ CleanInv)
    BY <1>1, CleanAlways
<1>6. Spec => [](TypeInv /\ RunInv /\ MineInv)
    BY MineAlways
<1> QED  BY <1>2, <1>4, <1>5, <1>6, PTL DEF Spec, SessionSpec, Session!Spec
=============================================================================
