------------------------------ MODULE KdProofs ------------------------------
(***************************************************************************)
(* The Windows kernel debugger transport, for every set of requests and    *)
(* every number of retries, losses and ends of the host.  The packets      *)
(* under way at any moment are one of a few patterns: KdInv names them,    *)
(* and the properties of Kd follow from it.                                *)
(***************************************************************************)
EXTENDS Kd, TLAPS, WellFoundedInduction

----------------------------------------------------------------------------
(* Types.                                                                  *)

Abouts == {Nothing, Continue, "ENOENT"} \cup Stops \cup Requests

Bits == {0, 1}

\* What the host sends, and what the kernel sends.
HostPackets ==
    {p \in [kind : {"BREAKIN", "RESET", "ACK", "MANIP", "IO"}, id : Bits, about : Abouts] :
        p.kind = "MANIP" => p.about \in Requests \cup {Continue}}

KernelPackets ==
    {p \in [kind : {"RESET", "ACK", "RESEND"} \cup Data, id : Bits, about : Abouts] :
        p.kind = "STATE_CHANGE" => p.about \in Stops}

Frames == [type : {"RESET", "ACK", "MANIP", "STATE_CHANGE"}, left : -1 .. Retries]

Kernels == [running : BOOLEAN, stop : Stops, unacked : KernelPackets \cup {NoPacket},
            id : Bits, expect : Bits, breakin : BOOLEAN, filing : BOOLEAN,
            noise : 0 .. MaxNoise]

\* Only a wait around a file request has run out of retries.
GoodStack(s) ==
    /\ s \in Seq(Frames) /\ s # << >>
    /\ s[Len(s)].left # -1
    /\ \A i \in 2 .. Len(s) : s[i].type = "ACK"

StackOK == IF call \in {"down", "none"} THEN waits = << >> ELSE GoodStack(waits)

TypeInv ==
    /\ toTarget \in Seq(HostPackets) /\ toHost \in Seq(KernelPackets)
    /\ call \in {"down", "none", "sync", "request", "continue", "wait", "resume"}
    /\ StackOK
    /\ seq \in Bits /\ stopped \in BOOLEAN /\ dbreak \in BOOLEAN
    /\ asked \in {Nothing, "STATE_CHANGE", "ACK"} \cup Requests
    /\ kernel \in Kernels
    /\ lost \in 0 .. MaxLoss /\ kills \in 0 .. MaxKills

----------------------------------------------------------------------------
(* The kernel's own state.                                                 *)

\* The packet it repeats has its number, and says whether it runs.
UnackedInv ==
    /\ kernel.unacked # NoPacket =>
          /\ kernel.unacked.kind \in Data /\ kernel.unacked.id = kernel.id
          /\ kernel.running <=> kernel.unacked.kind \in {"PRINT", "IO"}
          /\ kernel.running => kernel.noise > 0
    /\ kernel.breakin \/ kernel.filing => kernel.running

\* What a call asked for.
AskedInv ==
    /\ call \in {"sync", "wait", "resume"} => asked = "STATE_CHANGE"
    /\ call = "continue" => asked = "ACK"
    /\ call = "request" => asked \in Requests

----------------------------------------------------------------------------
(* The phases of an exchange.                                              *)

One(type) == Len(waits) = 1 /\ waits[1].type = type

Ack(p) == Ctrl("ACK", p.id)

\* Packets of these kinds, among them the acknowledge of what is unacked.
Only(kinds, s) == \A i \in 1 .. Len(s) : s[i].kind \in kinds
Settled(u, s) == u = NoPacket \/ \E i \in 1 .. Len(s) : s[i] = Ack(u)
Settles(s) == Settled(kernel.unacked, s)

\* The unacknowledged packet, if there is one, is still to be read.
Unread == IF Free THEN << >> ELSE <<kernel.unacked>>

\* The kernel runs, or has just reported that it does not any more.
Run ==
    /\ kernel.running => /\ ~kernel.breakin
                         /\ kernel.filing <=> (kernel.unacked.kind = "IO")
    /\ ~kernel.running => kernel.unacked.kind = "STATE_CHANGE"

\* The RESET of wind_sync is on its way.  The host may have read what the
\* kernel was repeating, but nothing that follows it.
ResetSent ==
    /\ call = "sync" /\ One("RESET")
    /\ \/ /\ waits[1].left = Retries
          /\ toTarget \in {<<Breakin, Ctrl("RESET", 0)>>, <<Ctrl("RESET", 0)>>}
          /\ toHost = << >> \/ (toHost = <<kernel.unacked>> /\ kernel.unacked.kind \in Data \ {"IO"})
       \/ /\ toTarget \in {<<Breakin, Ctrl("RESET", 0), Ack(kernel.unacked)>>,
                           <<Ctrl("RESET", 0), Ack(kernel.unacked)>>}
          /\ toHost = << >> /\ ~Free
    /\ (kernel.running /\ ~kernel.breakin) => toTarget[1] = Breakin

\* What is left of the packet before a reset: its acknowledge.
Leftover == toTarget = << >> \/ \E b \in Bits : toTarget = <<Ctrl("ACK", b)>>

\* The kernel after a RESET: it runs, but only until it sees the breakin; or it
\* has reported its state in the packets s.  The acknowledge of the packet
\* before may count for the report as well.
Reported(s) ==
    /\ kernel.expect = 0 /\ ~kernel.filing
    /\ kernel.running => kernel.breakin /\ Free /\ s = << >>
    /\ ~kernel.running =>
          /\ Len(s) = 1 /\ s[1].kind = "STATE_CHANGE"
          /\ Free \/ kernel.unacked = s[1]
          /\ Free => toTarget = << >>

ResetRead ==
    /\ call = "sync" /\ One("RESET")
    /\ \E s \in Seq(KernelPackets) :
          /\ Reported(s)
          /\ \/ Leftover /\ toHost = <<Ctrl("RESET", 0)>> \o s
             \/ /\ toTarget = << >> /\ waits[1].left = Retries
                /\ Free => kernel.running
                /\ \E p \in KernelPackets : /\ p.kind \in Data \ {"IO"}
                                            /\ toHost = <<p>> \o (<<Ctrl("RESET", 0)>> \o s)

Reporting ==
    /\ call = "sync" /\ One("STATE_CHANGE") /\ Leftover
    /\ \/ Reported(toHost)
       \/ /\ kernel.expect = 0 /\ ~kernel.filing /\ ~kernel.running
          /\ toHost = << >> /\ kernel.unacked.kind = "STATE_CHANGE" /\ ~Received

Prompt ==
    /\ call = "none" /\ stopped /\ got = asked
    /\ ~kernel.running /\ kernel.expect = 1 - seq
    /\ toHost = << >> /\ Only({"ACK"}, toTarget) /\ Settles(toTarget)

\* A request or a continue is on its way, behind acknowledges.
Asked ==
    /\ call \in {"request", "continue", "resume"} /\ One("ACK")
    /\ call = "request" => stopped
    /\ call = "resume" => ~stopped
    /\ ~kernel.running /\ kernel.expect = seq /\ toHost = << >>
    /\ \E acks \in Seq(HostPackets) :
          /\ toTarget = Append(acks, Packet("MANIP", seq, IF call = "request" THEN asked ELSE Continue))
          /\ Only({"ACK"}, acks) /\ Settles(acks)

\* The kernel has answered a request.
Answered ==
    /\ call = "request" /\ stopped
    /\ ~kernel.running /\ kernel.expect = 1 - seq /\ toTarget = << >>
    /\ kernel.unacked = Packet("MANIP", kernel.id, asked)
    /\ \/ One("ACK") /\ toHost = <<Ctrl("ACK", seq), kernel.unacked>>
       \/ One("MANIP") /\ toHost \in {<< >>, <<kernel.unacked>>}

\* The kernel has taken a continue.
Continued ==
    /\ call \in {"continue", "resume"} /\ One("ACK") /\ (call = "resume" => ~stopped)
    /\ kernel.expect = 1 - seq /\ toTarget = << >>
    /\ toHost = <<Ctrl("ACK", seq)>> \o Unread /\ Run

\* The retries of r_debug_wind_wait last for what the kernel may still print,
\* and n packets that it has not read.
Room(n) == waits[1].left + kernel.noise >= Retries + n

\* The kernel was let go, or r_debug_wind_step pretended to.
Away ==
    /\ ~stopped /\ kernel.expect = 1 - seq
    /\ (call = "none" /\ got = asked) \/ (call = "wait" /\ One("STATE_CHANGE"))
    /\ \/ /\ ~kernel.running /\ toHost = << >>
          /\ Only({"ACK", "BREAKIN"}, toTarget) /\ Settles(toTarget)
       \/ /\ ~Free /\ Run /\ toTarget = << >> /\ toHost \in {<< >>, <<kernel.unacked>>}
          /\ call = "wait" => Room(IF kernel.running THEN 1 ELSE 0)
       \/ /\ kernel.running /\ ~kernel.breakin /\ ~kernel.filing /\ toHost = << >>
          /\ call = "wait" => Room(0)
          /\ \/ Free /\ toTarget = << >>
             \/ ~Free /\ toTarget = <<Ack(kernel.unacked)>>

\* do_io_reply inside r_debug_wind_wait.
Serving ==
    /\ call = "wait" /\ ~stopped
    /\ Len(waits) = 2 /\ waits[1].type = "STATE_CHANGE"
    /\ \/ /\ kernel.running /\ ~kernel.breakin /\ kernel.filing /\ Room(0)
          /\ kernel.expect = seq /\ toHost = << >>
          /\ LET reply == Packet("IO", seq, "ENOENT")
             IN  \/ ~Free /\ toTarget = <<Ack(kernel.unacked), reply>>
                 \/ Free /\ toTarget = <<reply>>
       \/ /\ Run /\ kernel.expect = 1 - seq /\ toTarget = << >>
          /\ toHost = <<Ctrl("ACK", seq)>> \o Unread
          /\ Room(IF kernel.running /\ ~Free THEN 1 ELSE 0)

Phase ==
    \/ call = "down"
    \/ ResetSent \/ ResetRead \/ Reporting
    \/ Prompt \/ Asked \/ Answered \/ Continued \/ Away \/ Serving

KdInv == TypeInv /\ UnackedInv /\ AskedInv /\ Phase

----------------------------------------------------------------------------
(* Packets, queues and stacks.                                             *)

LEMMA Constants ==
    /\ Retries \in Nat /\ MaxNoise \in Nat /\ MaxLoss \in Nat /\ MaxKills \in Nat
    /\ Continue \notin Requests
BY KdAssumption, RequestsAssumption

LEMMA SentByHost ==
    /\ Breakin \in HostPackets /\ Ctrl("RESET", 0) \in HostPackets
    /\ \A b \in Bits : /\ Ctrl("ACK", b) \in HostPackets
                       /\ Packet("IO", b, "ENOENT") \in HostPackets
                       /\ \A r \in Requests \cup {Continue} : Packet("MANIP", b, r) \in HostPackets
BY DEF HostPackets, Breakin, Ctrl, Packet, Bits, Abouts

LEMMA SentByKernel ==
    /\ Ctrl("RESET", 0) \in KernelPackets /\ Ctrl("RESEND", 0) \in KernelPackets
    /\ \A b \in Bits : /\ Ctrl("ACK", b) \in KernelPackets
                       /\ \A s \in Stops : Packet("STATE_CHANGE", b, s) \in KernelPackets
                       /\ \A a \in Abouts : \A kind \in Data \ {"STATE_CHANGE"} :
                             Packet(kind, b, a) \in KernelPackets
BY DEF KernelPackets, Ctrl, Packet, Bits, Abouts, Data

LEMMA PacketFields ==
    /\ \A p \in HostPackets \cup KernelPackets :
          p.id \in Bits /\ p.about \in Abouts /\ p # NoPacket /\ p.kind # "none"
    /\ \A p \in HostPackets : /\ p.kind \in {"BREAKIN", "RESET", "ACK", "MANIP", "IO"}
                              /\ p.kind = "MANIP" => p.about \in Requests \cup {Continue}
    /\ \A p \in KernelPackets : /\ p.kind \in {"RESET", "ACK", "RESEND"} \cup Data
                                /\ p.kind = "STATE_CHANGE" => p.about \in Stops
    /\ \A kind, id, about : /\ Packet(kind, id, about).kind = kind
                            /\ Packet(kind, id, about).id = id
                            /\ Packet(kind, id, about).about = about
                            /\ Ctrl(kind, id).kind = kind /\ Ctrl(kind, id).id = id
    /\ NoPacket.kind = "none" /\ NoPacket.id = 0
BY DEF HostPackets, KernelPackets, NoPacket, Ctrl, Packet, Data

LEMMA QueueTypes ==
    ASSUME NEW S, NEW s \in Seq(S)
    PROVE  /\ s # << >> => Head(s) \in S /\ Tail(s) \in Seq(S) /\ s[1] = Head(s)
           /\ \A x \in S : Append(s, x) \in Seq(S)
           /\ \A x \in S : <<x>> \in Seq(S)
           /\ \A t \in Seq(S) : s \o t \in Seq(S)
           /\ << >> \in Seq(S)
OBVIOUS

LEMMA RangeIs ==
    ASSUME NEW S, NEW s \in Seq(S)
    PROVE  \A x : x \in Range(s) <=> \E i \in 1 .. Len(s) : x = s[i]
BY DEF Range

\* What kd_read_packet sends back.
LEMMA AckedType ==
    ASSUME NEW p \in KernelPackets
    PROVE  Acked(p) \in Seq(HostPackets)
<1>1. Ctrl("ACK", p.id) \in HostPackets
    BY PacketFields, SentByHost
<1>2. <<Ctrl("ACK", p.id)>> \in Seq(HostPackets) /\ << >> \in Seq(HostPackets)
    BY <1>1
<1> QED  BY <1>2 DEF Acked

LEMMA FrameType ==
    \A type \in {"RESET", "ACK", "MANIP", "STATE_CHANGE"} :
        /\ Frame(type) \in Frames /\ Frame(type).type = type
        /\ Frame(type).left = Retries /\ Frame(type).left # -1
BY Constants DEF Frame, Frames

\* A non-empty set of numbers from 0 to n has a greatest element.
LEMMA MaxUpTo ==
    ASSUME NEW n \in Nat, NEW S, S \subseteq 0 .. n, S # {}
    PROVE  Max(S) \in S /\ \A j \in S : j <= Max(S)
<1> DEFINE T == {k \in Nat : n - k \in S}
<1>1. T # {}
    <2>1. PICK s \in S : TRUE
        OBVIOUS
    <2>2. n - s \in T
        OBVIOUS
    <2> QED  BY <2>2
<1>2. PICK k \in T : \A l \in T : ~ (<<l, k>> \in OpToRel(<, Nat))
    <2>1. T \subseteq Nat
        OBVIOUS
    <2> HIDE DEF T
    <2> QED  BY <1>1, <2>1, NatLessThanWellFounded, WFMin
<1>3. \A l \in T : k <= l
    <2>1. T \subseteq Nat
        OBVIOUS
    <2> HIDE DEF T
    <2>2. \A l \in T : ~ (l < k)
        BY <2>1, <1>2 DEF OpToRel
    <2> QED  BY <2>1, <2>2
<1>4. n - k \in S
    OBVIOUS
<1>5. ASSUME NEW j \in S PROVE j <= n - k
    <2>1. n - j \in T /\ j \in Nat /\ k \in Nat
        OBVIOUS
    <2>2. k <= n - j
        BY <2>1, <1>3
    <2> HIDE DEF T
    <2> QED  BY <2>1, <2>2
<1>6. \E x \in S : \A y \in S : x >= y
    BY <1>4, <1>5
<1>7. Max(S) \in S /\ \A y \in S : Max(S) >= y
    BY <1>6 DEF Max
<1> QED  BY <1>7

\* The stack after the innermost wait has returned.
LEMMA ReturnedIs ==
    ASSUME NEW s \in Seq(Frames), s # << >>
    PROVE  \E k \in 0 .. Len(s) - 1 :
              /\ Returned(s) = SubSeq(s, 1, k) /\ (k # 0 => s[k].left >= 0)
              /\ \A i \in 1 .. Len(s) - 1 : s[i].left >= 0 => i <= k
<1> DEFINE S == {0} \cup {i \in 1 .. Len(s) - 1 : s[i].left >= 0}
           n == Len(s) - 1
<1>1. n \in Nat
    OBVIOUS
<1>2. S \subseteq 0 .. n /\ S # {}
    BY <1>1
<1>3. Max(S) \in S /\ \A j \in S : j <= Max(S)
    <2> HIDE DEF S, n
    <2> QED  BY <1>1, <1>2, MaxUpTo
<1>4. Returned(s) = SubSeq(s, 1, Max(S))
    BY DEF Returned
<1>5. Max(S) \in 0 .. n
    BY <1>2, <1>3
<1>6. Max(S) # 0 => s[Max(S)].left >= 0
    BY <1>3
<1>7. \A i \in 1 .. Len(s) - 1 : s[i].left >= 0 => i <= Max(S)
    BY <1>3
<1> QED  BY <1>4, <1>5, <1>6, <1>7

LEMMA GoodOne ==
    \A type \in {"RESET", "ACK", "MANIP", "STATE_CHANGE"} :
        /\ GoodStack(<<Frame(type)>>) /\ Len(<<Frame(type)>>) = 1
        /\ <<Frame(type)>>[1] = Frame(type)
BY FrameType DEF GoodStack

LEMMA LastFrame ==
    ASSUME NEW s, GoodStack(s)
    PROVE  /\ s \in Seq(Frames) /\ Len(s) \in Nat \ {0}
           /\ s[Len(s)] \in Frames /\ s[Len(s)].left \in 0 .. Retries
<1>1. s \in Seq(Frames) /\ s # << >>
    BY DEF GoodStack
<1>2. Len(s) \in Nat \ {0}
    BY <1>1
<1>3. s[Len(s)] \in Frames
    BY <1>1, <1>2
<1>4. s[Len(s)].left \in -1 .. Retries /\ s[Len(s)].left # -1
    BY <1>3 DEF GoodStack, Frames
<1> QED  BY <1>1, <1>2, <1>3, <1>4, Constants

\* The innermost wait has read a packet.
LEMMA SpendIs ==
    ASSUME NEW s, GoodStack(s)
    PROVE  /\ Spend(s) \in Seq(Frames) /\ Len(Spend(s)) = Len(s) /\ Len(s) \in Nat \ {0}
           /\ Spend(s)[Len(s)].left = s[Len(s)].left - 1
           /\ \A i \in 1 .. Len(s) : Spend(s)[i].type = s[i].type
           /\ \A i \in 1 .. Len(s) - 1 : Spend(s)[i] = s[i]
<1> DEFINE n == Len(s)
           f == [s[n] EXCEPT !.left = @ - 1]
<1>1. s \in Seq(Frames) /\ n \in Nat \ {0} /\ s[n] \in Frames /\ s[n].left \in 0 .. Retries
    BY LastFrame
<1>2. f \in Frames /\ f.left = s[n].left - 1 /\ f.type = s[n].type
    BY <1>1, Constants DEF Frames
<1>3. Spend(s) = [s EXCEPT ![n] = f]
    BY DEF Spend
<1> HIDE DEF f, n
<1>4. /\ Spend(s) \in Seq(Frames) /\ Len(Spend(s)) = Len(s) /\ Spend(s)[n] = f
      /\ \A i \in 1 .. Len(s) : i # n => Spend(s)[i] = s[i]
    BY <1>1, <1>2, <1>3 DEF n
<1> QED  BY <1>1, <1>2, <1>4 DEF n

LEMMA GoodSpend ==
    ASSUME NEW s, GoodStack(s), s[Len(s)].left # 0
    PROVE  GoodStack(Spend(s))
<1>1. s[Len(s)].left \in 1 .. Retries
    BY Constants, LastFrame
<1>2. Spend(s)[Len(s)].left # -1
    BY <1>1, SpendIs, Constants
<1>3. Spend(s) # << >>
    BY SpendIs
<1> QED  BY <1>2, <1>3, SpendIs DEF GoodStack

LEMMA GoodServe ==
    ASSUME NEW s, GoodStack(s)
    PROVE  GoodStack(Append(Spend(s), Frame("ACK")))
<1> DEFINE sp == Spend(s)
           t == Append(sp, Frame("ACK"))
<1>1. sp \in Seq(Frames) /\ Frame("ACK") \in Frames /\ Len(sp) = Len(s) /\ Len(s) \in Nat
    BY SpendIs, FrameType
<1>2. \A i \in 2 .. Len(sp) : sp[i].type = "ACK"
    BY SpendIs DEF GoodStack
<1> HIDE DEF sp
<1>3. /\ t \in Seq(Frames) /\ t # << >> /\ Len(t) = Len(sp) + 1
      /\ t[Len(t)] = Frame("ACK") /\ \A i \in 1 .. Len(sp) : t[i] = sp[i]
    BY <1>1
<1>4. t[Len(t)].type = "ACK" /\ t[Len(t)].left # -1
    BY <1>3, FrameType
<1> HIDE DEF t
<1>5. \A i \in 2 .. Len(t) : t[i].type = "ACK"
    BY <1>1, <1>2, <1>3, <1>4
<1> QED  BY <1>3, <1>4, <1>5 DEF GoodStack, t, sp

LEMMA GoodReturned ==
    ASSUME NEW s, GoodStack(s), Returned(s) # << >>
    PROVE  GoodStack(Returned(s))
<1>0. s \in Seq(Frames) /\ s # << >>
    BY DEF GoodStack
<1>1. PICK k \in 0 .. Len(s) - 1 :
         /\ Returned(s) = SubSeq(s, 1, k) /\ (k # 0 => s[k].left >= 0)
    BY <1>0, ReturnedIs
<1>2. k # 0
    BY <1>1, <1>0
<1>3. k \in 1 .. Len(s) - 1 /\ Len(s) \in Nat
    BY <1>2, <1>0
<1> DEFINE t == SubSeq(s, 1, k)
<1>4. /\ t \in Seq(Frames) /\ Len(t) = k /\ t # << >>
      /\ \A i \in 1 .. k : t[i] = s[i]
    BY <1>0, <1>3
<1>5. s[k].left # -1
    BY <1>1, <1>2
<1> HIDE DEF t
<1>6. t[Len(t)].left # -1
    BY <1>3, <1>4, <1>5
<1>7. \A i \in 2 .. Len(t) : t[i].type = "ACK"
    BY <1>3, <1>4 DEF GoodStack
<1> QED  BY <1>1, <1>4, <1>6, <1>7 DEF GoodStack, t

----------------------------------------------------------------------------
(* Every step keeps the types.                                             *)

\* The parts of TypeInv that the host, and that the kernel, can change.
HostTypes ==
    /\ toTarget \in Seq(HostPackets) /\ StackOK
    /\ call \in {"down", "none", "sync", "request", "continue", "wait", "resume"}
    /\ seq \in Bits /\ stopped \in BOOLEAN /\ dbreak \in BOOLEAN
    /\ asked \in {Nothing, "STATE_CHANGE", "ACK"} \cup Requests

KernelTypes == toHost \in Seq(KernelPackets) /\ kernel \in Kernels

BoundTypes == lost \in 0 .. MaxLoss /\ kills \in 0 .. MaxKills

LEMMA TypeParts == TypeInv <=> HostTypes /\ KernelTypes /\ BoundTypes
BY DEF TypeInv, HostTypes, KernelTypes, BoundTypes

LEMMA InitTypes == Init => TypeInv
<1> SUFFICES ASSUME Init PROVE TypeInv
    OBVIOUS
<1>1. kernel \in Kernels
    BY Constants DEF Init, Kernels, Bits, Stops
<1>2. StackOK
    BY DEF Init, StackOK
<1>3. toTarget \in Seq(HostPackets) /\ toHost \in Seq(KernelPackets)
    BY DEF Init
<1>4. lost \in 0 .. MaxLoss /\ kills \in 0 .. MaxKills
    BY Constants DEF Init
<1>5. /\ call = "down" /\ seq \in Bits /\ stopped \in BOOLEAN /\ dbreak \in BOOLEAN
      /\ asked = Nothing
    BY DEF Init, Bits
<1> QED  BY <1>1, <1>2, <1>3, <1>4, <1>5 DEF TypeInv

\* The host goes on after sending the packets m.
LEMMA HostSends ==
    ASSUME HostTypes, NEW m \in Seq(HostPackets)
    PROVE  toTarget \o m \in Seq(HostPackets)
BY DEF HostTypes

LEMMA Flips == \A b \in Bits : 1 - b \in Bits /\ 1 - b # b
BY DEF Bits

LEMMA StartTypes ==
    ASSUME HostTypes,
           \/ wind_sync \/ wind_continue \/ r_debug_wind_step \/ r_debug_wind_wait
           \/ (\E r \in Requests : Request(r)) \/ wstatic_debug_break
    PROVE  HostTypes'
<1> USE DEF HostTypes
<1>1. CASE wind_sync
    <2>1. <<Breakin, Ctrl("RESET", 0)>> \in Seq(HostPackets)
        BY SentByHost
    <2>2. toTarget' \in Seq(HostPackets)
        BY <1>1, <2>1 DEF wind_sync
    <2>3. StackOK'
        BY <1>1, GoodOne DEF wind_sync, StackOK
    <2> QED  BY <1>1, <2>2, <2>3 DEF wind_sync
<1>2. CASE wind_continue
    <2>1. Packet("MANIP", 1 - seq, Continue) \in HostPackets
        BY SentByHost, Flips
    <2>2. toTarget' \in Seq(HostPackets)
        BY <1>2, <2>1 DEF wind_continue, SendData
    <2>3. StackOK'
        BY <1>2, GoodOne DEF wind_continue, StackOK
    <2> QED  BY <1>2, <2>2, <2>3, Flips DEF wind_continue, SendData
<1>3. CASE r_debug_wind_step
    <2>1. StackOK'
        BY <1>3 DEF r_debug_wind_step, StackOK
    <2> QED  BY <1>3, <2>1 DEF r_debug_wind_step, line
<1>4. CASE r_debug_wind_wait
    <2>1. StackOK'
        BY <1>4, GoodOne DEF r_debug_wind_wait, StackOK
    <2> QED  BY <1>4, <2>1 DEF r_debug_wind_wait, line
<1>5. ASSUME NEW r \in Requests, Request(r) PROVE HostTypes'
    <2>1. Packet("MANIP", 1 - seq, r) \in HostPackets
        BY SentByHost, Flips
    <2>2. toTarget' \in Seq(HostPackets)
        BY <1>5, <2>1 DEF Request, SendData
    <2>3. StackOK'
        BY <1>5, GoodOne DEF Request, StackOK
    <2> QED  BY <1>5, <2>2, <2>3, Flips DEF Request, SendData
<1>6. CASE wstatic_debug_break
    <2>1. StackOK'
        BY <1>6 DEF wstatic_debug_break, StackOK
    <2> QED  BY <1>6, <2>1 DEF wstatic_debug_break, line
<1> QED  BY <1>1, <1>2, <1>3, <1>4, <1>5, <1>6

\* What the host sends and where it goes on when a call has a result.
LEMMA ReturnTypes ==
    ASSUME HostTypes, call \notin {"down", "none"}, NEW p \in KernelPackets, CallReturned(p)
    PROVE  HostTypes'
<1> DEFINE a == Acked(p)
<1>1. a \in Seq(HostPackets)
    BY AckedType
<1>2. toTarget \o a \in Seq(HostPackets)
    BY <1>1 DEF HostTypes
<1> USE DEF HostTypes
<1>3. CASE call = "sync" /\ SyncReturned(p)
    <2>1. StackOK'
        BY <1>3, GoodOne DEF SyncReturned, End, StackOK
    <2> QED  BY <1>2, <1>3, <2>1 DEF SyncReturned, End, Bits
<1>4. CASE call = "request" /\ RequestReturned(p)
    <2>1. StackOK'
        BY <1>4, GoodOne DEF RequestReturned, End, StackOK
    <2> QED  BY <1>2, <1>4, <2>1 DEF RequestReturned, End
<1>5. CASE call = "continue" /\ ContinueReturned(p)
    <2>1. StackOK'
        BY <1>5 DEF ContinueReturned, End, StackOK
    <2> QED  BY <1>2, <1>5, <2>1 DEF ContinueReturned, End
<1>6. CASE call = "wait" /\ WaitReturned(p)
    <2>1. StackOK'
        BY <1>6, GoodOne DEF WaitReturned, End, StackOK
    <2>2. Breakin \in HostPackets /\ Packet("MANIP", 1 - seq, Continue) \in HostPackets
        BY SentByHost, Flips
    <2>3. toTarget' \in Seq(HostPackets)
        <3>1. /\ (toTarget \o a) \o <<Breakin>> \in Seq(HostPackets)
              /\ (toTarget \o a) \o <<Packet("MANIP", 1 - seq, Continue)>> \in Seq(HostPackets)
            BY <1>2, <2>2
        <3> QED  BY <1>2, <1>6, <3>1 DEF WaitReturned
    <2> QED  BY <1>6, <2>1, <2>3, Flips DEF WaitReturned, End
<1>7. CASE call = "resume" /\ ResumeReturned(p)
    <2>1. StackOK'
        BY <1>7, GoodOne DEF ResumeReturned, StackOK
    <2> QED  BY <1>2, <1>7, <2>1 DEF ResumeReturned
<1> QED  BY <1>3, <1>4, <1>5, <1>6, <1>7 DEF CallReturned

LEMMA ReadTypes ==
    ASSUME HostTypes, KernelTypes, wind_wait_packet
    PROVE  HostTypes' /\ KernelTypes'
<1> DEFINE p == Head(toHost)
           done == p.kind = Top.type \/ Top.left = 0
<1>1. toHost # << >> /\ p \in KernelPackets /\ Tail(toHost) \in Seq(KernelPackets)
    BY DEF wind_wait_packet, KernelTypes
<1>2. KernelTypes'
    BY <1>1 DEF wind_wait_packet, KernelTypes
<1>3. call \notin {"down", "none"} /\ GoodStack(waits)
    BY DEF wind_wait_packet, HostTypes, StackOK
<1>4. toTarget \o Acked(p) \in Seq(HostPackets)
    BY <1>1, AckedType, HostSends
<1>5. \/ p.kind = "IO" /\ do_io_reply(p)
      \/ p.kind = "RESEND" /\ IF Len(waits) = 1 THEN CallFailed(p) ELSE Return(p)
      \/ ~done /\ ReadOver(p)
      \/ Return(p)
    BY DEF wind_wait_packet
<1> HIDE DEF p, done
<1>6. CASE do_io_reply(p)
    <2>1. Packet("IO", 1 - seq, "ENOENT") \in HostPackets
        BY SentByHost, Flips DEF HostTypes
    <2>2. (toTarget \o Acked(p)) \o <<Packet("IO", 1 - seq, "ENOENT")>> \in Seq(HostPackets)
        BY <1>4, <2>1
    <2>3. StackOK'
        BY <1>3, <1>6, GoodServe DEF do_io_reply, StackOK
    <2> QED  BY <1>2, <1>6, <2>2, <2>3, Flips DEF do_io_reply, HostTypes
<1>7. CASE Len(waits) = 1 /\ CallFailed(p)
    <2>1. StackOK'
        BY <1>3, <1>7, GoodOne DEF CallFailed, StackOK
    <2> QED  BY <1>2, <1>7, <2>1 DEF CallFailed, HostTypes
<1>8. CASE ~done /\ ReadOver(p)
    <2>1. waits[Len(waits)].left # 0
        BY <1>8 DEF done, Top, Last
    <2>2. StackOK'
        BY <1>3, <1>8, <2>1, GoodSpend DEF ReadOver, StackOK
    <2> QED  BY <1>2, <1>4, <1>8, <2>2 DEF ReadOver, HostTypes
<1>9. CASE Return(p)
    <2>1. CASE CallReturned(p)
        BY <1>1, <1>2, <1>3, <2>1, ReturnTypes DEF p
    <2>2. CASE Returned(waits) # << >> /\ Unwind(p)
        <3>1. StackOK'
            BY <1>3, <2>2, GoodReturned DEF Unwind, StackOK
        <3> QED  BY <1>2, <1>4, <2>2, <3>1 DEF Unwind, HostTypes
    <2> QED  BY <1>9, <2>1, <2>2 DEF Return
<1> QED  BY <1>5, <1>6, <1>7, <1>8, <1>9

\* The kernel's steps.
LEMMA KernelReadTypes ==
    ASSUME HostTypes, KernelTypes, KernelRead
    PROVE  HostTypes' /\ KernelTypes'
<1> DEFINE p == Head(toTarget)
<1>1. toTarget # << >> /\ p \in HostPackets /\ Tail(toTarget) \in Seq(HostPackets)
    BY DEF KernelRead, HostTypes
<1>2. HostTypes'
    <2>1. StackOK'
        BY DEF KernelRead, host, HostTypes, StackOK
    <2> QED  BY <1>1, <2>1 DEF KernelRead, host, HostTypes
<1>3. toHost \in Seq(KernelPackets) /\ kernel \in Kernels
    BY DEF KernelTypes
<1>4. p.id \in Bits /\ p.about \in Abouts
    BY <1>1, PacketFields
<1>5. \/ kernel' = [kernel EXCEPT !.breakin = kernel.running] /\ UNCHANGED toHost
      \/ Reset
      \/ UNCHANGED toHost /\ kernel' = IF ~Free /\ p.id = kernel.unacked.id
                                       THEN [kernel EXCEPT !.unacked = NoPacket, !.id = 1 - @]
                                       ELSE kernel
      \/ toHost' = Append(toHost, Ctrl("RESEND", 0)) /\ UNCHANGED kernel
      \/ toHost' = Append(toHost, Ctrl("ACK", p.id)) /\ UNCHANGED kernel
      \/ p.kind \in Data /\ Accept(p)
      \/ UNCHANGED <<toHost, kernel>>
    BY DEF KernelRead
<1> HIDE DEF p
<1>6. CASE kernel' = [kernel EXCEPT !.breakin = kernel.running] /\ UNCHANGED toHost
    BY <1>2, <1>3, <1>6 DEF KernelTypes, Kernels
<1>7. CASE Reset
    <2> DEFINE k == [kernel EXCEPT !.id = 0, !.expect = 0, !.unacked = NoPacket, !.filing = FALSE]
               own == Own(k, "STATE_CHANGE", k.stop)
    <2>1. k \in Kernels /\ k.id = 0 /\ k.stop \in Stops
        BY <1>3 DEF Kernels, Bits
    <2>2. own \in KernelPackets
        BY <2>1, SentByKernel DEF Own, Bits
    <2>3. \/ kernel' = k /\ toHost' = toHost \o <<Ctrl("RESET", 0)>>
          \/ kernel' = Sent(k, "STATE_CHANGE", k.stop) /\ toHost' = toHost \o <<Ctrl("RESET", 0)>> \o <<own>>
        BY <1>7 DEF Reset
    <2> HIDE DEF k, own
    <2>4. /\ toHost \o <<Ctrl("RESET", 0)>> \in Seq(KernelPackets)
          /\ (toHost \o <<Ctrl("RESET", 0)>>) \o <<own>> \in Seq(KernelPackets)
        BY <1>3, <2>2, SentByKernel
    <2>5. Sent(k, "STATE_CHANGE", k.stop) \in Kernels
        BY <2>1, <2>2 DEF Sent, own, Kernels
    <2> QED  BY <1>2, <2>1, <2>3, <2>4, <2>5 DEF KernelTypes
<1>8. CASE UNCHANGED toHost /\ kernel' = IF ~Free /\ p.id = kernel.unacked.id
                                         THEN [kernel EXCEPT !.unacked = NoPacket, !.id = 1 - @]
                                         ELSE kernel
    <2>1. kernel.id \in Bits
        BY <1>3 DEF Kernels
    <2>2. [kernel EXCEPT !.unacked = NoPacket, !.id = 1 - @] \in Kernels
        BY <1>3, <2>1, Flips DEF Kernels
    <2> QED  BY <1>2, <1>3, <1>8, <2>2 DEF KernelTypes
<1>9. CASE p.kind \in Data /\ Accept(p)
    <2> DEFINE k == [kernel EXCEPT !.expect = 1 - @]
               own == Own(k, "MANIP", p.about)
    <2>1. kernel.expect \in Bits
        BY <1>3 DEF Kernels
    <2>2. k \in Kernels /\ k.id \in Bits
        BY <1>3, <2>1, Flips DEF Kernels
    <2>3. own \in KernelPackets
        BY <2>2, <1>4, SentByKernel DEF Own, Data
    <2>4. \/ kernel' = [k EXCEPT !.filing = FALSE] /\ toHost' = toHost \o <<Ctrl("ACK", p.id)>>
          \/ kernel' = [k EXCEPT !.running = TRUE, !.noise = 0] /\ toHost' = toHost \o <<Ctrl("ACK", p.id)>>
          \/ kernel' = Sent(k, "MANIP", p.about) /\ toHost' = toHost \o <<Ctrl("ACK", p.id)>> \o <<own>>
        BY <1>9 DEF Accept
    <2> HIDE DEF k, own
    <2>5. Ctrl("ACK", p.id) \in KernelPackets
        BY <1>4, SentByKernel
    <2>6. /\ toHost \o <<Ctrl("ACK", p.id)>> \in Seq(KernelPackets)
          /\ (toHost \o <<Ctrl("ACK", p.id)>>) \o <<own>> \in Seq(KernelPackets)
        BY <1>3, <2>3, <2>5
    <2>7. /\ [k EXCEPT !.filing = FALSE] \in Kernels
          /\ [k EXCEPT !.running = TRUE, !.noise = 0] \in Kernels
        <3>1. 0 \in 0 .. MaxNoise
            BY Constants
        <3> QED  BY <2>2, <3>1 DEF Kernels
    <2>8. Sent(k, "MANIP", p.about) \in Kernels
        BY <2>2, <2>3 DEF Sent, own, Kernels
    <2> QED  BY <1>2, <2>4, <2>6, <2>7, <2>8 DEF KernelTypes
<1>10. CASE \/ toHost' = Append(toHost, Ctrl("RESEND", 0)) /\ UNCHANGED kernel
            \/ toHost' = Append(toHost, Ctrl("ACK", p.id)) /\ UNCHANGED kernel
    <2>1. Ctrl("RESEND", 0) \in KernelPackets /\ Ctrl("ACK", p.id) \in KernelPackets
        BY <1>4, SentByKernel
    <2> QED  BY <1>2, <1>3, <1>10, <2>1 DEF KernelTypes
<1>11. CASE UNCHANGED <<toHost, kernel>>
    BY <1>2, <1>3, <1>11 DEF KernelTypes
<1> QED  BY <1>5, <1>6, <1>7, <1>8, <1>9, <1>10, <1>11

\* Packets that the kernel sends by itself.
LEMMA KernelSendTypes ==
    ASSUME KernelTypes, KernelNoise \/ (\E stop \in Stops : KernelStop(stop)) \/ KernelResend
    PROVE  KernelTypes'
<1>1. toHost \in Seq(KernelPackets) /\ kernel \in Kernels /\ kernel.id \in Bits
    BY DEF KernelTypes, Kernels
<1>2. CASE KernelNoise
    <2>1. kernel.noise \in 0 .. MaxNoise /\ kernel.noise < MaxNoise
        BY <1>1, <1>2 DEF KernelNoise, Kernels
    <2>2. PICK kind \in {"PRINT", "IO"} :
             /\ toHost' = Append(toHost, Own(kernel, kind, Nothing))
             /\ kernel' = [Sent(kernel, kind, Nothing) EXCEPT !.noise = @ + 1, !.filing = (kind = "IO")]
        BY <1>2 DEF KernelNoise
    <2> DEFINE own == Own(kernel, kind, Nothing)
               k == Sent(kernel, kind, Nothing)
    <2>3. own \in KernelPackets
        BY <1>1, SentByKernel DEF Own, Data, Abouts
    <2>4. k \in Kernels /\ k.noise = kernel.noise
        BY <1>1, <2>3 DEF Sent, Kernels
    <2> HIDE DEF own, k
    <2>5. kernel.noise + 1 \in 0 .. MaxNoise
        BY <2>1, Constants
    <2>6. [k EXCEPT !.noise = @ + 1, !.filing = (kind = "IO")] \in Kernels
        BY <2>4, <2>5 DEF Kernels
    <2> QED  BY <1>1, <2>2, <2>3, <2>6 DEF KernelTypes, own, k
<1>3. ASSUME NEW stop \in Stops, KernelStop(stop) PROVE KernelTypes'
    <2> DEFINE own == Own(kernel, "STATE_CHANGE", stop)
               k == Sent(kernel, "STATE_CHANGE", stop)
    <2>1. own \in KernelPackets
        BY <1>1, SentByKernel DEF Own
    <2>2. k \in Kernels
        BY <1>1, <2>1 DEF Sent, Kernels
    <2>3. /\ toHost' = Append(toHost, own)
          /\ kernel' = [k EXCEPT !.running = FALSE, !.stop = stop, !.breakin = FALSE]
        BY <1>3 DEF KernelStop
    <2> HIDE DEF own, k
    <2>4. [k EXCEPT !.running = FALSE, !.stop = stop, !.breakin = FALSE] \in Kernels
        BY <2>2 DEF Kernels
    <2> QED  BY <1>1, <2>1, <2>3, <2>4 DEF KernelTypes
<1>4. CASE KernelResend
    <2>1. kernel.unacked \in KernelPackets
        BY <1>1, <1>4 DEF KernelResend, Free, Kernels
    <2> QED  BY <1>1, <1>4, <2>1 DEF KernelResend, KernelTypes
<1> QED  BY <1>2, <1>3, <1>4

LEMMA NextTypes ==
    ASSUME TypeInv, [Next]_vars
    PROVE  TypeInv'
<1>0. HostTypes /\ KernelTypes /\ BoundTypes
    BY TypeParts
<1> USE DEF host, line
<1>1. CASE \/ wind_sync \/ wind_continue \/ r_debug_wind_step \/ r_debug_wind_wait
           \/ (\E r \in Requests : Request(r)) \/ wstatic_debug_break
    <2>1. UNCHANGED <<toHost, kernel, lost, kills>>
        BY <1>1 DEF wind_sync, wind_continue, r_debug_wind_step, r_debug_wind_wait, Request,
                    wstatic_debug_break
    <2>2. HostTypes'
        BY <1>0, <1>1, StartTypes
    <2> QED  BY <1>0, <2>1, <2>2, TypeParts DEF KernelTypes, BoundTypes, TypeInv, HostTypes
<1>2. CASE wind_wait_packet
    <2>1. UNCHANGED <<lost, kills>>
        BY <1>2 DEF wind_wait_packet
    <2>2. HostTypes' /\ KernelTypes'
        BY <1>0, <1>2, ReadTypes
    <2> QED  BY <1>0, <2>1, <2>2 DEF KernelTypes, BoundTypes, TypeInv, HostTypes
<1>3. CASE KernelRead
    <2>1. UNCHANGED <<lost, kills>>
        BY <1>3 DEF KernelRead
    <2>2. HostTypes' /\ KernelTypes'
        BY <1>0, <1>3, KernelReadTypes
    <2> QED  BY <1>0, <2>1, <2>2 DEF KernelTypes, BoundTypes, TypeInv, HostTypes
<1>4. CASE KernelNoise \/ (\E stop \in Stops : KernelStop(stop)) \/ KernelResend
    <2>1. UNCHANGED <<toTarget, host, lost, kills>>
        BY <1>4 DEF KernelNoise, KernelStop, KernelResend
    <2>2. KernelTypes'
        BY <1>0, <1>4, KernelSendTypes
    <2>3. HostTypes'
        BY <1>0, <2>1 DEF HostTypes, StackOK
    <2> QED  BY <1>0, <2>1, <2>2, <2>3 DEF KernelTypes, BoundTypes, TypeInv, HostTypes
<1>5. CASE Lose
    <2>1. lost' \in 0 .. MaxLoss
        BY <1>0, <1>5, Constants DEF Lose, BoundTypes
    <2>2. toTarget' \in Seq(HostPackets) /\ toHost' \in Seq(KernelPackets)
        <3>1. toTarget \in Seq(HostPackets) /\ toHost \in Seq(KernelPackets)
            BY <1>0 DEF HostTypes, KernelTypes
        <3>2. \/ toHost # << >> /\ toHost' = Tail(toHost) /\ UNCHANGED toTarget
              \/ toTarget # << >> /\ toTarget' = Tail(toTarget) /\ UNCHANGED toHost
            BY <1>5 DEF Lose
        <3>3. /\ toHost # << >> => Tail(toHost) \in Seq(KernelPackets)
              /\ toTarget # << >> => Tail(toTarget) \in Seq(HostPackets)
            BY <3>1
        <3> QED  BY <3>1, <3>2, <3>3
    <2>3. UNCHANGED <<host, kernel, kills>>
        BY <1>5 DEF Lose
    <2>4. StackOK'
        BY <1>0, <2>3 DEF HostTypes, StackOK
    <2> QED  BY <1>0, <2>1, <2>2, <2>3, <2>4 DEF KernelTypes, BoundTypes, TypeInv, HostTypes
<1>6. CASE Kill
    <2>1. kills' \in 0 .. MaxKills
        BY <1>0, <1>6, Constants DEF Kill, BoundTypes
    <2>2. StackOK' /\ toHost' \in Seq(KernelPackets)
        BY <1>6 DEF Kill, StackOK
    <2> QED  BY <1>0, <1>6, <2>1, <2>2 DEF Kill, KernelTypes, BoundTypes, TypeInv, HostTypes, Bits
<1>7. CASE Unheard
    <2>1. StackOK' /\ toHost' \in Seq(KernelPackets)
        BY <1>0, <1>7 DEF Unheard, HostTypes, StackOK
    <2> QED  BY <1>0, <1>7, <2>1 DEF Unheard, KernelTypes, BoundTypes, TypeInv, HostTypes
<1>8. CASE UNCHANGED vars
    <2>1. StackOK'
        BY <1>0, <1>8 DEF vars, HostTypes, StackOK
    <2> QED  BY <1>0, <1>8, <2>1 DEF vars, KernelTypes, BoundTypes, TypeInv, HostTypes
<1> QED  BY <1>1, <1>2, <1>3, <1>4, <1>5, <1>6, <1>7, <1>8 DEF Next

LEMMA TypeInvImplies == TypeInv => TypeOK
<1> SUFFICES ASSUME TypeInv PROVE TypeOK
    OBVIOUS
<1>1. \A p \in Range(toTarget) : p \in HostPackets
    BY RangeIs DEF TypeInv
<1>2. \A p \in Range(toHost) : p \in KernelPackets
    BY RangeIs DEF TypeInv
<1>3. /\ \A p \in Range(toTarget) :
          /\ p.kind \in {"BREAKIN", "RESET", "ACK", "MANIP", "IO"} /\ p.id \in {0, 1}
          /\ p.kind = "MANIP" => p.about \in Requests \cup {Continue}
      /\ \A p \in Range(toHost) :
          /\ p.kind \in {"RESET", "ACK", "RESEND"} \cup Data /\ p.id \in {0, 1}
          /\ p.kind = "STATE_CHANGE" => p.about \in Stops
    BY <1>1, <1>2, PacketFields DEF Bits
<1>4. (waits = << >>) <=> (call \in {"down", "none"})
    BY DEF TypeInv, StackOK, GoodStack
<1>5. ASSUME NEW i \in 1 .. Len(waits)
      PROVE  /\ waits[i].type \in {"RESET", "ACK", "MANIP", "STATE_CHANGE"}
             /\ waits[i].left \in (IF i = Len(waits) THEN 0 ELSE -1) .. Retries
             /\ i > 1 => waits[i].type = "ACK"
    <2>1. GoodStack(waits)
        BY DEF TypeInv, StackOK
    <2>2. waits \in Seq(Frames) /\ waits[i] \in Frames /\ waits[Len(waits)].left \in 0 .. Retries
        BY <2>1, LastFrame
    <2>3. i > 1 => i \in 2 .. Len(waits)
        BY <2>2
    <2> QED  BY <2>1, <2>2, <2>3 DEF Frames, GoodStack
<1>6. kernel.noise \in 0 .. MaxNoise
    BY DEF TypeInv, Kernels
<1> QED  BY <1>3, <1>4, <1>5, <1>6 DEF TypeInv, TypeOK, Bits

\* Packets have the kinds and contents that either end knows, and the stack of
\* wind_wait_packet calls is one the code can build: a wait that has used its
\* retries up is never the innermost one.  On every line, also one that loses
\* and repeats packets at will.
THEOREM TypeCorrect == Spec => []TypeOK
<1>1. Init => TypeInv
    BY InitTypes
<1>2. TypeInv /\ [Next]_vars => TypeInv'
    BY NextTypes
<1>3. TypeInv => TypeOK
    BY TypeInvImplies
<1> QED  BY <1>1, <1>2, <1>3, PTL DEF Spec

----------------------------------------------------------------------------
(* The kernel's packet and the question of a call.                         *)

LEMMA KernelFields ==
    ASSUME TypeInv
    PROVE  /\ kernel \in Kernels /\ kernel.running \in BOOLEAN /\ kernel.breakin \in BOOLEAN
           /\ kernel.filing \in BOOLEAN /\ kernel.stop \in Stops
           /\ kernel.id \in Bits /\ kernel.expect \in Bits
           /\ kernel.noise \in 0 .. MaxNoise /\ kernel.noise \in Nat
           /\ kernel.unacked \in KernelPackets \cup {NoPacket}
           /\ ~Free => kernel.unacked \in KernelPackets
BY Constants DEF TypeInv, Kernels, Free

\* What the kernel is after each of its steps.
LEMMA SentIs ==
    ASSUME NEW k \in Kernels, NEW kind, NEW about
    PROVE  /\ Sent(k, kind, about).unacked = Packet(kind, k.id, about)
           /\ Sent(k, kind, about).running = k.running /\ Sent(k, kind, about).stop = k.stop
           /\ Sent(k, kind, about).id = k.id /\ Sent(k, kind, about).expect = k.expect
           /\ Sent(k, kind, about).breakin = k.breakin /\ Sent(k, kind, about).filing = k.filing
           /\ Sent(k, kind, about).noise = k.noise
           /\ DOMAIN Sent(k, kind, about) = DOMAIN k
BY DEF Sent, Own, Kernels

LEMMA NoiseIs ==
    ASSUME TypeInv, KernelNoise
    PROVE  \E kind \in {"PRINT", "IO"} :
              /\ Within("attach_io", kind = "IO" /\ Attaching)
              /\ kernel.running /\ Free /\ ~kernel.filing /\ ~kernel.breakin
              /\ toHost' = Append(toHost, kernel'.unacked)
              /\ kernel'.unacked = Packet(kind, kernel.id, Nothing)
              /\ kernel'.filing = (kind = "IO") /\ kernel'.noise = kernel.noise + 1
              /\ kernel'.running = kernel.running /\ kernel'.breakin = kernel.breakin
              /\ kernel'.id = kernel.id /\ kernel'.expect = kernel.expect
              /\ UNCHANGED <<toTarget, host, lost, kills>>
<1>1. PICK kind \in {"PRINT", "IO"} :
         /\ Within("attach_io", kind = "IO" /\ Attaching)
         /\ toHost' = Append(toHost, Own(kernel, kind, Nothing))
         /\ kernel' = [Sent(kernel, kind, Nothing) EXCEPT !.noise = @ + 1, !.filing = (kind = "IO")]
    BY DEF KernelNoise
<1>2. kernel \in Kernels
    BY KernelFields
<1>3. /\ kernel'.unacked = Packet(kind, kernel.id, Nothing)
      /\ kernel'.filing = (kind = "IO") /\ kernel'.noise = kernel.noise + 1
      /\ kernel'.running = kernel.running /\ kernel'.breakin = kernel.breakin
      /\ kernel'.id = kernel.id /\ kernel'.expect = kernel.expect
    <2>1. DOMAIN kernel = {"running", "stop", "unacked", "id", "expect", "breakin", "filing", "noise"}
        BY <1>2 DEF Kernels
    <2> QED  BY <1>1, <1>2, <2>1, SentIs
<1> QED  BY <1>1, <1>3 DEF KernelNoise, Own

LEMMA StopIs ==
    ASSUME TypeInv, NEW stop \in Stops, KernelStop(stop)
    PROVE  /\ kernel.running /\ Free /\ ~kernel.filing
           /\ toHost' = Append(toHost, kernel'.unacked)
           /\ kernel'.unacked = Packet("STATE_CHANGE", kernel.id, stop)
           /\ ~kernel'.running /\ ~kernel'.breakin /\ kernel'.stop = stop
           /\ kernel'.filing = kernel.filing /\ kernel'.noise = kernel.noise
           /\ kernel'.id = kernel.id /\ kernel'.expect = kernel.expect
           /\ UNCHANGED <<toTarget, host, lost, kills>>
<1>1. kernel \in Kernels
    BY KernelFields
<1>2. /\ toHost' = Append(toHost, Own(kernel, "STATE_CHANGE", stop))
      /\ kernel' = [Sent(kernel, "STATE_CHANGE", stop) EXCEPT
                       !.running = FALSE, !.stop = stop, !.breakin = FALSE]
    BY DEF KernelStop
<1>3. DOMAIN kernel = {"running", "stop", "unacked", "id", "expect", "breakin", "filing", "noise"}
    BY <1>1 DEF Kernels
<1>4. /\ kernel'.unacked = Packet("STATE_CHANGE", kernel.id, stop)
      /\ ~kernel'.running /\ ~kernel'.breakin /\ kernel'.stop = stop
      /\ kernel'.filing = kernel.filing /\ kernel'.noise = kernel.noise
      /\ kernel'.id = kernel.id /\ kernel'.expect = kernel.expect
    BY <1>1, <1>2, <1>3, SentIs
<1> QED  BY <1>2, <1>4 DEF KernelStop, Own

\* The cases of KernelRead, each with the kernel after it.
Same(k) ==
    /\ k.running = kernel.running /\ k.stop = kernel.stop /\ k.breakin = kernel.breakin
    /\ k.filing = kernel.filing /\ k.noise = kernel.noise /\ k.expect = kernel.expect

LEMMA ReadBreakin ==
    ASSUME TypeInv, KernelRead, Head(toTarget).kind = "BREAKIN"
    PROVE  /\ toTarget' = Tail(toTarget) /\ UNCHANGED <<toHost, host, lost, kills>>
           /\ kernel'.breakin = kernel.running
           /\ kernel'.running = kernel.running /\ kernel'.stop = kernel.stop
           /\ kernel'.unacked = kernel.unacked /\ kernel'.id = kernel.id
           /\ kernel'.filing = kernel.filing /\ kernel'.noise = kernel.noise
           /\ kernel'.expect = kernel.expect
<1>1. kernel \in Kernels
    BY KernelFields
<1>2. kernel' = [kernel EXCEPT !.breakin = kernel.running] /\ UNCHANGED toHost
    BY DEF KernelRead, Data
<1> QED  BY <1>1, <1>2 DEF KernelRead, Kernels

LEMMA ReadAck ==
    ASSUME TypeInv, KernelRead, Head(toTarget).kind = "ACK"
    PROVE  /\ toTarget' = Tail(toTarget) /\ UNCHANGED <<toHost, host, lost, kills>>
           /\ IF ~Free /\ Head(toTarget).id = kernel.unacked.id
              THEN kernel'.unacked = NoPacket /\ kernel'.id = 1 - kernel.id /\ Same(kernel')
              ELSE kernel' = kernel
<1>1. kernel \in Kernels
    BY KernelFields
<1>2. /\ UNCHANGED toHost
      /\ kernel' = IF ~Free /\ Head(toTarget).id = kernel.unacked.id
                   THEN [kernel EXCEPT !.unacked = NoPacket, !.id = 1 - @] ELSE kernel
    BY DEF KernelRead, Data
<1> QED  BY <1>1, <1>2 DEF KernelRead, Kernels, Same

LEMMA ReadReset ==
    ASSUME TypeInv, KernelRead, Head(toTarget).kind = "RESET"
    PROVE  /\ toTarget' = Tail(toTarget) /\ UNCHANGED <<host, lost, kills>>
           /\ kernel'.running = kernel.running /\ kernel'.stop = kernel.stop
           /\ kernel'.breakin = kernel.breakin /\ kernel'.noise = kernel.noise
           /\ kernel'.id = 0 /\ kernel'.expect = 0 /\ ~kernel'.filing
           /\ kernel.running => /\ kernel'.unacked = NoPacket
                                /\ toHost' = toHost \o <<Ctrl("RESET", 0)>>
           /\ ~kernel.running => /\ kernel'.unacked = Packet("STATE_CHANGE", 0, kernel.stop)
                                 /\ toHost' = toHost \o <<Ctrl("RESET", 0)>> \o <<kernel'.unacked>>
<1>1. kernel \in Kernels
    BY KernelFields
<1>2. Reset
    BY DEF KernelRead, Data
<1> DEFINE k == [kernel EXCEPT !.id = 0, !.expect = 0, !.unacked = NoPacket, !.filing = FALSE]
<1>3. /\ k.running = kernel.running /\ k.stop = kernel.stop
      /\ k.breakin = kernel.breakin /\ k.noise = kernel.noise
      /\ k.id = 0 /\ k.expect = 0 /\ ~k.filing /\ k.unacked = NoPacket /\ k \in Kernels
    BY <1>1 DEF Kernels, Bits
<1>4. IF k.running
      THEN kernel' = k /\ toHost' = toHost \o <<Ctrl("RESET", 0)>>
      ELSE /\ kernel' = Sent(k, "STATE_CHANGE", k.stop)
           /\ toHost' = toHost \o <<Ctrl("RESET", 0)>> \o <<Own(k, "STATE_CHANGE", k.stop)>>
    BY <1>2 DEF Reset
<1> HIDE DEF k
<1> QED  BY <1>3, <1>4, SentIs DEF KernelRead, Own

\* A packet with the number the kernel expects, that it is waiting for.
LEMMA ReadAwaited ==
    ASSUME TypeInv, KernelRead, Free,
           Head(toTarget).id = kernel.expect,
           \/ ~kernel.running /\ Head(toTarget).kind = "MANIP"
           \/ kernel.running /\ kernel.filing /\ Head(toTarget).kind = "IO"
    PROVE  LET p == Head(toTarget)
               ack == <<Ctrl("ACK", p.id)>>
           IN  /\ toTarget' = Tail(toTarget) /\ UNCHANGED <<host, lost, kills>>
               /\ kernel'.expect = 1 - kernel.expect /\ kernel'.id = kernel.id
               /\ kernel'.breakin = kernel.breakin
               /\ p.kind = "IO" => /\ ~kernel'.filing /\ kernel'.running = kernel.running
                                   /\ kernel'.noise = kernel.noise
                                   /\ kernel'.unacked = NoPacket /\ toHost' = toHost \o ack
               /\ (p.kind = "MANIP" /\ p.about = Continue) =>
                      /\ kernel'.filing = kernel.filing /\ kernel'.running
                      /\ kernel'.unacked = NoPacket /\ toHost' = toHost \o ack
               /\ (p.kind = "MANIP" /\ p.about # Continue) =>
                      /\ ~kernel'.running /\ kernel'.filing = kernel.filing
                      /\ kernel'.unacked = Packet("MANIP", kernel.id, p.about)
                      /\ toHost' = toHost \o ack \o <<kernel'.unacked>>
<1> DEFINE p == Head(toTarget)
           k == [kernel EXCEPT !.expect = 1 - @]
<1>1. kernel \in Kernels /\ kernel.expect \in Bits /\ kernel.unacked = NoPacket
    BY KernelFields DEF Free
<1>2. Accept(p)
    BY DEF KernelRead, Data
<1>3. /\ k \in Kernels /\ k.expect = 1 - kernel.expect /\ k.running = kernel.running
      /\ k.breakin = kernel.breakin /\ k.filing = kernel.filing /\ k.noise = kernel.noise
      /\ k.id = kernel.id /\ k.unacked = NoPacket
    BY <1>1, Flips DEF Kernels
<1>4. IF p.kind = "IO"
      THEN kernel' = [k EXCEPT !.filing = FALSE] /\ toHost' = toHost \o <<Ctrl("ACK", p.id)>>
      ELSE IF p.about = Continue
      THEN /\ kernel' = [k EXCEPT !.running = TRUE, !.noise = 0]
           /\ toHost' = toHost \o <<Ctrl("ACK", p.id)>>
      ELSE /\ kernel' = Sent(k, "MANIP", p.about)
           /\ toHost' = toHost \o <<Ctrl("ACK", p.id)>> \o <<Own(k, "MANIP", p.about)>>
    BY <1>2 DEF Accept
<1>5. toTarget' = Tail(toTarget) /\ UNCHANGED <<host, lost, kills>>
    BY DEF KernelRead
<1>6. p.kind = "IO" \/ (p.kind = "MANIP" /\ ~kernel.running)
    OBVIOUS
<1> HIDE DEF p, k
<1>7. CASE p.kind = "IO"
    BY <1>3, <1>4, <1>5, <1>7 DEF p, Kernels
<1>8. CASE p.kind = "MANIP" /\ p.about = Continue
    BY <1>3, <1>4, <1>5, <1>8 DEF p, Kernels
<1>9. CASE p.kind = "MANIP" /\ p.about # Continue
    <2>1. /\ kernel' = Sent(k, "MANIP", p.about)
          /\ toHost' = toHost \o <<Ctrl("ACK", p.id)>> \o <<Packet("MANIP", k.id, p.about)>>
        BY <1>4, <1>9 DEF Own
    <2> QED  BY <1>3, <1>5, <1>6, <1>9, <2>1, SentIs DEF p
<1> QED  BY <1>6, <1>7, <1>8, <1>9

LEMMA UnackedNext ==
    ASSUME TypeInv, UnackedInv, [Next]_vars
    PROVE  UnackedInv'
<1> USE DEF UnackedInv
<1>1. CASE KernelNoise
    BY <1>1, NoiseIs, KernelFields, PacketFields DEF Data
<1>2. ASSUME NEW stop \in Stops, KernelStop(stop) PROVE UnackedInv'
    BY <1>2, StopIs, PacketFields DEF Data
<1>3. CASE KernelRead
    <2> DEFINE p == Head(toTarget)
    <2>1. p \in HostPackets /\ p.kind \in {"BREAKIN", "RESET", "ACK", "MANIP", "IO"}
        BY <1>3, QueueTypes, PacketFields DEF KernelRead, TypeInv
    <2>2. CASE p.kind = "BREAKIN"
        BY <1>3, <2>2, ReadBreakin
    <2>3. CASE p.kind = "RESET"
        BY <1>3, <2>3, ReadReset, PacketFields DEF Data
    <2>4. CASE p.kind = "ACK"
        BY <1>3, <2>4, ReadAck, KernelFields DEF Same
    <2>5. CASE kernel' = kernel
        BY <2>5
    <2>6. CASE p.kind \in {"MANIP", "IO"} /\ kernel' # kernel
        <3>1. /\ Free /\ p.id = kernel.expect
              /\ IF kernel.running THEN kernel.filing /\ p.kind = "IO" ELSE p.kind = "MANIP"
            BY <1>3, <2>6 DEF KernelRead
        <3>2. CASE p.kind = "IO"
            BY <1>3, <3>1, <3>2, ReadAwaited
        <3>3. CASE p.kind = "MANIP" /\ p.about = Continue
            BY <1>3, <3>1, <3>3, ReadAwaited
        <3>4. CASE p.kind = "MANIP" /\ p.about # Continue
            BY <1>3, <3>1, <3>4, ReadAwaited, PacketFields DEF Data
        <3> QED  BY <2>6, <3>2, <3>3, <3>4
    <2> QED  BY <2>1, <2>2, <2>3, <2>4, <2>5, <2>6
<1>4. CASE UNCHANGED kernel
    BY <1>4
<1>5. \/ KernelNoise \/ (\E stop \in Stops : KernelStop(stop)) \/ KernelRead \/ UNCHANGED kernel
    BY DEF Next, vars, wind_sync, wind_continue, r_debug_wind_step, r_debug_wind_wait, Request,
           wstatic_debug_break, wind_wait_packet, KernelResend, Lose, Kill, Unheard
<1> QED  BY <1>1, <1>2, <1>3, <1>4, <1>5

LEMMA AskedNext ==
    ASSUME TypeInv, AskedInv, [Next]_vars
    PROVE  AskedInv'
<1> USE DEF AskedInv
<1>1. CASE wind_wait_packet
    <2> DEFINE p == Head(toHost)
    <2>1. \/ do_io_reply(p) \/ CallFailed(p) \/ Return(p) \/ ReadOver(p)
        BY <1>1 DEF wind_wait_packet
    <2>2. UNCHANGED asked
        BY <2>1 DEF do_io_reply, CallFailed, Return, ReadOver, Unwind, CallReturned, SyncReturned,
                    RequestReturned, ContinueReturned, WaitReturned, ResumeReturned, End
    <2>3. \/ call' = call \/ call' \in {"none", "down"}
          \/ call \in {"wait", "resume"} /\ call' \in {"wait", "resume"}
        BY <2>1 DEF do_io_reply, CallFailed, Return, ReadOver, Unwind, CallReturned, SyncReturned,
                    RequestReturned, ContinueReturned, WaitReturned, ResumeReturned, End
    <2> QED  BY <2>2, <2>3
<1>2. CASE \/ wind_sync \/ wind_continue \/ r_debug_wind_step \/ r_debug_wind_wait
           \/ (\E r \in Requests : Request(r)) \/ wstatic_debug_break
    BY <1>2 DEF wind_sync, wind_continue, r_debug_wind_step, r_debug_wind_wait, Request,
                wstatic_debug_break
<1>3. CASE UNCHANGED <<call, asked>> \/ Kill
    BY <1>3 DEF Kill
<1>4. \/ wind_wait_packet \/ wind_sync \/ wind_continue \/ r_debug_wind_step \/ r_debug_wind_wait
      \/ (\E r \in Requests : Request(r)) \/ wstatic_debug_break
      \/ UNCHANGED <<call, asked>> \/ Kill
    BY DEF Next, vars, host, KernelNoise, KernelStop, KernelRead, KernelResend, Lose, Unheard
<1> QED  BY <1>1, <1>2, <1>3, <1>4

----------------------------------------------------------------------------
(* The phases.  The line repeats nothing that arrived, loses nothing that  *)
(* is not repeated, is empty when a host starts, and the kernel prints no  *)
(* more in one run than a wait reads over.                                 *)

Orderly == Borders = {} /\ Retries # 0 /\ MaxNoise <= Retries

LEMMA SeqEq ==
    ASSUME NEW S, NEW s \in Seq(S), NEW t \in Seq(S), Len(s) = Len(t),
           \A i \in 1 .. Len(s) : s[i] = t[i]
    PROVE  s = t
OBVIOUS

LEMMA Appended ==
    ASSUME NEW S, NEW s \in Seq(S), NEW x \in S
    PROVE  /\ Append(s, x) \in Seq(S) /\ Append(s, x) = s \o <<x>>
           /\ Len(Append(s, x)) = Len(s) + 1 /\ Append(s, x)[Len(s) + 1] = x
           /\ \A i \in 1 .. Len(s) : Append(s, x)[i] = s[i]
OBVIOUS

LEMMA Singles ==
    ASSUME NEW a
    PROVE  /\ <<a>> # << >> /\ Head(<<a>>) = a /\ Tail(<<a>>) = << >> /\ Len(<<a>>) = 1
           /\ <<a>>[1] = a /\ Append(<< >>, a) = <<a>>
           /\ << >> \o <<a>> = <<a>> /\ <<a>> \o << >> = <<a>>
           /\ << >> \o << >> = << >> /\ Len(<< >>) = 0
OBVIOUS

LEMMA Pairs ==
    ASSUME NEW a, NEW b
    PROVE  /\ <<a, b>> # << >> /\ Head(<<a, b>>) = a /\ Tail(<<a, b>>) = <<b>>
           /\ Len(<<a, b>>) = 2 /\ <<a, b>>[1] = a /\ <<a, b>>[2] = b
           /\ Append(<<a>>, b) = <<a, b>> /\ <<a>> \o <<b>> = <<a, b>>
           /\ << >> \o <<a, b>> = <<a, b>>
<1>1. /\ <<a, b>> # << >> /\ Head(<<a, b>>) = a /\ Tail(<<a, b>>) = <<b>>
      /\ Len(<<a, b>>) = 2 /\ <<a, b>>[1] = a /\ <<a, b>>[2] = b
    OBVIOUS
<1> DEFINE S == {a, b}
           p == <<a, b>>
<1>2. p \in Seq(S) /\ <<a>> \in Seq(S) /\ <<b>> \in Seq(S) /\ << >> \in Seq(S)
      /\ Len(<<a>>) = 1 /\ <<a>>[1] = a /\ Len(<<b>>) = 1 /\ <<b>>[1] = b /\ Len(p) = 2
      /\ p[1] = a /\ p[2] = b /\ a \in S /\ b \in S
    OBVIOUS
<1> HIDE DEF S, p
<1> DEFINE q == Append(<<a>>, b)
           r == <<a>> \o <<b>>
<1>3. q \in Seq(S) /\ Len(q) = 2 /\ q[1] = a /\ q[2] = b
    BY <1>2
<1>4. r \in Seq(S) /\ Len(r) = 2 /\ r[1] = a /\ r[2] = b
    BY <1>2
<1>5. << >> \o p = p
    BY <1>2
<1> HIDE DEF q, r
<1>6. q = p
    BY <1>2, <1>3, SeqEq
<1>7. r = p
    BY <1>2, <1>4, SeqEq
<1> QED  BY <1>1, <1>5, <1>6, <1>7 DEF p, q, r

LEMMA Triples ==
    ASSUME NEW a, NEW b, NEW c
    PROVE  /\ <<a, b, c>> # << >> /\ Head(<<a, b, c>>) = a /\ Tail(<<a, b, c>>) = <<b, c>>
           /\ Append(<<a, b>>, c) = <<a, b, c>> /\ <<a, b>> \o <<c>> = <<a, b, c>>
           /\ <<a, b, c>>[1] = a
<1>1. /\ <<a, b, c>> # << >> /\ Head(<<a, b, c>>) = a /\ Tail(<<a, b, c>>) = <<b, c>>
      /\ <<a, b, c>>[1] = a
    OBVIOUS
<1> DEFINE S == {a, b, c}
           p == <<a, b, c>>
           d == <<a, b>>
<1>2. p \in Seq(S) /\ d \in Seq(S) /\ <<c>> \in Seq(S)
      /\ Len(d) = 2 /\ d[1] = a /\ d[2] = b /\ Len(<<c>>) = 1 /\ <<c>>[1] = c /\ Len(p) = 3
      /\ p[1] = a /\ p[2] = b /\ p[3] = c /\ c \in S
    OBVIOUS
<1> DEFINE q == Append(d, c)
<1> HIDE DEF S, p, d, q
<1>3. /\ q \in Seq(S) /\ q = d \o <<c>> /\ Len(q) = Len(d) + 1 /\ q[Len(d) + 1] = c
      /\ \A i \in 1 .. Len(d) : q[i] = d[i]
    <2>1. d \in Seq(S) /\ c \in S
        BY <1>2
    <2> QED  BY <2>1, Appended DEF q
<1>4. Len(q) = 3 /\ q[1] = a /\ q[2] = b /\ q[3] = c
    BY <1>2, <1>3
<1>5. q = p
    BY <1>2, <1>3, <1>4, SeqEq
<1> QED  BY <1>1, <1>3, <1>5 DEF p, d, q

LEMMA FirstOf ==
    ASSUME NEW S, NEW x \in S, NEW s \in Seq(S)
    PROVE  /\ <<x>> \o s # << >> /\ Head(<<x>> \o s) = x /\ Tail(<<x>> \o s) = s
           /\ \A y \in S : Append(<<x>> \o s, y) = <<x>> \o Append(s, y)
           /\ Len(<<x>> \o s) = Len(s) + 1 /\ (<<x>> \o s)[1] = x
           /\ s \o << >> = s /\ << >> \o s = s
           /\ \A i \in 1 .. Len(s) : (<<x>> \o s)[i + 1] = s[i]
OBVIOUS

\* Every phase but the first is about a host that runs.
LEMMA PhaseCalls ==
    /\ Prompt => call = "none" /\ stopped
    /\ Away => call \in {"none", "wait"} /\ ~stopped
    /\ ResetSent \/ ResetRead \/ Reporting => call = "sync"
    /\ Asked => call \in {"request", "continue", "resume"}
    /\ Answered => call = "request"
    /\ Continued => call \in {"continue", "resume"}
    /\ Serving => call = "wait"
BY DEF Prompt, Away, ResetSent, ResetRead, Reporting, Asked, Answered, Continued, Serving

LEMMA SyncStarts ==
    ASSUME Orderly, KdInv, wind_sync
    PROVE  ResetSent'
<1>1. toTarget = << >> /\ toHost = << >>
    BY DEF Orderly, wind_sync, Within
<1>2. toTarget' = <<Breakin, Ctrl("RESET", 0)>> /\ toHost' = << >> /\ call' = "sync"
    BY <1>1, Pairs DEF wind_sync
<1>3. waits' = <<Frame("RESET")>> /\ UNCHANGED kernel
    BY DEF wind_sync
<1>4. One("RESET")' /\ waits'[1].left = Retries
    BY <1>3, FrameType, GoodOne DEF One
<1> QED  BY <1>2, <1>3, <1>4, Pairs DEF ResetSent

LEMMA CallStarts ==
    ASSUME KdInv, (\E r \in Requests : Request(r)) \/ wind_continue
    PROVE  Asked'
<1>1. Prompt
    BY PhaseCalls DEF KdInv, Phase, Request, wind_continue, Idle
<1> DEFINE m == toTarget'[Len(toTarget')]
           about == IF call' = "request" THEN asked' ELSE Continue
<1>2. /\ toTarget' = Append(toTarget, Packet("MANIP", 1 - seq, about))
      /\ call' \in {"request", "continue"} /\ seq' = 1 - seq /\ waits' = <<Frame("ACK")>>
      /\ UNCHANGED <<toHost, stopped, kernel>>
    BY DEF Request, wind_continue, SendData
<1> HIDE DEF about
<1>3. One("ACK")'
    BY <1>2, FrameType, GoodOne DEF One
<1>5. toTarget \in Seq(HostPackets)
    BY DEF KdInv, TypeInv
<1>6. Only({"ACK"}, toTarget) /\ stopped /\ ~kernel.running /\ kernel.expect = 1 - seq /\ toHost = << >>
    BY <1>1 DEF Prompt
<1>7. \E acks \in Seq(HostPackets) :
         /\ toTarget' = Append(acks, Packet("MANIP", seq', about))
         /\ Only({"ACK"}, acks) /\ Settled(kernel'.unacked, acks)
    BY <1>1, <1>2, <1>5, <1>6 DEF Prompt, Settles
<1> QED  BY <1>2, <1>3, <1>6, <1>7 DEF Asked, Only, Settles, about

LEMMA StepStarts ==
    ASSUME KdInv, r_debug_wind_step
    PROVE  Away'
<1>1. Prompt
    BY PhaseCalls DEF KdInv, Phase, r_debug_wind_step, Idle
<1>2. UNCHANGED <<toTarget, toHost, call, waits, seq, asked, got, kernel>> /\ ~stopped'
    BY DEF r_debug_wind_step, line
<1>3. Only({"ACK", "BREAKIN"}, toTarget)
    BY <1>1 DEF Prompt, Only
<1> QED  BY <1>1, <1>2, <1>3 DEF Prompt, Away, Only, Settles, One, Run, Room

LEMMA WaitStarts ==
    ASSUME KdInv, r_debug_wind_wait
    PROVE  Away'
<1>1. Away /\ call = "none"
    BY PhaseCalls DEF KdInv, Phase, r_debug_wind_wait, Idle
<1>2. /\ UNCHANGED <<toTarget, toHost, seq, kernel, stopped>> /\ call' = "wait"
      /\ waits' = <<Frame("STATE_CHANGE")>>
    BY DEF r_debug_wind_wait, line
<1>3. One("STATE_CHANGE")' /\ waits'[1].left = Retries
    BY <1>2, FrameType, GoodOne DEF One
<1>4. kernel.noise \in Nat /\ Retries \in Nat
    BY KernelFields, Constants DEF KdInv
<1>5. Room(0)' /\ (~Free /\ kernel.running => Room(1)')
    BY <1>2, <1>3, <1>4 DEF Room, KdInv, UnackedInv, Free
<1>6. ~stopped' /\ kernel'.expect = 1 - seq'
    BY <1>1, <1>2 DEF Away
<1>7. CASE ~kernel.running /\ toHost = << >> /\ Only({"ACK", "BREAKIN"}, toTarget) /\ Settles(toTarget)
    BY <1>2, <1>3, <1>6, <1>7 DEF Away, Only, Settles
<1>8. CASE ~Free /\ Run /\ toTarget = << >> /\ toHost \in {<< >>, <<kernel.unacked>>}
    <2>1. Room(IF kernel.running THEN 1 ELSE 0)'
        BY <1>2, <1>5, <1>8
    <2> QED  BY <1>2, <1>3, <1>6, <1>8, <2>1 DEF Away, Free, Run
<1>9. CASE /\ kernel.running /\ ~kernel.breakin /\ ~kernel.filing /\ toHost = << >>
           /\ \/ Free /\ toTarget = << >>
              \/ ~Free /\ toTarget = <<Ack(kernel.unacked)>>
    BY <1>2, <1>3, <1>5, <1>6, <1>9 DEF Away, Free
<1> QED  BY <1>1, <1>7, <1>8, <1>9 DEF Away

----------------------------------------------------------------------------
(* What the kernel and the line do in each phase.                          *)

\* Under these conditions the line only loses what the kernel sends again.
LEMMA LoseIs ==
    ASSUME Orderly, Lose
    PROVE  /\ toHost # << >> /\ Head(toHost) = kernel.unacked /\ ~Received
           /\ toHost' = Tail(toHost) /\ UNCHANGED <<toTarget, host, kernel, kills>>
BY DEF Orderly, Lose, Within

LEMMA ResendIs ==
    ASSUME Orderly, KernelResend
    PROVE  /\ ~Free /\ kernel.unacked \notin Range(toHost) /\ ~Received
           /\ kernel.unacked.kind = "IO" => ~Attaching
           /\ toHost' = Append(toHost, kernel.unacked)
           /\ UNCHANGED <<toTarget, host, kernel, lost, kills>>
BY DEF Orderly, KernelResend, Within

\* A packet whose acknowledge is under way was received.
LEMMA SettledReceived ==
    ASSUME TypeInv, Settles(toTarget), ~Free
    PROVE  Received
<1>1. PICK i \in 1 .. Len(toTarget) : toTarget[i] = Ack(kernel.unacked)
    BY DEF Settles, Settled, Free
<1>2. Ack(kernel.unacked) \in Range(toTarget)
    BY <1>1, RangeIs DEF TypeInv
<1> QED  BY <1>2 DEF Received, Ack

LEMMA InRange ==
    ASSUME NEW S, NEW s \in Seq(S), NEW i \in 1 .. Len(s)
    PROVE  s[i] \in Range(s)
BY RangeIs

\* The kernel reads the first of the packets s.
LEMMA SettledTail ==
    ASSUME NEW u, NEW v, NEW s \in Seq(HostPackets), s # << >>, Settled(u, s),
           v = NoPacket \/ (v = u /\ Head(s) # Ack(u))
    PROVE  Settled(v, Tail(s))
<1> DEFINE t == Tail(s)
<1>1. /\ t \in Seq(HostPackets) /\ Len(t) = Len(s) - 1 /\ Len(s) \in Nat \ {0}
      /\ \A i \in 1 .. Len(t) : t[i] = s[i + 1]
      /\ Head(s) = s[1]
    OBVIOUS
<1> HIDE DEF t
<1>2. CASE v = NoPacket
    BY <1>2 DEF Settled
<1>3. CASE v = u /\ v # NoPacket /\ Head(s) # Ack(u)
    <2>1. PICK i \in 1 .. Len(s) : s[i] = Ack(u)
        BY <1>3 DEF Settled
    <2>2. i # 1
        BY <1>1, <1>3, <2>1
    <2>3. i - 1 \in 1 .. Len(t) /\ t[i - 1] = s[i]
        BY <1>1, <2>2
    <2>4. \E j \in 1 .. Len(t) : t[j] = Ack(v)
        BY <1>3, <2>1, <2>3
    <2> QED  BY <2>4 DEF Settled, t
<1> QED  BY <1>2, <1>3

LEMMA OnlyTail ==
    ASSUME NEW kinds, NEW s \in Seq(HostPackets), s # << >>, Only(kinds, s)
    PROVE  Only(kinds, Tail(s)) /\ Head(s).kind \in kinds
<1> DEFINE t == Tail(s)
<1>1. /\ t \in Seq(HostPackets) /\ Len(t) = Len(s) - 1 /\ Len(s) \in Nat \ {0}
      /\ \A i \in 1 .. Len(t) : t[i] = s[i + 1]
      /\ Head(s) = s[1]
    OBVIOUS
<1> HIDE DEF t
<1>2. \A i \in 1 .. Len(t) : i + 1 \in 1 .. Len(s)
    BY <1>1
<1> QED  BY <1>1, <1>2 DEF Only, t

\* The host does nothing.
LEMMA StackSame ==
    ASSUME UNCHANGED host
    PROVE  /\ UNCHANGED <<call, waits, seq, stopped, dbreak, asked, got>>
           /\ \A type : One(type)' <=> One(type)
BY DEF host, One

KernelMoves ==
    \/ KernelNoise \/ (\E stop \in Stops : KernelStop(stop)) \/ KernelRead \/ KernelResend \/ Lose

LEMMA NoPacketKind == ~Free <=> kernel.unacked # NoPacket
BY DEF Free

LEMMA ResetSentMoves ==
    ASSUME Orderly, KdInv, ResetSent, KernelMoves
    PROVE  ResetSent' \/ ResetRead'
<1>0. TypeInv /\ UnackedInv /\ call = "sync" /\ One("RESET") /\ Attaching
    BY DEF KdInv, ResetSent, Attaching
<1>1. Free => waits[1].left = Retries /\ toHost = << >>
              /\ toTarget \in {<<Breakin, Ctrl("RESET", 0)>>, <<Ctrl("RESET", 0)>>}
    BY PacketFields DEF ResetSent, Free, Data
<1>2. CASE KernelNoise
    <2>1. PICK kind \in {"PRINT", "IO"} :
              /\ Within("attach_io", kind = "IO" /\ Attaching)
              /\ kernel.running /\ Free /\ ~kernel.breakin
              /\ toHost' = Append(toHost, kernel'.unacked)
              /\ kernel'.unacked = Packet(kind, kernel.id, Nothing)
              /\ kernel'.running = kernel.running /\ kernel'.breakin = kernel.breakin
              /\ UNCHANGED <<toTarget, host>>
        BY <1>0, <1>2, NoiseIs
    <2>2. kind = "PRINT"
        BY <1>0, <2>1 DEF Orderly, Within
    <2>3. toHost' = <<kernel'.unacked>> /\ kernel'.unacked.kind \in Data \ {"IO"}
        BY <1>1, <2>1, <2>2, Singles, PacketFields DEF Data
    <2> QED  BY <1>0, <1>1, <2>1, <2>3, StackSame DEF ResetSent
<1>3. ASSUME NEW stop \in Stops, KernelStop(stop) PROVE ResetSent'
    <2>0. Free /\ toHost' = Append(toHost, kernel'.unacked)
          /\ kernel'.unacked = Packet("STATE_CHANGE", kernel.id, stop)
        BY <1>0, <1>3, StopIs
    <2>1. toHost' = <<kernel'.unacked>> /\ kernel'.unacked.kind \in Data \ {"IO"}
        BY <1>1, <2>0, Singles, PacketFields DEF Data
    <2> QED  BY <1>0, <1>1, <1>3, <2>1, StopIs, StackSame DEF ResetSent
<1>4. CASE KernelResend
    <2>1. toHost # <<kernel.unacked>>
        <3>1. SUFFICES ASSUME toHost = <<kernel.unacked>> PROVE FALSE
            OBVIOUS
        <3>2. toHost[1] = kernel.unacked /\ Len(toHost) = 1
            BY <3>1, Singles
        <3>3. kernel.unacked \in Range(toHost)
            BY <1>0, <3>2, InRange DEF TypeInv
        <3> QED  BY <1>4, <3>3, ResendIs
    <2>2. \A i \in 1 .. Len(toTarget) : toTarget[i] # Ack(kernel.unacked)
        <3>1. SUFFICES ASSUME NEW i \in 1 .. Len(toTarget), toTarget[i] = Ack(kernel.unacked)
                       PROVE  FALSE
            OBVIOUS
        <3> QED  BY <1>0, <1>4, <3>1, ResendIs, SettledReceived DEF Settles, Settled, Free
    <2>3. toTarget \in {<<Breakin, Ctrl("RESET", 0)>>, <<Ctrl("RESET", 0)>>}
        <3>1. toTarget # <<Breakin, Ctrl("RESET", 0), Ack(kernel.unacked)>>
            <4>1. LET q == <<Breakin, Ctrl("RESET", 0), Ack(kernel.unacked)>>
                  IN  Len(q) = 3 /\ q[3] = Ack(kernel.unacked)
                OBVIOUS
            <4> QED  BY <2>2, <4>1
        <3>2. toTarget # <<Ctrl("RESET", 0), Ack(kernel.unacked)>>
            BY <2>2, Pairs
        <3> QED  BY <3>1, <3>2 DEF ResetSent
    <2>4. /\ waits[1].left = Retries /\ toHost = << >>
          /\ (kernel.running /\ ~kernel.breakin) => toTarget[1] = Breakin
        <3>1. \A x : <<Breakin, Ctrl("RESET", 0)>> # <<Breakin, Ctrl("RESET", 0), x>>
            <4>1. ASSUME NEW x PROVE Len(<<Breakin, Ctrl("RESET", 0), x>>) = 3
                OBVIOUS
            <4> QED  BY <4>1, Pairs
        <3>2. \A x : <<Ctrl("RESET", 0)>> # <<Ctrl("RESET", 0), x>>
            BY Singles, Pairs
        <3>3. \A x : <<Breakin, Ctrl("RESET", 0)>> # <<Ctrl("RESET", 0), x>>
            BY Pairs, PacketFields DEF Breakin
        <3>4. \A x : <<Ctrl("RESET", 0)>> # <<Breakin, Ctrl("RESET", 0), x>>
            <4>1. ASSUME NEW x PROVE Len(<<Breakin, Ctrl("RESET", 0), x>>) = 3
                OBVIOUS
            <4> QED  BY <4>1, Singles
        <3> QED  BY <2>1, <2>3, <3>1, <3>2, <3>3, <3>4 DEF ResetSent
    <2>5. toHost' = <<kernel.unacked>> /\ kernel.unacked.kind \in Data \ {"IO"}
        BY <1>0, <1>4, <2>4, ResendIs, Singles DEF UnackedInv, Free
    <2> QED  BY <1>0, <1>4, <2>3, <2>4, <2>5, ResendIs, StackSame DEF ResetSent
<1>5. CASE Lose
    <2>1. toHost = <<kernel.unacked>> /\ toHost' = << >> /\ UNCHANGED <<toTarget, host, kernel>>
        BY <1>5, LoseIs, Singles DEF ResetSent
    <2> QED  BY <1>0, <2>1, StackSame, Singles DEF ResetSent
<1>6. CASE KernelRead /\ toTarget[1] = Breakin
    <2>1. Head(toTarget) = Breakin /\ Breakin.kind = "BREAKIN"
        BY <1>0, <1>6, QueueTypes, PacketFields DEF Breakin, KernelRead, TypeInv
    <2>2. /\ toTarget' = Tail(toTarget) /\ UNCHANGED <<toHost, host>>
          /\ kernel'.breakin = kernel.running /\ kernel'.running = kernel.running
          /\ kernel'.unacked = kernel.unacked
        BY <1>0, <1>6, <2>1, ReadBreakin
    <2>3. Ctrl("RESET", 0) # Breakin
        BY PacketFields DEF Breakin
    <2>4. \/ /\ toTarget' = <<Ctrl("RESET", 0)>> /\ waits[1].left = Retries
             /\ toHost = << >> \/ (toHost = <<kernel.unacked>> /\ kernel.unacked.kind \in Data \ {"IO"})
          \/ toTarget' = <<Ctrl("RESET", 0), Ack(kernel.unacked)>> /\ toHost = << >> /\ ~Free
        <3>1. /\ toTarget # <<Ctrl("RESET", 0)>>
              /\ toTarget # <<Ctrl("RESET", 0), Ack(kernel.unacked)>>
            BY <1>6, <2>3, Singles, Pairs
        <3>2. Tail(<<Breakin, Ctrl("RESET", 0)>>) = <<Ctrl("RESET", 0)>>
            BY Pairs
        <3>3. Tail(<<Breakin, Ctrl("RESET", 0), Ack(kernel.unacked)>>) = <<Ctrl("RESET", 0), Ack(kernel.unacked)>>
            BY Triples
        <3> QED  BY <2>2, <3>1, <3>2, <3>3 DEF ResetSent
    <2>5. ~(kernel'.running /\ ~kernel'.breakin)
        BY <2>2
    <2> QED  BY <1>0, <2>2, <2>4, <2>5, StackSame DEF ResetSent, Free
<1>7. CASE KernelRead /\ toTarget[1] # Breakin
    <2> DEFINE rst == Ctrl("RESET", 0)
    <2>1. \/ /\ toTarget = <<rst>> /\ waits[1].left = Retries
             /\ toHost = << >> \/ (toHost = <<kernel.unacked>> /\ kernel.unacked.kind \in Data \ {"IO"})
          \/ toTarget = <<rst, Ack(kernel.unacked)>> /\ toHost = << >> /\ ~Free
        BY <1>7, Pairs, Triples DEF ResetSent
    <2>2. Head(toTarget) = rst /\ rst.kind = "RESET"
        BY <2>1, Singles, Pairs, PacketFields
    <2>3. kernel.running => kernel.breakin
        BY <1>7 DEF ResetSent
    <2>4. /\ toTarget' = Tail(toTarget) /\ UNCHANGED host
          /\ kernel'.running = kernel.running /\ kernel'.stop = kernel.stop
          /\ kernel'.breakin = kernel.breakin
          /\ kernel'.expect = 0 /\ ~kernel'.filing
          /\ kernel.running => /\ kernel'.unacked = NoPacket /\ toHost' = toHost \o <<rst>>
          /\ ~kernel.running => /\ kernel'.unacked = Packet("STATE_CHANGE", 0, kernel.stop)
                                /\ toHost' = toHost \o <<rst>> \o <<kernel'.unacked>>
        BY <1>0, <1>7, <2>2, ReadReset
    <2>5. PICK s \in Seq(KernelPackets) :
             rst \in KernelPackets /\ s = IF kernel.running THEN << >> ELSE <<kernel'.unacked>>
        <3>1. kernel.stop \in Stops
            BY <1>0, KernelFields
        <3>2. ~kernel.running => kernel'.unacked \in KernelPackets
            BY <2>4, <3>1, SentByKernel DEF Bits
        <3>3. << >> \in Seq(KernelPackets)
              /\ (~kernel.running => <<kernel'.unacked>> \in Seq(KernelPackets))
            BY <3>2
        <3>4. (IF kernel.running THEN << >> ELSE <<kernel'.unacked>>) \in Seq(KernelPackets)
            BY <3>3
        <3> QED  BY <3>4, SentByKernel
    <2>6. toHost' = toHost \o (<<rst>> \o s)
        <3>1. CASE kernel.running
            BY <2>4, <2>5, <3>1, Singles
        <3>2. CASE ~kernel.running
            <4>1. toHost \in Seq(KernelPackets) /\ <<rst>> \in Seq(KernelPackets) /\ s \in Seq(KernelPackets)
                BY <1>0, <2>5 DEF TypeInv
            <4>2. (toHost \o <<rst>>) \o s = toHost \o (<<rst>> \o s)
                <5> HIDE DEF rst
                <5> QED  BY <4>1
            <4> QED  BY <2>4, <2>5, <3>2, <4>2
        <3> QED  BY <3>1, <3>2
    <2>7. Free' <=> kernel.running
        BY <2>4, PacketFields DEF Free
    <2>8. Reported(s)'
        <3>1. kernel'.running => kernel'.breakin /\ Free' /\ s = << >>
            BY <2>3, <2>4, <2>5, <2>7
        <3>2. ~kernel'.running => Len(s) = 1 /\ s[1].kind = "STATE_CHANGE" /\ kernel'.unacked = s[1] /\ ~Free'
            BY <2>4, <2>5, <2>7, Singles, PacketFields
        <3> QED  BY <2>4, <3>1, <3>2 DEF Reported
    <2>9. CASE toHost = << >>
        <3>1. toHost' = <<rst>> \o s
            BY <2>5, <2>6, <2>9, QueueTypes, FirstOf
        <3>2. Leftover'
            <4>1. ~Free => kernel.unacked.id \in Bits
                BY <1>0, KernelFields, PacketFields
            <4>2. toTarget' = << >> \/ (~Free /\ toTarget' = <<Ack(kernel.unacked)>>)
                <5>1. toTarget = <<rst>> => toTarget' = << >>
                    BY <2>4, Singles
                <5>2. toTarget = <<rst, Ack(kernel.unacked)>> => toTarget' = <<Ack(kernel.unacked)>>
                    BY <2>4, Pairs
                <5> QED  BY <2>1, <5>1, <5>2
            <4> QED  BY <4>1, <4>2 DEF Leftover, Ack
        <3> QED  BY <1>0, <2>4, <2>8, <3>1, <3>2, StackSame DEF ResetRead
    <2>10. CASE toHost # << >>
        <3>1. /\ toTarget' = << >> /\ waits'[1].left = Retries /\ toHost = <<kernel.unacked>>
              /\ kernel.unacked.kind \in Data \ {"IO"}
            BY <2>1, <2>4, <2>10, Singles, StackSame
        <3>2. kernel.unacked \in KernelPackets
            BY <1>0, <3>1, KernelFields, PacketFields DEF Free, Data
        <3>3. toHost' = <<kernel.unacked>> \o (<<rst>> \o s)
            BY <2>6, <3>1
        <3>4. Free' => kernel'.running
            BY <2>4, <2>7
        <3>5. \E p \in KernelPackets : /\ p.kind \in Data \ {"IO"}
                                       /\ toHost' = <<p>> \o (<<rst>> \o s)
            BY <3>1, <3>2, <3>3
        <3> QED  BY <1>0, <2>4, <2>8, <3>1, <3>4, <3>5, StackSame DEF ResetRead
    <2> QED  BY <2>9, <2>10
<1> QED  BY <1>2, <1>3, <1>4, <1>5, <1>6, <1>7 DEF KernelMoves

\* What the kernel sends is the last packet on the line, and in it.
LEMMA LastInRange ==
    ASSUME NEW S, NEW t, NEW x, t \o <<x>> \in Seq(S), t \in Seq(S), x \in S
    PROVE  x \in Range(t \o <<x>>)
<1> DEFINE u == t \o <<x>>
<1>1. Len(u) = Len(t) + 1 /\ u[Len(t) + 1] = x /\ Len(t) + 1 \in 1 .. Len(u)
    OBVIOUS
<1> HIDE DEF u
<1>2. u[Len(t) + 1] \in Range(u)
    BY <1>1, InRange DEF u
<1> QED  BY <1>1, <1>2 DEF u

\* The acknowledge left over from before a reset is read, and may count for
\* the report.
LEMMA LeftoverRead ==
    ASSUME KdInv, Leftover, KernelRead
    PROVE  /\ toTarget' = << >> /\ UNCHANGED <<toHost, host>>
           /\ \E b \in Bits : toTarget = <<Ctrl("ACK", b)>>
           /\ \/ ~Free /\ Ack(kernel.unacked) = toTarget[1] /\ kernel'.unacked = NoPacket /\ Same(kernel')
              \/ (Free \/ Ack(kernel.unacked) # toTarget[1]) /\ kernel' = kernel
<1>1. TypeInv /\ toTarget # << >>
    BY DEF KdInv, KernelRead
<1>2. PICK b \in Bits : toTarget = <<Ctrl("ACK", b)>>
    BY <1>1 DEF Leftover
<1>3. Head(toTarget) = Ctrl("ACK", b) /\ Tail(toTarget) = << >> /\ toTarget[1] = Ctrl("ACK", b)
    BY <1>2, Singles
<1>4. Head(toTarget).kind = "ACK" /\ Head(toTarget).id = b
    BY <1>3, PacketFields
<1>5. /\ toTarget' = Tail(toTarget) /\ UNCHANGED <<toHost, host, lost, kills>>
      /\ IF ~Free /\ Head(toTarget).id = kernel.unacked.id
         THEN kernel'.unacked = NoPacket /\ kernel'.id = 1 - kernel.id /\ Same(kernel')
         ELSE kernel' = kernel
    BY <1>1, <1>4, ReadAck
<1>6. Ack(kernel.unacked) = toTarget[1] <=> kernel.unacked.id = b
    BY <1>3, PacketFields DEF Ack
<1> QED  BY <1>2, <1>3, <1>4, <1>5, <1>6

LEMMA ResetReadMoves ==
    ASSUME Orderly, KdInv, ResetRead, KernelMoves
    PROVE  ResetRead'
<1> DEFINE rst == Ctrl("RESET", 0)
<1>0. TypeInv /\ UnackedInv /\ call = "sync" /\ One("RESET") /\ rst \in KernelPackets
    BY SentByKernel DEF KdInv, ResetRead
<1>1. PICK s \in Seq(KernelPackets) :
         /\ Reported(s)
         /\ \/ Leftover /\ toHost = <<rst>> \o s
            \/ /\ toTarget = << >> /\ waits[1].left = Retries
               /\ Free => kernel.running
               /\ \E p \in KernelPackets : /\ p.kind \in Data \ {"IO"}
                                           /\ toHost = <<p>> \o (<<rst>> \o s)
    BY DEF ResetRead
<1> HIDE DEF rst
<1>2. <<rst>> \o s \in Seq(KernelPackets)
    BY <1>0
<1>3. ~KernelNoise
    BY <1>1 DEF KernelNoise, Reported
<1>4. ASSUME NEW stop \in Stops, KernelStop(stop) PROVE ResetRead'
    <2>1. /\ kernel.running /\ Free /\ s = << >>
          /\ toHost' = Append(toHost, kernel'.unacked)
          /\ kernel'.unacked = Packet("STATE_CHANGE", kernel.id, stop) /\ ~kernel'.running
          /\ kernel'.filing = kernel.filing /\ kernel'.expect = kernel.expect
          /\ UNCHANGED <<toTarget, host>>
        BY <1>0, <1>1, <1>4, StopIs DEF Reported
    <2>2. kernel'.unacked \in KernelPackets /\ kernel'.unacked.kind = "STATE_CHANGE"
        BY <1>0, <2>1, KernelFields, SentByKernel, PacketFields
    <2>3. PICK t \in Seq(KernelPackets) : t = <<kernel'.unacked>>
        <3>1. <<kernel'.unacked>> \in Seq(KernelPackets)
            BY <2>2
        <3> QED  BY <3>1
    <2>4. t = Append(s, kernel'.unacked) /\ Len(t) = 1 /\ t[1] = kernel'.unacked
        BY <2>1, <2>3, Singles
    <2>5. Reported(t)'
        <3>1. ~Free'
            BY <2>2, PacketFields DEF Free
        <3> QED  BY <1>1, <2>1, <2>2, <2>4, <3>1 DEF Reported
    <2>6. CASE Leftover /\ toHost = <<rst>> \o s
        <3>1. toHost' = <<rst>> \o t
            BY <1>0, <2>1, <2>2, <2>4, <2>6, FirstOf
        <3> QED  BY <1>0, <2>1, <2>5, <2>6, <3>1, StackSame DEF ResetRead, Leftover, rst
    <2>7. ASSUME toTarget = << >> /\ waits[1].left = Retries,
                 NEW p \in KernelPackets, p.kind \in Data \ {"IO"}, toHost = <<p>> \o (<<rst>> \o s)
          PROVE  ResetRead'
        <3>1. Append(<<rst>> \o s, kernel'.unacked) = <<rst>> \o t
            BY <1>0, <2>2, <2>4, FirstOf
        <3>2. toHost' = <<p>> \o (<<rst>> \o t)
            <4> DEFINE q == <<rst>> \o s
            <4>1. q \in Seq(KernelPackets) /\ toHost = <<p>> \o q
                BY <1>2, <2>7
            <4> HIDE DEF q
            <4>2. \A y \in KernelPackets : Append(<<p>> \o q, y) = <<p>> \o Append(q, y)
                <5>1. q \in Seq(KernelPackets)
                    BY <4>1
                <5> QED  BY <5>1
            <4>3. toHost' = <<p>> \o Append(q, kernel'.unacked)
                BY <2>1, <2>2, <4>1, <4>2
            <4> QED  BY <3>1, <4>3 DEF q
        <3>3. ~Free'
            BY <2>2, PacketFields DEF Free
        <3> QED  BY <1>0, <2>1, <2>5, <2>7, <3>2, <3>3, StackSame DEF ResetRead, rst
    <2> QED  BY <1>1, <2>6, <2>7
<1>5. ~KernelResend
    <2>1. SUFFICES ASSUME KernelResend PROVE FALSE
        OBVIOUS
    <2>2. ~Free /\ kernel.unacked \notin Range(toHost)
        BY <2>1, ResendIs
    <2>3. Len(s) = 1 /\ kernel.unacked = s[1]
        BY <1>1, <2>2 DEF Reported
    <2> DEFINE q == <<rst>> \o s
    <2>4. q \in Seq(KernelPackets) /\ Len(q) = 2 /\ q[2] = kernel.unacked
        <3>0. 1 \in 1 .. Len(s)
            BY <2>3
        <3>1. Len(q) = Len(s) + 1 /\ q[1 + 1] = s[1]
            BY <1>0, <3>0, FirstOf
        <3> QED  BY <1>2, <2>3, <3>1
    <2> HIDE DEF q
    <2>5. toHost # q
        BY <2>2, <2>4, InRange
    <2>6. ASSUME NEW p \in KernelPackets, toHost = <<p>> \o q PROVE FALSE
        <3>0. q \in Seq(KernelPackets) /\ 2 \in 1 .. Len(q)
            BY <2>4
        <3>1. Len(<<p>> \o q) = Len(q) + 1 /\ (<<p>> \o q)[2 + 1] = q[2]
            BY <3>0, FirstOf
        <3>2. Len(toHost) = 3 /\ toHost[3] = kernel.unacked
            BY <2>4, <2>6, <3>1
        <3>3. toHost \in Seq(KernelPackets) /\ 3 \in 1 .. Len(toHost)
            BY <1>0, <3>2 DEF TypeInv
        <3>4. toHost[3] \in Range(toHost)
            BY <3>3, InRange
        <3> QED  BY <2>2, <3>2, <3>4
    <2> QED  BY <1>1, <2>5, <2>6 DEF q
<1>6. CASE KernelRead
    <2>1. Leftover /\ toHost = <<rst>> \o s
        BY <1>1, <1>6 DEF KernelRead
    <2>2. /\ toTarget' = << >> /\ UNCHANGED <<toHost, host>>
          /\ \/ ~Free /\ kernel'.unacked = NoPacket /\ Same(kernel')
             \/ kernel' = kernel
        BY <1>6, <2>1, LeftoverRead
    <2>3. Reported(s)'
        BY <1>1, <2>2 DEF Reported, Same, Free
    <2> QED  BY <1>0, <2>1, <2>2, <2>3, StackSame DEF ResetRead, Leftover, rst
<1>7. CASE Lose
    <2>1. /\ toHost # << >> /\ Head(toHost) = kernel.unacked /\ ~Received
          /\ toHost' = Tail(toHost) /\ UNCHANGED <<toTarget, host, kernel>>
        BY <1>7, LoseIs
    <2>2. kernel.unacked # rst
        BY <1>0, PacketFields DEF UnackedInv, rst, Data
    <2>3. toHost # <<rst>> \o s
        BY <1>0, <2>1, <2>2, FirstOf
    <2>4. PICK p \in KernelPackets : toHost = <<p>> \o (<<rst>> \o s)
        BY <1>1, <2>3
    <2>5. toHost' = <<rst>> \o s
        <3> DEFINE q == <<rst>> \o s
        <3>1. q \in Seq(KernelPackets) /\ toHost = <<p>> \o q
            BY <1>2, <2>4
        <3> HIDE DEF q
        <3>2. Tail(<<p>> \o q) = q
            BY <3>1, FirstOf
        <3> QED  BY <2>1, <3>1, <3>2 DEF q
    <2>6. Leftover' /\ Reported(s)'
        BY <1>1, <2>1, <2>3 DEF Leftover, Reported, Free
    <2> QED  BY <1>0, <2>1, <2>5, <2>6, StackSame DEF ResetRead, rst
<1> QED  BY <1>3, <1>4, <1>5, <1>6, <1>7 DEF KernelMoves

LEMMA ReportingMoves ==
    ASSUME Orderly, KdInv, Reporting, KernelMoves
    PROVE  Reporting'
<1>0. TypeInv /\ UnackedInv /\ call = "sync" /\ One("STATE_CHANGE") /\ Leftover
      /\ kernel.expect = 0 /\ ~kernel.filing
    BY DEF KdInv, Reporting, Reported
<1>1. ~KernelNoise
    BY DEF KernelNoise, Reporting, Reported
<1>2. ASSUME NEW stop \in Stops, KernelStop(stop) PROVE Reporting'
    <2>1. /\ kernel.running /\ Free /\ toHost = << >>
          /\ toHost' = Append(toHost, kernel'.unacked)
          /\ kernel'.unacked = Packet("STATE_CHANGE", kernel.id, stop) /\ ~kernel'.running
          /\ kernel'.filing = kernel.filing /\ kernel'.expect = kernel.expect
          /\ UNCHANGED <<toTarget, host>>
        BY <1>0, <1>2, StopIs DEF Reporting, Reported
    <2>2. kernel'.unacked.kind = "STATE_CHANGE" /\ ~Free'
        BY <2>1, PacketFields DEF Free
    <2>3. toHost' = <<kernel'.unacked>>
        BY <2>1, Singles
    <2>4. Len(toHost') = 1 /\ toHost'[1] = kernel'.unacked
        BY <2>3, Singles
    <2> QED  BY <1>0, <2>1, <2>2, <2>4, StackSame DEF Reporting, Reported, Leftover
<1>3. CASE KernelResend
    <2>1. /\ ~Free /\ kernel.unacked \notin Range(toHost) /\ ~Received
          /\ toHost' = Append(toHost, kernel.unacked) /\ UNCHANGED <<toTarget, host, kernel>>
        BY <1>3, ResendIs
    <2>2. ~Reported(toHost)
        BY <1>0, <2>1, InRange DEF Reported, TypeInv
    <2>3. toHost = << >> /\ kernel.unacked.kind = "STATE_CHANGE" /\ ~kernel.running
        BY <2>2 DEF Reporting
    <2>4. Len(toHost') = 1 /\ toHost'[1] = kernel.unacked
        BY <2>1, <2>3, Singles
    <2> QED  BY <1>0, <2>1, <2>3, <2>4, StackSame DEF Reporting, Reported, Leftover, Free
<1>4. CASE KernelRead
    <2>1. /\ toTarget' = << >> /\ UNCHANGED <<toHost, host>>
          /\ \/ ~Free /\ Ack(kernel.unacked) = toTarget[1] /\ kernel'.unacked = NoPacket /\ Same(kernel')
             \/ kernel' = kernel
          /\ Len(toTarget) = 1
        BY <1>0, <1>4, LeftoverRead, Singles
    <2>2. CASE Reported(toHost)
        BY <1>0, <2>1, <2>2, StackSame DEF Reporting, Reported, Leftover, Same, Free
    <2>3. CASE ~Reported(toHost)
        <3>1. /\ ~kernel.running /\ toHost = << >> /\ kernel.unacked.kind = "STATE_CHANGE" /\ ~Received
            BY <2>3 DEF Reporting
        <3>2. Ack(kernel.unacked) # toTarget[1] \/ Free
            BY <1>0, <2>1, <3>1, InRange DEF Received, Ack, TypeInv
        <3>3. kernel' = kernel
            BY <2>1, <3>2
        <3>4. ~Received'
            <4>1. Range(<< >>) = {}
                BY DEF Range
            <4> QED  BY <2>1, <4>1 DEF Received
        <3> QED  BY <1>0, <2>1, <3>1, <3>3, <3>4, StackSame DEF Reporting, Leftover
    <2> QED  BY <2>2, <2>3
<1>5. CASE Lose
    <2>1. /\ toHost # << >> /\ Head(toHost) = kernel.unacked /\ ~Received
          /\ toHost' = Tail(toHost) /\ UNCHANGED <<toTarget, host, kernel>>
        BY <1>5, LoseIs
    <2>2. ~kernel.running /\ Len(toHost) = 1 /\ toHost[1].kind = "STATE_CHANGE"
        BY <2>1 DEF Reporting, Reported
    <2>3. toHost' = << >> /\ Head(toHost) = toHost[1]
        BY <1>0, <2>1, <2>2 DEF TypeInv
    <2>4. ~Received'
        BY <2>1 DEF Received, Free
    <2> QED  BY <1>0, <2>1, <2>2, <2>3, <2>4, StackSame DEF Reporting, Leftover
<1> QED  BY <1>1, <1>2, <1>3, <1>4, <1>5 DEF KernelMoves

LEMMA PromptMoves ==
    ASSUME Orderly, KdInv, Prompt, KernelMoves
    PROVE  Prompt'
<1>0. TypeInv /\ UnackedInv /\ ~kernel.running /\ toHost = << >> /\ toTarget \in Seq(HostPackets)
      /\ Only({"ACK"}, toTarget) /\ Settles(toTarget)
    BY DEF KdInv, Prompt, TypeInv
<1>1. ~KernelNoise /\ ~(\E stop \in Stops : KernelStop(stop)) /\ ~Lose
    BY <1>0, LoseIs DEF KernelNoise, KernelStop
<1>2. ~KernelResend
    BY <1>0, ResendIs, SettledReceived
<1>3. CASE KernelRead
    <2>0. toTarget # << >>
        BY <1>3 DEF KernelRead
    <2>1. Head(toTarget).kind \in {"ACK"} /\ Only({"ACK"}, Tail(toTarget))
        BY <1>0, <2>0, OnlyTail
    <2>2. /\ toTarget' = Tail(toTarget) /\ UNCHANGED <<toHost, host>>
          /\ IF ~Free /\ Head(toTarget).id = kernel.unacked.id
             THEN kernel'.unacked = NoPacket /\ Same(kernel')
             ELSE kernel' = kernel
        BY <1>0, <1>3, <2>1, ReadAck
    <2>3. \/ kernel'.unacked = NoPacket
          \/ kernel'.unacked = kernel.unacked /\ Head(toTarget) # Ack(kernel.unacked)
        BY <2>2, PacketFields DEF Ack, Free
    <2>4. Settled(kernel'.unacked, toTarget')
        BY <1>0, <2>0, <2>2, <2>3, SettledTail DEF Settles
    <2> QED  BY <1>0, <2>1, <2>2, <2>4, StackSame DEF Prompt, Only, Same, Settles
<1> QED  BY <1>1, <1>2, <1>3 DEF KernelMoves

LEMMA AskedMoves ==
    ASSUME Orderly, KdInv, Asked, KernelMoves
    PROVE  Asked' \/ Answered' \/ Continued'
<1> DEFINE about == IF call = "request" THEN asked ELSE Continue
           m == Packet("MANIP", seq, about)
<1>0. /\ TypeInv /\ UnackedInv /\ AskedInv /\ ~kernel.running /\ toHost = << >> /\ One("ACK")
      /\ toTarget \in Seq(HostPackets) /\ kernel.expect = seq /\ seq \in Bits
      /\ call \in {"request", "continue", "resume"}
      /\ (call = "request" => stopped) /\ (call = "resume" => ~stopped)
    BY DEF KdInv, Asked, TypeInv
<1>1. PICK acks \in Seq(HostPackets) :
         toTarget = Append(acks, m) /\ Only({"ACK"}, acks) /\ Settled(kernel.unacked, acks)
    BY DEF Asked, Settles
<1>2. m \in HostPackets /\ m.kind = "MANIP" /\ m.id = seq /\ m.about = about
    BY <1>0, SentByHost, PacketFields DEF AskedInv
<1> HIDE DEF m
<1>3. ~KernelNoise /\ ~(\E stop \in Stops : KernelStop(stop)) /\ ~Lose
    BY <1>0, LoseIs DEF KernelNoise, KernelStop
<1>4. Settles(toTarget)
    <2>1. ASSUME NEW i \in 1 .. Len(acks), acks[i] = Ack(kernel.unacked)
          PROVE  \E j \in 1 .. Len(toTarget) : toTarget[j] = Ack(kernel.unacked)
        <3>1. Len(toTarget) = Len(acks) + 1 /\ toTarget[i] = acks[i]
            BY <1>1, <1>2
        <3> QED  BY <2>1, <3>1
    <2> QED  BY <1>1, <2>1 DEF Settles, Settled
<1>5. ~KernelResend
    BY <1>0, <1>4, ResendIs, SettledReceived
<1>6. CASE KernelRead /\ acks = << >>
    <2>1. toTarget = <<m>> /\ Head(toTarget) = m /\ Tail(toTarget) = << >>
        BY <1>1, <1>6, Singles
    <2>2. Free
        BY <1>1, <1>6 DEF Settled, Free
    <2>3. LET p == Head(toTarget)
              ack == <<Ctrl("ACK", p.id)>>
          IN  /\ toTarget' = Tail(toTarget) /\ UNCHANGED host
              /\ kernel'.expect = 1 - kernel.expect /\ kernel'.id = kernel.id
              /\ kernel'.breakin = kernel.breakin
              /\ (p.kind = "MANIP" /\ p.about = Continue) =>
                     /\ kernel'.filing = kernel.filing /\ kernel'.running
                     /\ kernel'.unacked = NoPacket /\ toHost' = toHost \o ack
              /\ (p.kind = "MANIP" /\ p.about # Continue) =>
                     /\ ~kernel'.running
                     /\ kernel'.unacked = Packet("MANIP", kernel.id, p.about)
                     /\ toHost' = toHost \o ack \o <<kernel'.unacked>>
        BY <1>0, <1>2, <1>6, <2>1, <2>2, ReadAwaited
    <2>4. CASE call = "request"
        <3>1. about \in Requests /\ about # Continue /\ about = asked
            BY <1>0, <2>4, Constants DEF AskedInv
        <3>2. /\ toTarget' = << >> /\ UNCHANGED host /\ kernel'.expect = 1 - seq /\ ~kernel'.running
              /\ kernel'.unacked = Packet("MANIP", kernel'.id, asked)
              /\ toHost' = << >> \o <<Ctrl("ACK", seq)>> \o <<kernel'.unacked>>
            BY <1>0, <1>2, <2>1, <2>3, <3>1
        <3>3. toHost' = <<Ctrl("ACK", seq), kernel'.unacked>>
            BY <3>2, Singles, Pairs
        <3> QED  BY <1>0, <2>4, <3>2, <3>3, StackSame DEF Answered
    <2>5. CASE call # "request"
        <3>1. about = Continue
            BY <2>5
        <3>2. /\ toTarget' = << >> /\ UNCHANGED host /\ kernel'.expect = 1 - seq /\ kernel'.running
              /\ kernel'.unacked = NoPacket /\ kernel'.breakin = kernel.breakin
              /\ kernel'.filing = kernel.filing /\ toHost' = << >> \o <<Ctrl("ACK", seq)>>
            BY <1>0, <1>2, <2>1, <2>3, <3>1
        <3>3. toHost' = <<Ctrl("ACK", seq)>> \o Unread'
            BY <3>2, Singles DEF Unread, Free
        <3>4. Run'
            BY <1>0, <3>2, PacketFields DEF Run, UnackedInv
        <3> QED  BY <1>0, <2>5, <3>2, <3>3, <3>4, StackSame DEF Continued
    <2> QED  BY <2>4, <2>5
<1>7. CASE KernelRead /\ acks # << >>
    <2>1. Head(acks).kind \in {"ACK"} /\ Only({"ACK"}, Tail(acks))
        BY <1>1, <1>7, OnlyTail
    <2>2. /\ Head(toTarget) = Head(acks) /\ Tail(toTarget) = Append(Tail(acks), m)
          /\ Tail(acks) \in Seq(HostPackets)
        BY <1>1, <1>2, <1>7
    <2>3. /\ toTarget' = Tail(toTarget) /\ UNCHANGED <<toHost, host>>
          /\ IF ~Free /\ Head(toTarget).id = kernel.unacked.id
             THEN kernel'.unacked = NoPacket /\ Same(kernel')
             ELSE kernel' = kernel
        BY <1>0, <1>7, <2>1, <2>2, ReadAck
    <2>4. \/ kernel'.unacked = NoPacket
          \/ kernel'.unacked = kernel.unacked /\ Head(acks) # Ack(kernel.unacked)
        BY <2>2, <2>3, PacketFields DEF Ack, Free
    <2>5. Settled(kernel'.unacked, Tail(acks))
        BY <1>1, <1>7, <2>4, SettledTail
    <2>6. /\ kernel'.running = kernel.running /\ kernel'.expect = kernel.expect
        BY <2>3 DEF Same
    <2>7. m = Packet("MANIP", seq', IF call' = "request" THEN asked' ELSE Continue)
        BY <2>3, StackSame DEF m
    <2>8. \E a \in Seq(HostPackets) :
             /\ toTarget' = Append(a, Packet("MANIP", seq', IF call' = "request" THEN asked' ELSE Continue))
             /\ Only({"ACK"}, a) /\ Settled(kernel'.unacked, a)
        BY <2>1, <2>2, <2>3, <2>5, <2>7
    <2> QED  BY <1>0, <2>3, <2>6, <2>8, StackSame DEF Asked, Settles, Only
<1> QED  BY <1>3, <1>5, <1>6, <1>7 DEF KernelMoves

LEMMA AnsweredMoves ==
    ASSUME Orderly, KdInv, Answered, KernelMoves
    PROVE  Answered'
<1> DEFINE u == kernel.unacked
<1>0. TypeInv /\ UnackedInv /\ ~kernel.running /\ toTarget = << >> /\ u = Packet("MANIP", kernel.id, asked)
    BY DEF KdInv, Answered
<1>1. ~KernelNoise /\ ~(\E stop \in Stops : KernelStop(stop)) /\ ~KernelRead
    BY <1>0 DEF KernelNoise, KernelStop, KernelRead
<1>2. CASE KernelResend
    <2>1. u \notin Range(toHost) /\ toHost' = Append(toHost, u) /\ UNCHANGED <<toTarget, host, kernel>>
        BY <1>2, ResendIs
    <2>2. toHost # <<Ctrl("ACK", seq), u>> /\ toHost # <<u>>
        BY <1>0, <2>1, Singles, Pairs, InRange DEF TypeInv
    <2>3. One("MANIP") /\ toHost = << >>
        BY <2>2 DEF Answered
    <2>4. toHost' = <<u>>
        BY <2>1, <2>3, Singles
    <2> QED  BY <2>1, <2>3, <2>4, StackSame DEF Answered
<1>3. CASE Lose
    <2>1. toHost # << >> /\ Head(toHost) = u /\ toHost' = Tail(toHost) /\ UNCHANGED <<toTarget, host, kernel>>
        BY <1>3, LoseIs
    <2>2. toHost # <<Ctrl("ACK", seq), u>>
        BY <1>0, <2>1, Pairs, PacketFields
    <2>3. One("MANIP") /\ toHost' = << >>
        BY <2>1, <2>2, Singles DEF Answered
    <2> QED  BY <2>1, <2>3, StackSame DEF Answered
<1> QED  BY <1>1, <1>2, <1>3 DEF KernelMoves

\* The kernel runs behind the acknowledge that the host is waiting for.
LEMMA BehindAck ==
    ASSUME Orderly, KdInv, Run, toTarget = << >>, toHost = <<Ctrl("ACK", seq)>> \o Unread, KernelMoves
    PROVE  /\ toTarget' = << >> /\ toHost' = <<Ctrl("ACK", seq)>> \o Unread' /\ Run'
           /\ UNCHANGED host /\ kernel'.expect = kernel.expect /\ Free /\ ~Free'
           /\ kernel'.running => kernel'.noise = kernel.noise + 1
           /\ ~kernel'.running => kernel'.noise = kernel.noise
<1>0. TypeInv /\ UnackedInv /\ seq \in Bits
    BY DEF KdInv, TypeInv
<1>1. ~KernelRead
    BY DEF KernelRead
<1>2. ~Lose
    <2>1. SUFFICES ASSUME Lose PROVE FALSE
        OBVIOUS
    <2>2. Head(toHost) = Ctrl("ACK", seq)
        BY Singles, Pairs DEF Unread
    <2> QED  BY <1>0, <2>1, <2>2, LoseIs, PacketFields DEF UnackedInv, Data
<1>3. ~KernelResend
    <2>1. SUFFICES ASSUME KernelResend PROVE FALSE
        OBVIOUS
    <2>2. ~Free /\ kernel.unacked \notin Range(toHost)
        BY <2>1, ResendIs
    <2>3. toHost = <<Ctrl("ACK", seq), kernel.unacked>>
        BY <2>2, Pairs DEF Unread
    <2>4. Len(toHost) = 2 /\ toHost[2] = kernel.unacked
        <3>1. LET q == <<Ctrl("ACK", seq), kernel.unacked>>
              IN  Len(q) = 2 /\ q[2] = kernel.unacked
            BY Pairs
        <3> QED  BY <2>3, <3>1
    <2>5. toHost \in Seq(KernelPackets) /\ 2 \in 1 .. Len(toHost)
        BY <1>0, <2>4 DEF TypeInv
    <2>6. toHost[2] \in Range(toHost)
        BY <2>5, InRange
    <2> QED  BY <2>2, <2>4, <2>6
<1>4. Free => toHost = <<Ctrl("ACK", seq)>>
    BY Singles DEF Unread
<1>5. CASE KernelNoise
    <2>1. PICK kind \in {"PRINT", "IO"} :
              /\ kernel.running /\ Free /\ ~kernel.filing /\ ~kernel.breakin
              /\ toHost' = Append(toHost, kernel'.unacked)
              /\ kernel'.unacked = Packet(kind, kernel.id, Nothing)
              /\ kernel'.filing = (kind = "IO") /\ kernel'.noise = kernel.noise + 1
              /\ kernel'.running = kernel.running /\ kernel'.breakin = kernel.breakin
              /\ kernel'.id = kernel.id /\ kernel'.expect = kernel.expect
              /\ UNCHANGED <<toTarget, host>>
        BY <1>0, <1>5, NoiseIs
    <2>2. kernel'.unacked.kind = kind /\ ~Free'
        BY <2>1, PacketFields DEF Free
    <2>3. toHost' = <<Ctrl("ACK", seq)>> \o Unread'
        BY <1>4, <2>1, <2>2, Pairs DEF Unread
    <2> QED  BY <2>1, <2>2, <2>3 DEF Run
<1>6. ASSUME NEW stop \in Stops, KernelStop(stop)
      PROVE  /\ toTarget' = << >> /\ toHost' = <<Ctrl("ACK", seq)>> \o Unread' /\ Run'
             /\ UNCHANGED host /\ kernel'.expect = kernel.expect /\ Free /\ ~Free'
             /\ ~kernel'.running /\ kernel'.noise = kernel.noise
    <2>1. /\ kernel.running /\ Free
          /\ toHost' = Append(toHost, kernel'.unacked)
          /\ kernel'.unacked = Packet("STATE_CHANGE", kernel.id, stop)
          /\ ~kernel'.running /\ kernel'.noise = kernel.noise
          /\ kernel'.expect = kernel.expect /\ UNCHANGED <<toTarget, host>>
        BY <1>0, <1>6, StopIs
    <2>2. kernel'.unacked.kind = "STATE_CHANGE" /\ ~Free'
        BY <2>1, PacketFields DEF Free
    <2>3. toHost' = <<Ctrl("ACK", seq)>> \o Unread'
        BY <1>4, <2>1, <2>2, Pairs DEF Unread
    <2> QED  BY <2>1, <2>2, <2>3 DEF Run
<1> QED  BY <1>1, <1>2, <1>3, <1>5, <1>6 DEF KernelMoves

LEMMA ContinuedMoves ==
    ASSUME Orderly, KdInv, Continued, KernelMoves
    PROVE  Continued'
<1>1. Run /\ toTarget = << >> /\ toHost = <<Ctrl("ACK", seq)>> \o Unread
    BY DEF Continued
<1>2. /\ toTarget' = << >> /\ toHost' = <<Ctrl("ACK", seq)>> \o Unread' /\ Run'
      /\ UNCHANGED host /\ kernel'.expect = kernel.expect
    BY <1>1, BehindAck
<1> QED  BY <1>2, StackSame DEF Continued

\* A halted kernel reads what is left on the line.
LEMMA HaltedMoves ==
    ASSUME Orderly, KdInv, KernelMoves, ~kernel.running, toHost = << >>,
           Only({"ACK", "BREAKIN"}, toTarget), Settles(toTarget)
    PROVE  /\ ~kernel'.running /\ toHost' = << >> /\ UNCHANGED host /\ kernel'.expect = kernel.expect
           /\ Only({"ACK", "BREAKIN"}, toTarget)' /\ Settles(toTarget)'
<1>0. TypeInv /\ toTarget \in Seq(HostPackets)
    BY DEF KdInv, TypeInv
<1>1. ~KernelNoise /\ ~(\E stop \in Stops : KernelStop(stop)) /\ ~Lose
    BY LoseIs DEF KernelNoise, KernelStop
<1>2. ~KernelResend
    BY <1>0, ResendIs, SettledReceived
<1>3. KernelRead /\ toTarget # << >>
    BY <1>1, <1>2 DEF KernelMoves, KernelRead
<1>4. Head(toTarget).kind \in {"ACK", "BREAKIN"} /\ Only({"ACK", "BREAKIN"}, Tail(toTarget))
    BY <1>0, <1>3, OnlyTail
<1>5. /\ toTarget' = Tail(toTarget) /\ UNCHANGED <<toHost, host>>
      /\ kernel'.running = kernel.running /\ kernel'.expect = kernel.expect
      /\ \/ kernel'.unacked = NoPacket
         \/ kernel'.unacked = kernel.unacked /\ Head(toTarget) # Ack(kernel.unacked)
    <2>1. CASE Head(toTarget).kind = "ACK"
        <3>1. /\ toTarget' = Tail(toTarget) /\ UNCHANGED <<toHost, host>>
              /\ IF ~Free /\ Head(toTarget).id = kernel.unacked.id
                 THEN kernel'.unacked = NoPacket /\ Same(kernel')
                 ELSE kernel' = kernel
            BY <1>0, <1>3, <2>1, ReadAck
        <3> QED  BY <3>1, PacketFields DEF Ack, Free, Same
    <2>2. CASE Head(toTarget).kind = "BREAKIN"
        <3>1. Head(toTarget) # Ack(kernel.unacked)
            BY <2>2, PacketFields DEF Ack
        <3> QED  BY <1>0, <1>3, <2>2, <3>1, ReadBreakin
    <2> QED  BY <1>4, <2>1, <2>2
<1>6. Settled(kernel'.unacked, toTarget')
    BY <1>0, <1>3, <1>5, SettledTail DEF Settles
<1> QED  BY <1>4, <1>5, <1>6 DEF Only, Settles

\* A packet that nobody has read yet is lost and sent again.
LEMMA UnreadMoves ==
    ASSUME Orderly, KdInv, KernelMoves, ~Free, toTarget = << >>, toHost \in {<< >>, <<kernel.unacked>>}
    PROVE  toHost' \in {<< >>, <<kernel.unacked>>} /\ UNCHANGED <<toTarget, host, kernel>>
<1>0. TypeInv
    BY DEF KdInv
<1>1. ~KernelNoise /\ ~(\E stop \in Stops : KernelStop(stop)) /\ ~KernelRead
    BY DEF KernelNoise, KernelStop, KernelRead
<1>2. CASE KernelResend
    <2>1. kernel.unacked \notin Range(toHost) /\ toHost' = Append(toHost, kernel.unacked)
          /\ UNCHANGED <<toTarget, host, kernel>>
        BY <1>2, ResendIs
    <2>2. toHost # <<kernel.unacked>>
        BY <1>0, <2>1, Singles, InRange DEF TypeInv
    <2> QED  BY <2>1, <2>2, Singles
<1>3. CASE Lose
    <2>1. toHost # << >> /\ toHost' = Tail(toHost) /\ UNCHANGED <<toTarget, host, kernel>>
        BY <1>3, LoseIs
    <2> QED  BY <2>1, Singles
<1> QED  BY <1>1, <1>2, <1>3 DEF KernelMoves

LEMMA AwayMoves ==
    ASSUME Orderly, KdInv, Away, KernelMoves
    PROVE  Away'
<1>0. /\ TypeInv /\ UnackedInv /\ ~stopped /\ kernel.expect = 1 - seq
      /\ (call = "none" /\ got = asked) \/ (call = "wait" /\ One("STATE_CHANGE"))
    BY DEF KdInv, Away
<1>1. CASE ~kernel.running /\ toHost = << >> /\ Only({"ACK", "BREAKIN"}, toTarget) /\ Settles(toTarget)
    <2>1. /\ ~kernel'.running /\ toHost' = << >> /\ UNCHANGED host /\ kernel'.expect = kernel.expect
          /\ Only({"ACK", "BREAKIN"}, toTarget)' /\ Settles(toTarget)'
        BY <1>1, HaltedMoves
    <2> QED  BY <1>0, <2>1, StackSame DEF Away
<1>2. CASE /\ ~Free /\ Run /\ toTarget = << >> /\ toHost \in {<< >>, <<kernel.unacked>>}
           /\ call = "wait" => Room(IF kernel.running THEN 1 ELSE 0)
    <2>1. toHost' \in {<< >>, <<kernel.unacked>>} /\ UNCHANGED <<toTarget, host, kernel>>
        BY <1>2, UnreadMoves
    <2>2. /\ ~Free' /\ Run' /\ toTarget' = << >> /\ toHost' \in {<< >>, <<kernel'.unacked>>}
          /\ call' = "wait" => Room(IF kernel.running THEN 1 ELSE 0)'
        BY <1>2, <2>1, StackSame DEF Free, Run, Room
    <2> QED  BY <1>0, <2>1, <2>2, StackSame DEF Away
<1>3. CASE /\ kernel.running /\ ~kernel.breakin /\ ~kernel.filing /\ toHost = << >>
           /\ call = "wait" => Room(0)
           /\ \/ Free /\ toTarget = << >>
              \/ ~Free /\ toTarget = <<Ack(kernel.unacked)>>
    <2>0. kernel.noise \in Nat /\ Retries \in Nat
        BY <1>0, KernelFields, Constants
    <2>1. CASE KernelNoise
        <3>1. PICK kind \in {"PRINT", "IO"} :
                  /\ kernel.running /\ Free /\ ~kernel.filing /\ ~kernel.breakin
                  /\ toHost' = Append(toHost, kernel'.unacked)
                  /\ kernel'.unacked = Packet(kind, kernel.id, Nothing)
                  /\ kernel'.filing = (kind = "IO") /\ kernel'.noise = kernel.noise + 1
                  /\ kernel'.running = kernel.running /\ kernel'.breakin = kernel.breakin
                  /\ kernel'.expect = kernel.expect
                  /\ UNCHANGED <<toTarget, host>>
            BY <1>0, <2>1, NoiseIs
        <3>2. kernel'.unacked.kind = kind /\ ~Free'
            BY <3>1, PacketFields DEF Free
        <3>3. toHost' = <<kernel'.unacked>> /\ toTarget' = << >>
            BY <1>3, <3>1, Singles
        <3>4. Run'
            BY <3>1, <3>2 DEF Run
        <3>5. call' = "wait" => Room(IF kernel.running THEN 1 ELSE 0)'
            <4>1. SUFFICES ASSUME call' = "wait" PROVE waits'[1].left + kernel'.noise >= Retries + 1
                BY <3>1 DEF Room
            <4>2. call = "wait" /\ waits' = waits
                BY <3>1, <4>1, StackSame
            <4>3. waits[1].left + kernel.noise >= Retries /\ waits[1].left \in Int
                <5>1. waits[1] \in Frames
                    BY <1>0, <4>2 DEF One, TypeInv, StackOK, GoodStack
                <5> QED  BY <1>3, <4>2, <5>1, <2>0 DEF Room, Frames
            <4> QED  BY <2>0, <3>1, <4>2, <4>3
        <3> QED  BY <1>0, <3>1, <3>2, <3>3, <3>4, <3>5, StackSame DEF Away
    <2>2. ASSUME NEW stop \in Stops, KernelStop(stop) PROVE Away'
        <3>1. /\ Free /\ toHost' = Append(toHost, kernel'.unacked)
              /\ kernel'.unacked = Packet("STATE_CHANGE", kernel.id, stop)
              /\ ~kernel'.running /\ kernel'.noise = kernel.noise
              /\ kernel'.expect = kernel.expect /\ UNCHANGED <<toTarget, host>>
            BY <1>0, <2>2, StopIs
        <3>2. kernel'.unacked.kind = "STATE_CHANGE" /\ ~Free'
            BY <3>1, PacketFields DEF Free
        <3>3. toHost' = <<kernel'.unacked>> /\ toTarget' = << >>
            BY <1>3, <3>1, Singles
        <3>4. Run' /\ (call' = "wait" => Room(IF kernel.running THEN 1 ELSE 0)')
            BY <1>3, <3>1, <3>2, StackSame DEF Run, Room
        <3>5. /\ ~stopped' /\ kernel'.expect = 1 - seq'
              /\ (call' = "none" /\ got' = asked') \/ (call' = "wait" /\ One("STATE_CHANGE")')
            BY <1>0, <3>1, StackSame
        <3> QED  BY <3>2, <3>3, <3>4, <3>5 DEF Away
    <2>3. CASE KernelRead
        <3>1. ~Free /\ toTarget = <<Ack(kernel.unacked)>>
            BY <1>3, <2>3 DEF KernelRead
        <3>2. Head(toTarget) = Ack(kernel.unacked) /\ Tail(toTarget) = << >>
            BY <3>1, Singles
        <3>3. Head(toTarget).kind = "ACK" /\ Head(toTarget).id = kernel.unacked.id
            BY <3>2, PacketFields DEF Ack
        <3>4. /\ toTarget' = << >> /\ UNCHANGED <<toHost, host>>
              /\ kernel'.unacked = NoPacket /\ Same(kernel')
            BY <1>0, <2>3, <3>1, <3>2, <3>3, ReadAck
        <3>5. call' = "wait" => Room(0)'
            BY <1>3, <3>4, StackSame DEF Room, Same
        <3> QED  BY <1>0, <1>3, <3>4, <3>5, StackSame DEF Away, Same, Free
    <2>4. ~KernelResend
        <3>1. SUFFICES ASSUME ~Free PROVE Received
            BY ResendIs
        <3>2. toTarget[1] = Ack(kernel.unacked) /\ Len(toTarget) = 1
            BY <1>3, <3>1, Singles
        <3>3. Settles(toTarget)
            BY <3>2 DEF Settles, Settled
        <3> QED  BY <1>0, <3>1, <3>3, SettledReceived
    <2>5. ~Lose
        BY <1>3, LoseIs
    <2> QED  BY <2>1, <2>2, <2>3, <2>4, <2>5 DEF KernelMoves
<1> QED  BY <1>1, <1>2, <1>3 DEF Away

LEMMA ServingMoves ==
    ASSUME Orderly, KdInv, Serving, KernelMoves
    PROVE  Serving'
<1> DEFINE reply == Packet("IO", seq, "ENOENT")
           pre == call = "wait" /\ ~stopped /\ Len(waits) = 2 /\ waits[1].type = "STATE_CHANGE"
<1>0. TypeInv /\ UnackedInv /\ pre /\ seq \in Bits
    BY DEF KdInv, Serving, TypeInv
<1>a. UNCHANGED host => pre' /\ seq' = seq /\ waits' = waits
    BY <1>0, StackSame
<1>b. kernel.noise \in Nat /\ Retries \in Nat /\ waits[1].left \in Int
    <2>1. waits \in Seq(Frames) /\ Len(waits) = 2
        BY <1>0 DEF TypeInv, StackOK, GoodStack
    <2>2. waits[1] \in Frames
        BY <2>1
    <2> QED  BY <1>0, <2>2, KernelFields, Constants DEF Frames
<1>1. CASE /\ kernel.running /\ ~kernel.breakin /\ kernel.filing /\ Room(0)
           /\ kernel.expect = seq /\ toHost = << >>
           /\ ~Free /\ toTarget = <<Ack(kernel.unacked), reply>>
    <2>1. ~KernelNoise /\ ~(\E stop \in Stops : KernelStop(stop)) /\ ~Lose
        BY <1>1, LoseIs DEF KernelNoise, KernelStop
    <2>2. toTarget[1] = Ack(kernel.unacked) /\ Len(toTarget) = 2
        BY <1>1, Pairs
    <2>3. Head(toTarget) = Ack(kernel.unacked) /\ Tail(toTarget) = <<reply>>
        BY <1>1, Pairs
    <2>4. Settles(toTarget)
        BY <2>2 DEF Settles, Settled
    <2>5. ~KernelResend
        BY <1>0, <1>1, <2>4, ResendIs, SettledReceived
    <2>6. KernelRead
        BY <2>1, <2>5 DEF KernelMoves
    <2>7. Head(toTarget).kind = "ACK" /\ Head(toTarget).id = kernel.unacked.id
        BY <2>3, PacketFields DEF Ack
    <2>8. /\ toTarget' = <<reply>> /\ UNCHANGED <<toHost, host>>
          /\ kernel'.unacked = NoPacket /\ Same(kernel')
        BY <1>0, <1>1, <2>3, <2>6, <2>7, ReadAck
    <2>9. Room(0)' /\ Free'
        BY <1>1, <1>a, <2>8 DEF Room, Same, Free
    <2> QED  BY <1>1, <1>a, <2>8, <2>9 DEF Serving, Same
<1>2. CASE /\ kernel.running /\ ~kernel.breakin /\ kernel.filing /\ Room(0)
           /\ kernel.expect = seq /\ toHost = << >>
           /\ Free /\ toTarget = <<reply>>
    <2>1. ~KernelNoise /\ ~(\E stop \in Stops : KernelStop(stop)) /\ ~Lose /\ ~KernelResend
        BY <1>2, LoseIs, ResendIs DEF KernelNoise, KernelStop
    <2>2. KernelRead
        BY <2>1 DEF KernelMoves
    <2>3. Head(toTarget) = reply /\ Tail(toTarget) = << >>
        BY <1>2, Singles
    <2>4. reply.kind = "IO" /\ reply.id = seq
        BY PacketFields
    <2>5. LET p == Head(toTarget)
              ack == <<Ctrl("ACK", p.id)>>
          IN  /\ toTarget' = Tail(toTarget) /\ UNCHANGED host
              /\ kernel'.expect = 1 - kernel.expect
              /\ kernel'.breakin = kernel.breakin
              /\ p.kind = "IO" => /\ ~kernel'.filing /\ kernel'.running = kernel.running
                                  /\ kernel'.noise = kernel.noise
                                  /\ kernel'.unacked = NoPacket /\ toHost' = toHost \o ack
        BY <1>0, <1>2, <2>2, <2>3, <2>4, ReadAwaited
    <2>6. /\ toTarget' = << >> /\ UNCHANGED host /\ kernel'.expect = 1 - seq /\ ~kernel'.breakin
          /\ ~kernel'.filing /\ kernel'.running /\ kernel'.noise = kernel.noise
          /\ kernel'.unacked = NoPacket /\ toHost' = << >> \o <<Ctrl("ACK", seq)>>
        BY <1>2, <2>3, <2>4, <2>5
    <2>7. toHost' = <<Ctrl("ACK", seq)>> \o Unread' /\ Run' /\ Free'
        BY <2>6, Singles, PacketFields DEF Unread, Free, Run
    <2>8. Room(0)'
        BY <1>2, <1>a, <2>6 DEF Room
    <2> QED  BY <1>a, <2>6, <2>7, <2>8 DEF Serving
<1>3. CASE /\ Run /\ kernel.expect = 1 - seq /\ toTarget = << >>
           /\ toHost = <<Ctrl("ACK", seq)>> \o Unread
           /\ Room(IF kernel.running /\ ~Free THEN 1 ELSE 0)
    <2>1. /\ toTarget' = << >> /\ toHost' = <<Ctrl("ACK", seq)>> \o Unread' /\ Run'
          /\ UNCHANGED host /\ kernel'.expect = kernel.expect /\ Free /\ ~Free'
          /\ kernel'.running => kernel'.noise = kernel.noise + 1
          /\ ~kernel'.running => kernel'.noise = kernel.noise
        BY <1>3, BehindAck
    <2>2. waits[1].left + kernel.noise >= Retries
        BY <1>3, <1>b, <2>1 DEF Room
    <2>3. waits'[1].left + kernel'.noise >= Retries + (IF kernel'.running THEN 1 ELSE 0)
        BY <1>a, <1>b, <2>1, <2>2
    <2>4. Room(IF kernel.running /\ ~Free THEN 1 ELSE 0)'
        BY <2>1, <2>3 DEF Room
    <2> QED  BY <1>3, <1>a, <2>1, <2>4 DEF Serving
<1> QED  BY <1>1, <1>2, <1>3 DEF Serving

----------------------------------------------------------------------------
(* What the host reads in each phase.                                      *)

\* The only wait of a call reads the packet p.
LEMMA OnlyWait ==
    ASSUME TypeInv, Len(waits) = 1, wind_wait_packet, Head(toHost).kind # "RESEND"
    PROVE  LET p == Head(toHost)
           IN  /\ toHost # << >> /\ toHost' = Tail(toHost) /\ UNCHANGED <<kernel, lost, kills>>
               /\ p \in KernelPackets /\ Result(p) = p
               /\ Head(waits) = waits[1] /\ waits[1] \in Frames /\ waits[1].left \in 0 .. Retries
               /\ p.kind = "IO" => do_io_reply(p)
               /\ (p.kind \notin {"IO", waits[1].type} /\ waits[1].left # 0) => ReadOver(p)
               /\ (p.kind # "IO" /\ p.kind = waits[1].type) => CallReturned(p)
<1> DEFINE p == Head(toHost)
<1>1. waits \in Seq(Frames) /\ waits # << >> /\ GoodStack(waits)
    BY DEF TypeInv, StackOK, GoodStack, wind_wait_packet
<1>2. Head(waits) = waits[1] /\ waits[1] \in Frames /\ Top = waits[1]
    BY <1>1 DEF Top, Last
<1>3. waits[1].left \in 0 .. Retries
    BY <1>1, LastFrame
<1>4. Returned(waits) = << >>
    <2>1. PICK k \in 0 .. Len(waits) - 1 : Returned(waits) = SubSeq(waits, 1, k)
        BY <1>1, ReturnedIs
    <2>2. k = 0
        OBVIOUS
    <2> QED  BY <1>1, <2>1, <2>2
<1>5. toHost # << >> /\ p \in KernelPackets
    BY QueueTypes DEF wind_wait_packet, TypeInv
<1> QED  BY <1>2, <1>3, <1>4, <1>5 DEF wind_wait_packet, Return, Result

LEMMA AckedIs ==
    \A p : /\ p.kind \in Data => Acked(p) = <<Ack(p)>>
           /\ p.kind \notin Data => Acked(p) = << >>
BY DEF Acked, Ack

LEMMA SpendOne ==
    ASSUME TypeInv, Len(waits) = 1, waits # << >>, waits' = Spend(waits)
    PROVE  /\ Len(waits') = 1 /\ waits'[1].type = waits[1].type
           /\ waits'[1].left = waits[1].left - 1
<1>1. GoodStack(waits)
    BY DEF TypeInv, StackOK
<1> QED  BY <1>1, SpendIs

\* What the kernel was repeating when wind_sync started is read over.
LEMMA ResetSentReads ==
    ASSUME Orderly, KdInv, ResetSent, wind_wait_packet
    PROVE  ResetSent'
<1> DEFINE u == kernel.unacked
           rst == Ctrl("RESET", 0)
<1>0. TypeInv /\ One("RESET") /\ Len(waits) = 1 /\ waits # << >> /\ toHost # << >>
    BY DEF KdInv, ResetSent, One, wind_wait_packet
<1>1. /\ waits[1].left = Retries
      /\ toTarget = <<Breakin, rst>> \/ toTarget = <<rst>>
      /\ toHost = <<u>> /\ u.kind \in Data \ {"IO"}
    BY <1>0 DEF ResetSent
<1>2. Head(toHost) = u /\ Tail(toHost) = << >>
    BY <1>1, Singles
<1>3. u.kind # "RESEND" /\ u.kind \notin {"IO", waits[1].type} /\ waits[1].left # 0
    BY <1>0, <1>1 DEF One, Orderly, Data
<1>4. ReadOver(u) /\ toHost' = << >> /\ UNCHANGED kernel
    BY <1>0, <1>2, <1>3, OnlyWait
<1>5. /\ toTarget' = toTarget \o <<Ack(u)>> /\ call' = call /\ waits' = Spend(waits)
    BY <1>1, <1>4, AckedIs DEF ReadOver
<1>6. One("RESET")'
    BY <1>0, <1>5, SpendOne DEF One
<1>7. /\ toTarget' = <<Breakin, rst, Ack(u)>> \/ toTarget' = <<rst, Ack(u)>>
      /\ toTarget'[1] = toTarget[1]
    <2>1. CASE toTarget = <<Breakin, rst>>
        <3>1. toTarget' = <<Breakin, rst, Ack(u)>>
            BY <1>5, <2>1, Triples
        <3>2. toTarget'[1] = Breakin /\ toTarget[1] = Breakin
            BY <2>1, <3>1, Pairs, Triples
        <3> QED  BY <3>1, <3>2
    <2>2. CASE toTarget = <<rst>>
        BY <1>5, <2>2, Singles, Pairs
    <2> QED  BY <1>1, <2>1, <2>2
<1>8. ~Free
    BY <1>1, PacketFields DEF Free, Data
<1>9. call' = "sync" /\ ((kernel'.running /\ ~kernel'.breakin) => toTarget'[1] = Breakin)
    BY <1>4, <1>5, <1>7 DEF ResetSent
<1> QED  BY <1>4, <1>6, <1>7, <1>8, <1>9 DEF ResetSent, Free

LEMMA ResetReadReads ==
    ASSUME Orderly, KdInv, ResetRead, wind_wait_packet
    PROVE  ResetRead' \/ Reporting'
<1> DEFINE rst == Ctrl("RESET", 0)
<1>0. /\ TypeInv /\ One("RESET") /\ Len(waits) = 1 /\ waits # << >> /\ toHost # << >> /\ call = "sync"
      /\ rst \in KernelPackets /\ rst.kind = "RESET"
    BY SentByKernel, PacketFields DEF KdInv, ResetRead, One, wind_wait_packet
<1>1. PICK s \in Seq(KernelPackets) :
         /\ Reported(s)
         /\ \/ Leftover /\ toHost = <<rst>> \o s
            \/ /\ toTarget = << >> /\ waits[1].left = Retries
               /\ Free => kernel.running
               /\ \E p \in KernelPackets : /\ p.kind \in Data \ {"IO"}
                                           /\ toHost = <<p>> \o (<<rst>> \o s)
    BY DEF ResetRead
<1>2. CASE Leftover /\ toHost = <<rst>> \o s
    <2>1. Head(toHost) = rst /\ Tail(toHost) = s
        BY <1>0, <1>2, FirstOf
    <2>2. CallReturned(rst) /\ toHost' = s /\ UNCHANGED kernel /\ Head(waits) = waits[1]
        BY <1>0, <2>1, OnlyWait DEF One
    <2>3. SyncReturned(rst) /\ Head(waits).type = "RESET"
        BY <1>0, <2>2 DEF CallReturned, One
    <2>4. Acked(rst) = << >>
        BY <1>0, AckedIs DEF Data
    <2>5. toTarget' = toTarget /\ waits' = <<Frame("STATE_CHANGE")>> /\ call' = "sync"
        <3>1. toTarget \o << >> = toTarget
            BY <1>0 DEF TypeInv
        <3> QED  BY <1>0, <2>3, <2>4, <3>1 DEF SyncReturned
    <2>6. One("STATE_CHANGE")'
        BY <2>5, FrameType, GoodOne DEF One
    <2>7. Reported(toHost)'
        BY <1>1, <2>2, <2>5 DEF Reported, Free
    <2> QED  BY <1>2, <2>5, <2>6, <2>7 DEF Reporting, Leftover
<1>3. ASSUME toTarget = << >>, waits[1].left = Retries, Free => kernel.running,
             NEW p \in KernelPackets, p.kind \in Data \ {"IO"}, toHost = <<p>> \o (<<rst>> \o s)
      PROVE  ResetRead'
    <2>0. <<rst>> \o s \in Seq(KernelPackets)
        BY <1>0
    <2>1. Head(toHost) = p /\ Tail(toHost) = <<rst>> \o s
        <3>1. PICK t \in Seq(KernelPackets) : t = <<rst>> \o s
            BY <2>0
        <3>2. Head(<<p>> \o t) = p /\ Tail(<<p>> \o t) = t
            BY FirstOf
        <3> QED  BY <1>3, <3>1, <3>2
    <2>2. p.kind # "RESEND" /\ p.kind \notin {"IO", waits[1].type} /\ waits[1].left # 0
        BY <1>0, <1>3 DEF One, Orderly, Data
    <2>3. ReadOver(p) /\ toHost' = <<rst>> \o s /\ UNCHANGED kernel
        BY <1>0, <2>1, <2>2, OnlyWait
    <2>4. toTarget' = <<Ack(p)>> /\ call' = call /\ waits' = Spend(waits)
        BY <1>3, <2>3, AckedIs, Singles DEF ReadOver
    <2>5. One("RESET")'
        BY <1>0, <2>4, SpendOne DEF One
    <2>6. Leftover'
        BY <2>4, PacketFields DEF Leftover, Ack
    <2>7. Reported(s)'
        BY <1>1, <1>3, <2>3 DEF Reported, Free
    <2> QED  BY <1>0, <2>3, <2>4, <2>5, <2>6, <2>7 DEF ResetRead
<1> QED  BY <1>1, <1>2, <1>3

LEMMA ReportingReads ==
    ASSUME Orderly, KdInv, Reporting, wind_wait_packet
    PROVE  Prompt'
<1> DEFINE p == Head(toHost)
<1>0. /\ TypeInv /\ AskedInv /\ One("STATE_CHANGE") /\ Len(waits) = 1 /\ toHost # << >> /\ call = "sync"
      /\ Leftover
    BY DEF KdInv, Reporting, One, wind_wait_packet
<1>1. Reported(toHost)
    BY <1>0 DEF Reporting
<1>2. /\ ~kernel.running /\ kernel.expect = 0 /\ Len(toHost) = 1 /\ toHost[1].kind = "STATE_CHANGE"
      /\ Free \/ kernel.unacked = toHost[1]
    BY <1>0, <1>1 DEF Reported
<1>3. p = toHost[1] /\ Tail(toHost) = << >>
    <2>1. toHost \in Seq(KernelPackets) /\ Len(toHost) = 1
        BY <1>0, <1>2 DEF TypeInv
    <2>2. p = toHost[1]
        BY <2>1
    <2>3. Tail(toHost) \in Seq(KernelPackets) /\ Len(Tail(toHost)) = 0
        BY <2>1
    <2>4. \A t \in Seq(KernelPackets) : Len(t) = 0 => t = << >>
        OBVIOUS
    <2>5. Tail(toHost) = << >>
        BY <2>3, <2>4
    <2> QED  BY <2>2, <2>5
<1>4. CallReturned(p) /\ toHost' = << >> /\ UNCHANGED kernel /\ Head(waits) = waits[1] /\ Result(p) = p
    BY <1>0, <1>2, <1>3, OnlyWait DEF One
<1>5. SyncReturned(p) /\ Head(waits).type = "STATE_CHANGE"
    BY <1>0, <1>4 DEF CallReturned, One
<1>6. /\ toTarget' = toTarget \o <<Ack(p)>> /\ call' = "none" /\ stopped' /\ seq' = 1
      /\ got' = "STATE_CHANGE" /\ asked' = asked
    BY <1>2, <1>3, <1>4, <1>5, AckedIs DEF SyncReturned, End, Answer, Data
<1>7. \A i \in 1 .. Len(toTarget') : toTarget'[i].kind = "ACK"
    <2>1. CASE toTarget = << >>
        BY <1>6, <2>1, Singles, PacketFields DEF Ack
    <2>2. ASSUME NEW b \in Bits, toTarget = <<Ctrl("ACK", b)>>
          PROVE  \A i \in 1 .. Len(toTarget') : toTarget'[i].kind = "ACK"
        <3>1. /\ Len(toTarget') = 2 /\ toTarget'[1] = Ctrl("ACK", b) /\ toTarget'[2] = Ack(p)
            BY <1>6, <2>2, Pairs
        <3>2. toTarget'[1].kind = "ACK" /\ toTarget'[2].kind = "ACK"
            BY <3>1, PacketFields DEF Ack
        <3> QED  BY <3>1, <3>2
    <2> QED  BY <1>0, <2>1, <2>2 DEF Leftover
<1>8. \E i \in 1 .. Len(toTarget') : toTarget'[i] = Ack(p)
    <2>1. CASE toTarget = << >>
        <3>1. toTarget' = <<Ack(p)>>
            BY <1>6, <2>1, Singles
        <3>2. Len(toTarget') = 1 /\ toTarget'[1] = Ack(p)
            BY <3>1, Singles
        <3> QED  BY <3>2
    <2>2. ASSUME NEW b \in Bits, toTarget = <<Ctrl("ACK", b)>>
          PROVE  \E i \in 1 .. Len(toTarget') : toTarget'[i] = Ack(p)
        <3>1. Len(toTarget') = 2 /\ toTarget'[2] = Ack(p)
            BY <1>6, <2>2, Pairs
        <3> QED  BY <3>1
    <2> QED  BY <1>0, <2>1, <2>2 DEF Leftover
<1>9. Settles(toTarget)'
    BY <1>2, <1>3, <1>4, <1>8 DEF Settles, Settled, Free
<1>10. got' = asked'
    BY <1>0, <1>6 DEF AskedInv
<1> QED  BY <1>2, <1>4, <1>6, <1>7, <1>9, <1>10 DEF Prompt, Only

\* A queue of one acknowledge.
LEMMA OneAck ==
    ASSUME NEW u
    PROVE  Only({"ACK"}, <<Ack(u)>>) /\ Settled(u, <<Ack(u)>>)
<1> DEFINE q == <<Ack(u)>>
<1>1. Len(q) = 1 /\ q[1] = Ack(u) /\ Ack(u).kind = "ACK"
    BY Singles, PacketFields DEF Ack
<1> HIDE DEF q
<1>2. Only({"ACK"}, q) /\ Settled(u, q)
    BY <1>1 DEF Only, Settled
<1> QED  BY <1>2 DEF q

LEMMA AnsweredReads ==
    ASSUME Orderly, KdInv, Answered, wind_wait_packet
    PROVE  Answered' \/ Prompt'
<1> DEFINE u == kernel.unacked
           ack == Ctrl("ACK", seq)
<1>0. /\ TypeInv /\ toHost # << >> /\ call = "request" /\ stopped /\ ~kernel.running
      /\ kernel.expect = 1 - seq /\ toTarget = << >> /\ u = Packet("MANIP", kernel.id, asked)
      /\ u.kind = "MANIP" /\ u.about = asked /\ ack.kind = "ACK"
    BY PacketFields DEF KdInv, Answered, wind_wait_packet
<1>1. CASE One("ACK") /\ toHost = <<ack, u>>
    <2>1. Head(toHost) = ack /\ Tail(toHost) = <<u>>
        BY <1>1, Pairs
    <2>2. CallReturned(ack) /\ toHost' = <<u>> /\ UNCHANGED kernel /\ Head(waits) = waits[1]
        BY <1>0, <1>1, <2>1, OnlyWait DEF One
    <2>3. RequestReturned(ack) /\ Head(waits).type = "ACK"
        BY <1>0, <1>1, <2>2 DEF CallReturned, One
    <2>4. Acked(ack) = << >>
        BY <1>0, AckedIs DEF Data
    <2>5. /\ toTarget' = << >> /\ waits' = <<Frame("MANIP")>>
          /\ UNCHANGED <<call, seq, stopped, asked>>
        BY <1>0, <2>3, <2>4, Singles DEF RequestReturned
    <2>6. One("MANIP")'
        BY <2>5, FrameType, GoodOne DEF One
    <2> QED  BY <1>0, <2>2, <2>5, <2>6 DEF Answered
<1>2. CASE One("MANIP") /\ toHost = <<u>>
    <2>1. Head(toHost) = u /\ Tail(toHost) = << >>
        BY <1>2, Singles
    <2>2. CallReturned(u) /\ toHost' = << >> /\ UNCHANGED kernel /\ Head(waits) = waits[1] /\ Result(u) = u
        BY <1>0, <1>2, <2>1, OnlyWait DEF One
    <2>3. RequestReturned(u) /\ Head(waits).type = "MANIP"
        BY <1>0, <1>2, <2>2 DEF CallReturned, One
    <2>4. /\ toTarget' = << >> \o <<Ack(u)>> /\ call' = "none"
          /\ UNCHANGED <<seq, stopped, asked>> /\ got' = asked
        BY <1>0, <2>2, <2>3, AckedIs DEF RequestReturned, End, Answer, Data
    <2>5. toTarget' = <<Ack(u)>>
        BY <2>4, Singles
    <2>6. Only({"ACK"}, toTarget') /\ Settled(kernel'.unacked, toTarget')
        BY <2>2, <2>5, OneAck
    <2> QED  BY <1>0, <2>2, <2>4, <2>6 DEF Prompt, Only, Settles
<1> QED  BY <1>0, <1>1, <1>2 DEF Answered

\* The host has read the acknowledge that the kernel runs behind.
LEMMA GoesAway ==
    ASSUME KdInv, Run, UNCHANGED kernel, ~stopped', kernel.expect = 1 - seq',
           (call' = "none" /\ got' = asked') \/ (call' = "wait" /\ One("STATE_CHANGE")'),
           toTarget' = << >>, toHost' = Unread,
           call' = "wait" => Room(IF kernel.running /\ ~Free THEN 1 ELSE 0)'
    PROVE  Away'
<1>1. CASE Free
    <2>1. kernel.running /\ ~kernel.breakin /\ ~kernel.filing /\ toHost' = << >>
        BY <1>1, PacketFields DEF Run, Free, Unread
    <2>2. call' = "wait" => Room(0)'
        BY <1>1 DEF Free
    <2> QED  BY <1>1, <2>1, <2>2 DEF Away, Free
<1>2. CASE ~Free
    <2>1. toHost' = <<kernel'.unacked>> /\ ~Free' /\ Run'
        BY <1>2 DEF Unread, Free, Run
    <2>2. call' = "wait" => Room(IF kernel.running THEN 1 ELSE 0)'
        BY <1>2 DEF Free
    <2> QED  BY <2>1, <2>2 DEF Away
<1> QED  BY <1>1, <1>2

\* The acknowledge comes before what the kernel has sent since.
LEMMA AckFirst ==
    ASSUME KdInv, toHost = <<Ctrl("ACK", seq)>> \o Unread
    PROVE  /\ Head(toHost) = Ctrl("ACK", seq) /\ Tail(toHost) = Unread
           /\ Head(toHost).kind = "ACK" /\ Acked(Head(toHost)) = << >>
<1>1. Head(toHost) = Ctrl("ACK", seq) /\ Tail(toHost) = Unread
    <2>1. CASE Free
        <3>1. toHost = <<Ctrl("ACK", seq)>> /\ Unread = << >>
            BY <2>1, Singles DEF Unread
        <3> QED  BY <3>1, Singles
    <2>2. CASE ~Free
        <3>1. toHost = <<Ctrl("ACK", seq), kernel.unacked>> /\ Unread = <<kernel.unacked>>
            BY <2>2, Pairs DEF Unread
        <3>2. LET q == <<Ctrl("ACK", seq), kernel.unacked>>
              IN  Head(q) = Ctrl("ACK", seq) /\ Tail(q) = <<kernel.unacked>>
            BY Pairs
        <3> QED  BY <3>1, <3>2
    <2> QED  BY <2>1, <2>2
<1>2. Ctrl("ACK", seq).kind = "ACK"
    BY PacketFields
<1> QED  BY <1>1, <1>2, AckedIs DEF Data

LEMMA ContinuedReads ==
    ASSUME Orderly, KdInv, Continued, wind_wait_packet
    PROVE  Away'
<1> DEFINE p == Head(toHost)
<1>0. /\ TypeInv /\ UnackedInv /\ AskedInv /\ toTarget = << >> /\ Run /\ One("ACK") /\ kernel.expect = 1 - seq
      /\ toHost = <<Ctrl("ACK", seq)>> \o Unread /\ call \in {"continue", "resume"}
      /\ (call = "resume" => ~stopped)
    BY DEF KdInv, Continued
<1>1. p.kind = "ACK" /\ Tail(toHost) = Unread /\ Acked(p) = << >>
    BY <1>0, AckFirst
<1>2. CallReturned(p) /\ toHost' = Unread /\ UNCHANGED kernel /\ Result(p) = p
    BY <1>0, <1>1, OnlyWait DEF One
<1>3. CASE call = "continue"
    <2>1. ContinueReturned(p)
        BY <1>2, <1>3 DEF CallReturned
    <2>2. /\ toTarget' = << >> /\ ~stopped' /\ call' = "none" /\ UNCHANGED <<seq, asked>>
          /\ got' = "ACK"
        BY <1>0, <1>1, <1>2, <2>1, Singles DEF ContinueReturned, End, Answer
    <2>3. got' = asked'
        BY <1>0, <1>3, <2>2 DEF AskedInv
    <2> QED  BY <1>0, <1>2, <2>2, <2>3, GoesAway
<1>4. CASE call = "resume"
    <2>1. ResumeReturned(p)
        BY <1>2, <1>4 DEF CallReturned
    <2>2. /\ toTarget' = << >> /\ call' = "wait" /\ waits' = <<Frame("STATE_CHANGE")>>
          /\ UNCHANGED <<seq, stopped>>
        BY <1>0, <1>1, <2>1, Singles DEF ResumeReturned
    <2>3. One("STATE_CHANGE")' /\ waits'[1].left = Retries
        BY <2>2, FrameType, GoodOne DEF One
    <2>4. kernel.noise \in Nat /\ Retries \in Nat /\ (kernel.running /\ ~Free => kernel.noise > 0)
        BY <1>0, KernelFields, Constants DEF UnackedInv, Free
    <2>5. Room(IF kernel.running /\ ~Free THEN 1 ELSE 0)'
        <3>1. waits'[1].left + kernel'.noise >= Retries + (IF kernel.running /\ ~Free THEN 1 ELSE 0)
            BY <1>2, <2>3, <2>4
        <3> QED  BY <1>2, <3>1 DEF Room, Free
    <2> QED  BY <1>0, <1>2, <1>4, <2>2, <2>3, <2>5, GoesAway
<1> QED  BY <1>0, <1>3, <1>4

\* The retries left in r_debug_wind_wait.
LEMMA RoomLeft ==
    ASSUME Orderly, TypeInv, waits # << >>, NEW n \in Nat, Room(n)
    PROVE  waits[1].left \in Int /\ waits[1].left >= n /\ kernel.noise \in Nat /\ Retries \in Nat
<1>1. waits[1] \in Frames
    BY DEF TypeInv, StackOK, GoodStack
<1>2. /\ waits[1].left \in Int /\ kernel.noise \in Nat /\ Retries \in Nat /\ MaxNoise \in Nat
      /\ kernel.noise <= MaxNoise /\ MaxNoise <= Retries
    BY <1>1, KernelFields, Constants DEF Frames, Orderly
<1> QED  BY <1>2 DEF Room

LEMMA AwayReads ==
    ASSUME Orderly, KdInv, Away, wind_wait_packet
    PROVE  Away' \/ Prompt' \/ Asked' \/ Serving'
<1> DEFINE u == kernel.unacked
<1>0. /\ TypeInv /\ UnackedInv /\ AskedInv /\ ~stopped /\ kernel.expect = 1 - seq /\ seq \in Bits
      /\ waits # << >> /\ toHost # << >> /\ call = "wait" /\ One("STATE_CHANGE")
    BY DEF KdInv, Away, wind_wait_packet, TypeInv, StackOK
<1>1. /\ ~Free /\ Run /\ toTarget = << >> /\ toHost = <<u>>
      /\ Room(IF kernel.running THEN 1 ELSE 0)
    BY <1>0 DEF Away
<1>2. Head(toHost) = u /\ Tail(toHost) = << >>
    BY <1>1, Singles
<1>3. u.kind \in Data /\ u.id \in Bits /\ u \in KernelPackets
    BY <1>0, <1>1, KernelFields, PacketFields DEF UnackedInv, Free
<1>4. u.kind # "RESEND" /\ Acked(u) = <<Ack(u)>>
    BY <1>3, AckedIs DEF Data
<1>5. /\ toHost' = << >> /\ UNCHANGED kernel /\ Result(u) = u
      /\ u.kind = "IO" => do_io_reply(u)
      /\ (u.kind \notin {"IO", "STATE_CHANGE"} /\ waits[1].left # 0) => ReadOver(u)
      /\ u.kind = "STATE_CHANGE" => CallReturned(u)
    BY <1>0, <1>2, <1>4, OnlyWait DEF One
<1>6. CASE kernel.running
    <2>1. u.kind \in {"PRINT", "IO"} /\ ~kernel.breakin /\ (kernel.filing <=> u.kind = "IO")
        BY <1>0, <1>1, <1>6 DEF UnackedInv, Run, Free
    <2>2. Room(1)
        BY <1>1, <1>6
    <2>3. /\ waits[1].left \in Int /\ waits[1].left >= 1 /\ kernel.noise \in Nat /\ Retries \in Nat
          /\ waits[1].left + kernel.noise >= Retries + 1
        BY <1>0, <2>2, RoomLeft DEF Room
    <2>4. CASE u.kind = "PRINT"
        <3>1. ReadOver(u)
            BY <1>5, <2>3, <2>4
        <3>2. /\ toTarget' = <<Ack(u)>> /\ waits' = Spend(waits)
              /\ UNCHANGED <<call, seq, stopped, dbreak, asked, got>>
            BY <1>1, <1>4, <3>1, Singles DEF ReadOver
        <3>3. Len(waits') = 1 /\ waits'[1].type = "STATE_CHANGE" /\ waits'[1].left = waits[1].left - 1
            BY <1>0, <3>2, SpendOne DEF One
        <3>4. waits'[1].left + kernel'.noise >= Retries
            BY <1>5, <2>3, <3>3
        <3>5. Room(0)' /\ One("STATE_CHANGE")'
            BY <2>3, <3>3, <3>4 DEF Room, One
        <3>6. /\ kernel'.running /\ ~kernel'.breakin /\ ~kernel'.filing /\ ~Free'
              /\ toTarget' = <<Ack(kernel'.unacked)>> /\ kernel'.expect = 1 - seq'
            BY <1>0, <1>1, <1>5, <1>6, <2>1, <2>4, <3>2 DEF Free
        <3>7. ~stopped' /\ call' = "wait" /\ toHost' = << >>
            BY <1>0, <1>5, <3>2
        <3> QED  BY <3>5, <3>6, <3>7 DEF Away
    <2>5. CASE u.kind = "IO"
        <3>1. do_io_reply(u)
            BY <1>5, <2>5
        <3>2. /\ toTarget' = << >> \o <<Ack(u)>> \o <<Packet("IO", 1 - seq, "ENOENT")>>
              /\ seq' = 1 - seq /\ waits' = Append(Spend(waits), Frame("ACK"))
              /\ UNCHANGED <<call, stopped, dbreak, asked, got>>
            BY <1>1, <1>4, <3>1 DEF do_io_reply
        <3>3. toTarget' = <<Ack(u), Packet("IO", seq', "ENOENT")>>
            BY <3>2, Singles, Pairs
        <3>4. /\ Len(waits') = 2 /\ waits'[1].type = "STATE_CHANGE"
              /\ waits'[1].left = waits[1].left - 1
            <4>1. GoodStack(waits) /\ Len(waits) = 1 /\ waits[1].type = "STATE_CHANGE"
                BY <1>0 DEF TypeInv, StackOK, One
            <4>2. /\ Spend(waits) \in Seq(Frames) /\ Len(Spend(waits)) = 1
                  /\ Spend(waits)[1].left = waits[1].left - 1 /\ Spend(waits)[1].type = "STATE_CHANGE"
                BY <4>1, SpendIs
            <4>3. PICK sp \in Seq(Frames) : sp = Spend(waits)
                BY <4>2
            <4>4. Frame("ACK") \in Frames
                BY FrameType
            <4>5. Len(Append(sp, Frame("ACK"))) = Len(sp) + 1
                  /\ \A i \in 1 .. Len(sp) : Append(sp, Frame("ACK"))[i] = sp[i]
                BY <4>3, <4>4, Appended
            <4>6. Len(sp) = 1 /\ sp[1] = Spend(waits)[1]
                BY <4>2, <4>3
            <4>7. Append(sp, Frame("ACK"))[1] = sp[1] /\ Len(Append(sp, Frame("ACK"))) = 2
                BY <4>5, <4>6
            <4> QED  BY <3>2, <4>2, <4>3, <4>6, <4>7
        <3>5. waits'[1].left + kernel'.noise >= Retries
            BY <1>5, <2>3, <3>4
        <3>6. Room(0)'
            BY <2>3, <3>5 DEF Room
        <3>7. /\ kernel'.running /\ ~kernel'.breakin /\ kernel'.filing /\ ~Free'
              /\ toTarget' = <<Ack(kernel'.unacked), Packet("IO", seq', "ENOENT")>>
              /\ kernel'.expect = seq'
            BY <1>0, <1>1, <1>5, <1>6, <2>1, <2>5, <3>2, <3>3 DEF Free
        <3>8. ~stopped' /\ call' = "wait" /\ toHost' = << >>
            BY <1>0, <1>5, <3>2
        <3> QED  BY <3>4, <3>6, <3>7, <3>8 DEF Serving
    <2> QED  BY <2>1, <2>4, <2>5
<1>7. CASE ~kernel.running
    <2>1. u.kind = "STATE_CHANGE"
        BY <1>1, <1>7 DEF Run
    <2>2. WaitReturned(u)
        BY <1>0, <1>5, <2>1 DEF CallReturned
    <2>3. CASE dbreak
        <3>1. /\ toTarget' = << >> \o <<Ack(u)>> \o <<Breakin>> /\ waits' = <<Frame("STATE_CHANGE")>>
              /\ UNCHANGED <<call, seq, stopped>>
            BY <1>1, <1>4, <2>2, <2>3 DEF WaitReturned
        <3>2. toTarget' = <<Ack(u), Breakin>>
            BY <3>1, Singles, Pairs
        <3>3. LET q == <<Ack(u), Breakin>>
              IN  Len(q) = 2 /\ q[1] = Ack(u) /\ q[2] = Breakin
            BY Pairs
        <3>4. Len(toTarget') = 2 /\ toTarget'[1] = Ack(u) /\ toTarget'[2] = Breakin
            BY <3>2, <3>3
        <3>5. Ack(u).kind = "ACK" /\ Breakin.kind = "BREAKIN"
            BY PacketFields DEF Ack, Breakin
        <3>6. Only({"ACK", "BREAKIN"}, toTarget')
            BY <3>4, <3>5 DEF Only
        <3>7. Settled(kernel'.unacked, toTarget')
            BY <1>5, <3>4 DEF Settled
        <3>8. One("STATE_CHANGE")'
            BY <3>1, FrameType, GoodOne DEF One
        <3> QED  BY <1>0, <1>5, <1>7, <3>1, <3>6, <3>7, <3>8 DEF Away, Only, Settles
    <2>4. CASE ~dbreak /\ u.about = "exception"
        <3>1. /\ toTarget' = << >> \o <<Ack(u)>> /\ call' = "none" /\ stopped'
              /\ got' = "STATE_CHANGE" /\ UNCHANGED <<seq, asked>>
            BY <1>1, <1>4, <1>5, <2>1, <2>2, <2>4 DEF WaitReturned, End, Answer
        <3>2. toTarget' = <<Ack(u)>>
            BY <3>1, Singles
        <3>3. Only({"ACK"}, toTarget') /\ Settled(kernel'.unacked, toTarget')
            BY <1>5, <3>2, OneAck
        <3>4. got' = asked'
            BY <1>0, <3>1 DEF AskedInv
        <3> QED  BY <1>0, <1>5, <1>7, <3>1, <3>3, <3>4 DEF Prompt, Only, Settles
    <2>5. CASE ~dbreak /\ u.about # "exception"
        <3>1. /\ toTarget' = << >> \o <<Ack(u)>> \o <<Packet("MANIP", 1 - seq, Continue)>>
              /\ seq' = 1 - seq /\ call' = "resume" /\ waits' = <<Frame("ACK")>> /\ UNCHANGED stopped
            BY <1>1, <1>4, <1>5, <2>2, <2>5 DEF WaitReturned
        <3>2. toTarget' = Append(<<Ack(u)>>, Packet("MANIP", seq', Continue))
            BY <3>1, Singles, Pairs
        <3>3. <<Ack(u)>> \in Seq(HostPackets)
            <4>1. Ack(u) \in HostPackets
                BY <1>3, SentByHost DEF Ack
            <4> QED  BY <4>1
        <3>4. Only({"ACK"}, <<Ack(u)>>) /\ Settled(kernel'.unacked, <<Ack(u)>>)
            BY <1>5, OneAck
        <3>5. \E acks \in Seq(HostPackets) :
                 /\ toTarget' = Append(acks, Packet("MANIP", seq', Continue))
                 /\ Only({"ACK"}, acks) /\ Settled(kernel'.unacked, acks)
            BY <3>2, <3>3, <3>4
        <3>6. One("ACK")' /\ kernel'.expect = seq' /\ ~kernel'.running /\ toHost' = << >>
            BY <1>0, <1>5, <1>7, <3>1, FrameType, GoodOne DEF One
        <3> QED  BY <1>0, <3>1, <3>5, <3>6 DEF Asked, Only, Settles
    <2> QED  BY <2>3, <2>4, <2>5
<1> QED  BY <1>6, <1>7

\* The wait inside do_io_reply has its acknowledge.
LEMMA ServingReads ==
    ASSUME Orderly, KdInv, Serving, wind_wait_packet
    PROVE  Away'
<1> DEFINE p == Head(toHost)
<1>0. /\ TypeInv /\ call = "wait" /\ ~stopped /\ Len(waits) = 2 /\ waits # << >>
      /\ waits[1].type = "STATE_CHANGE" /\ toHost # << >> /\ GoodStack(waits)
    BY DEF KdInv, Serving, wind_wait_packet, TypeInv, StackOK
<1>1. /\ Run /\ kernel.expect = 1 - seq /\ toTarget = << >>
      /\ toHost = <<Ctrl("ACK", seq)>> \o Unread
      /\ Room(IF kernel.running /\ ~Free THEN 1 ELSE 0)
    BY <1>0 DEF Serving
<1>2. p.kind = "ACK" /\ Tail(toHost) = Unread /\ Acked(p) = << >>
    BY <1>1, AckFirst
<1>3. waits[2].type = "ACK" /\ waits \in Seq(Frames) /\ Top = waits[2]
    BY <1>0 DEF GoodStack, Top, Last
<1>4. Return(p) /\ toHost' = Unread /\ UNCHANGED kernel
    BY <1>2, <1>3 DEF wind_wait_packet
<1>5. waits[1].left >= 0
    <2>1. (IF kernel.running /\ ~Free THEN 1 ELSE 0) \in Nat
        OBVIOUS
    <2>2. /\ waits[1].left \in Int
          /\ waits[1].left >= (IF kernel.running /\ ~Free THEN 1 ELSE 0)
        BY <1>0, <1>1, <2>1, RoomLeft
    <2> QED  BY <2>2
<1>6. Returned(waits) = SubSeq(waits, 1, 1)
    <2>1. PICK k \in 0 .. Len(waits) - 1 :
             /\ Returned(waits) = SubSeq(waits, 1, k)
             /\ \A i \in 1 .. Len(waits) - 1 : waits[i].left >= 0 => i <= k
        BY <1>0, <1>3, ReturnedIs
    <2>2. k \in {0, 1} /\ 1 <= k
        BY <1>0, <1>5, <2>1
    <2> QED  BY <2>1, <2>2
<1>7. /\ Len(Returned(waits)) = 1 /\ Returned(waits)[1] = waits[1] /\ Returned(waits) # << >>
    BY <1>0, <1>3, <1>6
<1>8. /\ waits' = Returned(waits) /\ toTarget' = << >>
      /\ UNCHANGED <<call, seq, stopped, dbreak, asked, got>>
    BY <1>1, <1>2, <1>4, <1>7, Singles DEF Return, Unwind
<1>9. One("STATE_CHANGE")' /\ waits'[1] = waits[1]
    BY <1>0, <1>7, <1>8 DEF One
<1>10. Room(IF kernel.running /\ ~Free THEN 1 ELSE 0)'
    BY <1>1, <1>4, <1>9 DEF Room, Free
<1> QED  BY <1>0, <1>1, <1>4, <1>8, <1>9, <1>10, GoesAway

----------------------------------------------------------------------------
(* Every step leads from a phase to a phase.                               *)

LEMMA PhaseSame ==
    ASSUME Phase, UNCHANGED <<toTarget, toHost, call, waits, seq, stopped, asked, got, kernel>>
    PROVE  Phase'
<1>1. One("RESET")' = One("RESET") /\ One("STATE_CHANGE")' = One("STATE_CHANGE")
      /\ One("ACK")' = One("ACK") /\ One("MANIP")' = One("MANIP")
    BY DEF One
<1>2. Free' = Free /\ Unread' = Unread /\ Run' = Run /\ Leftover' = Leftover /\ Received' = Received
    BY DEF Free, Unread, Run, Leftover, Received
<1>3. Settles(toTarget)' = Settles(toTarget)
    BY DEF Settles
<1>4. CASE ResetSent
    BY <1>1, <1>2, <1>4 DEF Phase, ResetSent
<1>5. CASE ResetRead
    <2>1. \A s : Reported(s)' = Reported(s)
        BY <1>2 DEF Reported
    <2> QED  BY <1>1, <1>2, <1>5, <2>1 DEF Phase, ResetRead
<1>6. CASE Reporting
    <2>1. Reported(toHost)' = Reported(toHost)
        BY <1>2 DEF Reported
    <2> QED  BY <1>1, <1>2, <1>6, <2>1 DEF Phase, Reporting
<1>7. CASE Prompt
    BY <1>3, <1>7 DEF Phase, Prompt, Only
<1>8. CASE Asked
    BY <1>1, <1>8 DEF Phase, Asked, Only, Settles
<1>9. CASE Answered
    BY <1>1, <1>9 DEF Phase, Answered
<1>10. CASE Continued
    BY <1>1, <1>2, <1>10 DEF Phase, Continued
<1>11. CASE Away
    <2>1. Room(0)' = Room(0) /\ Room(1)' = Room(1)
        BY DEF Room
    <2>2. Room(IF kernel.running THEN 1 ELSE 0)' = Room(IF kernel.running THEN 1 ELSE 0)
        BY DEF Room
    <2> QED  BY <1>1, <1>2, <1>3, <1>11, <2>1, <2>2 DEF Phase, Away, Only
<1>12. CASE Serving
    <2>1. Room(0)' = Room(0)
        BY DEF Room
    <2>2. Room(IF kernel.running /\ ~Free THEN 1 ELSE 0)' = Room(IF kernel.running /\ ~Free THEN 1 ELSE 0)
        BY <1>2 DEF Room
    <2> QED  BY <1>1, <1>2, <1>12, <2>1, <2>2 DEF Phase, Serving
<1>13. CASE call = "down"
    BY <1>13 DEF Phase
<1> QED  BY <1>4, <1>5, <1>6, <1>7, <1>8, <1>9, <1>10, <1>11, <1>12, <1>13 DEF Phase

LEMMA PhaseNext ==
    ASSUME Orderly, KdInv, [Next]_vars
    PROVE  Phase'
<1>0. TypeInv /\ Phase
    BY DEF KdInv
<1>1. CASE wind_sync
    BY <1>1, SyncStarts DEF Phase
<1>2. CASE (\E r \in Requests : Request(r)) \/ wind_continue
    BY <1>2, CallStarts DEF Phase
<1>3. CASE r_debug_wind_step
    BY <1>3, StepStarts DEF Phase
<1>4. CASE r_debug_wind_wait
    BY <1>4, WaitStarts DEF Phase
<1>5. CASE wind_wait_packet
    <2>1. call # "down" /\ toHost # << >>
        BY <1>0, <1>5 DEF wind_wait_packet, TypeInv, StackOK
    <2>2. ~Prompt /\ ~Asked
        BY <2>1 DEF Prompt, Asked
    <2>3. CASE ResetSent
        BY <1>5, <2>3, ResetSentReads DEF Phase
    <2>4. CASE ResetRead
        BY <1>5, <2>4, ResetReadReads DEF Phase
    <2>5. CASE Reporting
        BY <1>5, <2>5, ReportingReads DEF Phase
    <2>6. CASE Answered
        BY <1>5, <2>6, AnsweredReads DEF Phase
    <2>7. CASE Continued
        BY <1>5, <2>7, ContinuedReads DEF Phase
    <2>8. CASE Away
        BY <1>5, <2>8, AwayReads DEF Phase
    <2>9. CASE Serving
        BY <1>5, <2>9, ServingReads DEF Phase
    <2> QED  BY <1>0, <2>1, <2>2, <2>3, <2>4, <2>5, <2>6, <2>7, <2>8, <2>9 DEF Phase
<1>6. CASE KernelMoves
    <2>1. CASE ResetSent
        BY <1>6, <2>1, ResetSentMoves DEF Phase
    <2>2. CASE ResetRead
        BY <1>6, <2>2, ResetReadMoves DEF Phase
    <2>3. CASE Reporting
        BY <1>6, <2>3, ReportingMoves DEF Phase
    <2>4. CASE Prompt
        BY <1>6, <2>4, PromptMoves DEF Phase
    <2>5. CASE Asked
        BY <1>6, <2>5, AskedMoves DEF Phase
    <2>6. CASE Answered
        BY <1>6, <2>6, AnsweredMoves DEF Phase
    <2>7. CASE Continued
        BY <1>6, <2>7, ContinuedMoves DEF Phase
    <2>8. CASE Away
        BY <1>6, <2>8, AwayMoves DEF Phase
    <2>9. CASE Serving
        BY <1>6, <2>9, ServingMoves DEF Phase
    <2>10. CASE call = "down"
        <3>1. UNCHANGED host
            BY <1>6 DEF KernelMoves, KernelNoise, KernelStop, KernelRead, KernelResend, Lose
        <3> QED  BY <2>10, <3>1, StackSame DEF Phase
    <2> QED  BY <1>0, <2>1, <2>2, <2>3, <2>4, <2>5, <2>6, <2>7, <2>8, <2>9, <2>10 DEF Phase
<1>7. CASE Kill \/ Unheard
    BY <1>7 DEF Kill, Unheard, host, Phase
<1>8. CASE wstatic_debug_break \/ UNCHANGED vars
    <2>1. UNCHANGED <<toTarget, toHost, call, waits, seq, stopped, asked, got, kernel>>
        BY <1>8 DEF wstatic_debug_break, vars, line, host
    <2> QED  BY <1>0, <2>1, PhaseSame
<1> QED  BY <1>1, <1>2, <1>3, <1>4, <1>5, <1>6, <1>7, <1>8 DEF Next, KernelMoves

LEMMA InitInv == Init => KdInv
<1> SUFFICES ASSUME Init PROVE KdInv
    OBVIOUS
<1>1. UnackedInv
    BY DEF Init, UnackedInv
<1>2. AskedInv /\ Phase
    BY DEF Init, AskedInv, Phase
<1> QED  BY <1>1, <1>2, InitTypes DEF KdInv

LEMMA InvNext ==
    ASSUME Orderly, KdInv, [Next]_vars
    PROVE  KdInv'
<1>1. TypeInv'
    BY NextTypes DEF KdInv
<1>2. UnackedInv' /\ AskedInv'
    BY UnackedNext, AskedNext DEF KdInv
<1> QED  BY <1>1, <1>2, PhaseNext DEF KdInv

\* On an orderly line the host and the kernel are always in one of the
\* phases of an exchange.
LEMMA AlwaysInPhase ==
    ASSUME Orderly
    PROVE  Spec => []KdInv
<1>1. KdInv /\ [Next]_vars => KdInv'
    BY InvNext
<1> QED  BY <1>1, InitInv, PTL DEF Spec

\* A call of wind.c that has returned was given the answer to what it had
\* asked: wind_wait_packet checks types only, but no packet of an earlier
\* exchange is ever left for a later one.
THEOREM AnswersArePaired ==
    ASSUME Orderly
    PROVE  Spec => []Paired
<1>1. KdInv => Paired
    BY PhaseCalls DEF KdInv, Phase, Paired, Idle, Prompt, Away
<1> QED  BY <1>1, AlwaysInPhase, PTL

\* Whenever the debugger believes the kernel stopped and calls nothing, the
\* kernel is stopped, seq_id is the number it expects next, and nothing is
\* under way that a later wait_packet would take for its own.
THEOREM HostInStep ==
    ASSUME Orderly
    PROVE  Spec => []InStep
<1>1. ASSUME KdInv, Idle, stopped
      PROVE  /\ ~kernel.running /\ kernel.expect = 1 - seq /\ toHost = << >>
             /\ \A p \in Range(toTarget) : p.kind \notin Data
             /\ Free \/ Received
    <2>1. Prompt /\ TypeInv
        BY <1>1, PhaseCalls DEF KdInv, Phase, Idle
    <2>2. /\ ~kernel.running /\ kernel.expect = 1 - seq /\ toHost = << >>
          /\ Only({"ACK"}, toTarget) /\ Settles(toTarget)
        BY <2>1 DEF Prompt
    <2>3. Free \/ Received
        BY <2>1, <2>2, SettledReceived
    <2>4. \A p \in Range(toTarget) : p.kind \notin Data
        BY <2>1, <2>2, RangeIs DEF Only, TypeInv, Data
    <2> QED  BY <2>2, <2>3, <2>4
<1>2. KdInv => InStep
    BY <1>1 DEF InStep
<1> QED  BY <1>2, AlwaysInPhase, PTL
=============================================================================
