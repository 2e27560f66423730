--------------------------------- MODULE Kd ---------------------------------
(***************************************************************************)
(* The host side of the Windows kernel debugger protocol (shlr/wind with   *)
(* the debugger plugin debug_wind.c) and, external, the kernel at the      *)
(* other end of the serial line.  Both ends number their data packets with *)
(* one bit and wait for an acknowledge before the next one.  The host      *)
(* checks no numbers, sends nothing twice and has no timeout; the kernel   *)
(* sends a packet again until it is acknowledged.                          *)
(*                                                                         *)
(* Packets are records; checksums, the trailing byte and the contents of   *)
(* requests are left out.  Borders names the situations the host does not  *)
(* survive; an instance without them shows that it survives the others.    *)
(***************************************************************************)
EXTENDS Naturals, Integers, Sequences, SequencesExt, FiniteSetsExt

CONSTANTS
    Requests,    \* what a manipulate request may ask for
    Borders,     \* subset of AllBorders
    Retries,     \* packets of another type a wait reads over (10 in the code)
    MaxNoise,    \* bound on prints and file requests in one run of the kernel
    MaxLoss,     \* bound on packets the line loses
    MaxKills     \* bound on ends of the host process

AllBorders == {
    "loss",       \* the line loses packets that nobody sends again
    "duplicate",  \* the kernel sends a packet again that did arrive
    "reattach",   \* a host starts while packets of its predecessor are under way
    "attach_io"}  \* the kernel asks for a file while a host attaches

ASSUME KdAssumption ==
    /\ Borders \subseteq AllBorders
    /\ {Retries, MaxNoise, MaxLoss, MaxKills} \subseteq Nat

VARIABLES
    toTarget,   \* packets on their way to the kernel
    toHost,     \* packets on their way to the host
    call,       \* the function of the host that is running
    waits,      \* stack of wind_wait_packet calls, each with its type and retries
    seq,        \* the lowest bit of ctx->seq_id
    stopped,    \* the debugger believes that the kernel is stopped
    dbreak,     \* dbreak of debug_wind.c
    asked,      \* what the running or the last call waits for in the end
    got,        \* what that call was given
    kernel,     \* the kernel
    lost,       \* packets lost so far
    kills       \* host processes ended so far

line == <<toTarget, toHost>>
host == <<call, waits, seq, stopped, dbreak, asked, got>>
vars == <<line, host, kernel, lost, kills>>

Within(border, condition) == condition => border \in Borders

----------------------------------------------------------------------------
(* Packets.                                                                *)

Nothing == "nothing"

Packet(kind, id, about) == [kind |-> kind, id |-> id, about |-> about]
Data == {"MANIP", "STATE_CHANGE", "IO", "PRINT"}
Ctrl(kind, id) == Packet(kind, id, Nothing)
NoPacket == Ctrl("none", 0)

\* A breakin byte is not a packet, but comes in order with them.
Breakin == Ctrl("BREAKIN", 0)

Stops == {"exception", "symbols"}
Continue == "continue"
ASSUME RequestsAssumption == Continue \notin Requests

Init ==
    /\ toTarget = << >> /\ toHost = << >>
    /\ call = "down" /\ waits = << >> /\ seq = 0 /\ stopped = FALSE
    /\ dbreak = FALSE /\ asked = Nothing /\ got = Nothing
    /\ kernel = [running |-> TRUE, stop |-> "exception", unacked |-> NoPacket,
                 id |-> 0, expect |-> 0, breakin |-> FALSE, filing |-> FALSE,
                 noise |-> 0]
    /\ lost = 0 /\ kills = 0

----------------------------------------------------------------------------
(* Starting a call of the host.                                            *)

Frame(type) == [type |-> type, left |-> Retries]
Idle == call = "none"

\* kd_send_data_packet with (ctx->seq_id ^= 1), then a wait for the acknowledge.
SendData(kind, about) ==
    /\ toTarget' = Append(toTarget, Packet(kind, 1 - seq, about))
    /\ seq' = 1 - seq

\* wind_sync is the first call of a process; wind_ctx_new has left seq_id 0.
wind_sync ==
    /\ call = "down" /\ call' = "sync"
    /\ Within("reattach", toTarget # << >> \/ toHost # << >>)
    /\ toTarget' = toTarget \o <<Breakin, Ctrl("RESET", 0)>>
    /\ waits' = <<Frame("RESET")>>
    /\ asked' = "STATE_CHANGE" /\ got' = Nothing
    /\ UNCHANGED <<toHost, seq, stopped, dbreak, kernel, lost, kills>>

\* wind_read_ver, wind_read_reg, wind_write_reg, wind_query_mem, wind_bkpt,
\* wind_read_at, wind_write_at and the two _phys variants.
Request(r) ==
    /\ Idle /\ stopped /\ call' = "request"
    /\ SendData("MANIP", r)
    /\ waits' = <<Frame("ACK")>>
    /\ asked' = r /\ got' = Nothing
    /\ UNCHANGED <<toHost, stopped, dbreak, kernel, lost, kills>>

wind_continue ==
    /\ Idle /\ stopped /\ call' = "continue"
    /\ SendData("MANIP", Continue)
    /\ waits' = <<Frame("ACK")>>
    /\ asked' = "ACK" /\ got' = Nothing
    /\ UNCHANGED <<toHost, stopped, dbreak, kernel, lost, kills>>

\* r_debug_wind_step does nothing; r_debug_wait follows it.
r_debug_wind_step ==
    /\ Idle /\ stopped
    /\ stopped' = FALSE
    /\ UNCHANGED <<line, call, waits, seq, dbreak, asked, got, kernel, lost, kills>>

\* Mutated: it waits for a packet of another type.
WaitOtherType ==
    /\ Idle /\ ~stopped /\ call' = "wait"
    /\ waits' = <<Frame("MANIP")>>
    /\ dbreak' = FALSE
    /\ asked' = "STATE_CHANGE" /\ got' = Nothing
    /\ UNCHANGED <<line, seq, stopped, kernel, lost, kills>>

r_debug_wind_wait ==
    /\ Idle /\ ~stopped /\ call' = "wait"
    /\ waits' = <<Frame("STATE_CHANGE")>>
    /\ dbreak' = FALSE
    /\ asked' = "STATE_CHANGE" /\ got' = Nothing
    /\ UNCHANGED <<line, seq, stopped, kernel, lost, kills>>

\* wstatic_debug_break, from the signal handler of the console.  The read in
\* progress is not interrupted.
wstatic_debug_break ==
    /\ call \in {"wait", "resume"} /\ ~dbreak
    /\ dbreak' = TRUE
    /\ UNCHANGED <<line, call, waits, seq, stopped, asked, got, kernel, lost, kills>>

----------------------------------------------------------------------------
(* Reading packets.                                                        *)

\* kd_read_packet acknowledges every data packet, whatever its number.
Acked(p) == IF p.kind \in Data THEN <<Ctrl("ACK", p.id)>> ELSE << >>

\* The stack after its innermost call returned: a call that was reading over
\* a file request, and has no retries left, returns as well.
Returned(stack) ==
    SubSeq(stack, 1, Max({0} \cup {i \in 1 .. Len(stack) - 1 : stack[i].left >= 0}))

Spend(stack) == [stack EXCEPT ![Len(stack)].left = @ - 1]

Top == Last(waits)

\* Mutated: the answer carries the number of the packet before it.
IoReplySameSeq(p) ==
    /\ toTarget' = toTarget \o Acked(p) \o <<Packet("IO", seq, "ENOENT")>>
    /\ waits' = Append(Spend(waits), Frame("ACK"))
    /\ UNCHANGED <<call, seq, stopped, dbreak, asked, got>>

\* Mutated: it waits for an answer to the answer.
IoReplyWaitsIo(p) ==
    /\ toTarget' = toTarget \o Acked(p) \o <<Packet("IO", 1 - seq, "ENOENT")>>
    /\ seq' = 1 - seq
    /\ waits' = Append(Spend(waits), Frame("IO"))
    /\ UNCHANGED <<call, stopped, dbreak, asked, got>>

\* do_io_reply: an answer to a file request and a wait of its own inside the
\* one that has read it.
do_io_reply(p) ==
    /\ toTarget' = toTarget \o Acked(p) \o <<Packet("IO", 1 - seq, "ENOENT")>>
    /\ seq' = 1 - seq
    /\ waits' = Append(Spend(waits), Frame("ACK"))
    /\ UNCHANGED <<call, stopped, dbreak, asked, got>>

\* The innermost wait reads on.
ReadOver(p) ==
    /\ toTarget' = toTarget \o Acked(p)
    /\ waits' = Spend(waits)
    /\ UNCHANGED <<call, seq, stopped, dbreak, asked, got>>

\* A wait inside do_io_reply returns and the one around it goes on.
Unwind(p) ==
    /\ toTarget' = toTarget \o Acked(p)
    /\ waits' = Returned(waits)
    /\ UNCHANGED <<call, seq, stopped, dbreak, asked, got>>

\* What a call makes of the packet that its last wait has returned.
Answer(p) == IF p.kind = "MANIP" THEN p.about ELSE p.kind

\* The packet that the outermost wait returns: p, or the file request after
\* which it gave up.
Result(p) == IF Len(waits) = 1 THEN p ELSE Packet("IO", 0, Nothing)

End(p) ==
    /\ call' = "none" /\ waits' = << >> /\ got' = Answer(Result(p))
    /\ UNCHANGED <<dbreak, asked>>

\* Mutated: a new session starts from the number wind_ctx_new has left.
SyncKeepsSeq(p) ==
    /\ toTarget' = toTarget \o Acked(p)
    /\ IF Head(waits).type = "RESET"
       THEN /\ waits' = <<Frame("STATE_CHANGE")>>
            /\ UNCHANGED <<call, seq, stopped, dbreak, asked, got>>
       ELSE End(p) /\ stopped' = TRUE /\ UNCHANGED seq

\* One wait of a call has returned a packet; the call goes on.
SyncReturned(p) ==
    /\ toTarget' = toTarget \o Acked(p)
    /\ IF Head(waits).type = "RESET"
       THEN /\ waits' = <<Frame("STATE_CHANGE")>>
            /\ UNCHANGED <<call, seq, stopped, dbreak, asked, got>>
       ELSE End(p) /\ seq' = 1 /\ stopped' = TRUE

\* Mutated: the first packet of the answer is taken for all of it.
RequestOneWait(p) ==
    /\ toTarget' = toTarget \o Acked(p)
    /\ End(p)
    /\ UNCHANGED <<seq, stopped>>

\* Mutated: a second acknowledge is waited for.
RequestTwoAcks(p) ==
    /\ toTarget' = toTarget \o Acked(p)
    /\ waits' = <<Frame("ACK")>> /\ UNCHANGED <<call, dbreak, asked, got>>
    /\ UNCHANGED <<seq, stopped>>

RequestReturned(p) ==
    /\ toTarget' = toTarget \o Acked(p)
    /\ IF Head(waits).type = "ACK"
       THEN waits' = <<Frame("MANIP")>> /\ UNCHANGED <<call, dbreak, asked, got>>
       ELSE End(p)
    /\ UNCHANGED <<seq, stopped>>

ContinueReturned(p) ==
    /\ toTarget' = toTarget \o Acked(p)
    /\ End(p) /\ stopped' = FALSE
    /\ UNCHANGED seq

\* The loop of r_debug_wind_wait: an interrupt is looked at after the wait
\* and takes the packet with it; a stop that is not an exception is resumed.
WaitReturned(p) ==
    IF dbreak
    THEN /\ toTarget' = toTarget \o Acked(p) \o <<Breakin>>
         /\ dbreak' = FALSE /\ waits' = <<Frame("STATE_CHANGE")>>
         /\ UNCHANGED <<call, seq, stopped, asked, got>>
    ELSE IF Result(p).about = "exception"
    THEN /\ toTarget' = toTarget \o Acked(p)
         /\ End(p) /\ stopped' = TRUE
         /\ UNCHANGED seq
    ELSE /\ toTarget' = toTarget \o Acked(p) \o <<Packet("MANIP", 1 - seq, Continue)>>
         /\ seq' = 1 - seq
         /\ call' = "resume" /\ waits' = <<Frame("ACK")>>
         /\ UNCHANGED <<stopped, dbreak, asked, got>>

\* wind_continue inside r_debug_wind_wait, whatever it returns.
ResumeReturned(p) ==
    /\ toTarget' = toTarget \o Acked(p)
    /\ call' = "wait" /\ waits' = <<Frame("STATE_CHANGE")>>
    /\ UNCHANGED <<seq, stopped, dbreak, asked, got>>

CallReturned(p) ==
    \/ call = "sync" /\ SyncReturned(p)
    \/ call = "request" /\ RequestReturned(p)
    \/ call = "continue" /\ ContinueReturned(p)
    \/ call = "wait" /\ WaitReturned(p)
    \/ call = "resume" /\ ResumeReturned(p)

\* The only wait of a call has read RESEND and returns KD_E_MALFORMED: the
\* continue inside r_debug_wind_wait goes on.  wind_sync fails, or reads a
\* state from an uninitialized pointer.
CallFailed(p) ==
    /\ UNCHANGED <<toTarget, seq, asked>>
    /\ IF call = "resume" \/ (call = "wait" /\ dbreak)
       THEN /\ call' = "wait" /\ waits' = <<Frame("STATE_CHANGE")>>
            /\ dbreak' = (dbreak /\ call = "resume")
            /\ UNCHANGED <<stopped, got>>
       ELSE /\ call' = IF call = "sync" THEN "down" ELSE "none"
            /\ waits' = << >> /\ got' = "RESEND"
            /\ stopped' = (stopped \/ call = "wait")
            /\ UNCHANGED dbreak

\* The innermost wait returns; do_io_reply ignores what it returns.
Return(p) == IF Returned(waits) = << >> THEN CallReturned(p) ELSE Unwind(p)

\* wind_wait_packet with kd_read_packet, for one packet.
wind_wait_packet ==
    /\ waits # << >> /\ toHost # << >>
    /\ toHost' = Tail(toHost)
    /\ LET p == Head(toHost)
           done == p.kind = Top.type \/ Top.left = 0
       IN  \/ p.kind = "IO" /\ do_io_reply(p)
           \/ p.kind = "RESEND" /\ IF Len(waits) = 1 THEN CallFailed(p) ELSE Return(p)
           \/ p.kind \notin {"IO", "RESEND"} /\ ~done /\ ReadOver(p)
           \/ p.kind \notin {"IO", "RESEND"} /\ done /\ Return(p)
    /\ UNCHANGED <<kernel, lost, kills>>

----------------------------------------------------------------------------
(* The kernel, as the code expects it to behave.                           *)

Free == kernel.unacked = NoPacket

\* The kernel k after sending a data packet, and that packet.
Own(k, kind, about) == Packet(kind, k.id, about)
Sent(k, kind, about) == [k EXCEPT !.unacked = Own(k, kind, about)]

Attaching == call \in {"down", "sync"}

KernelNoise ==
    /\ kernel.running /\ Free /\ ~kernel.filing /\ ~kernel.breakin
    /\ kernel.noise < MaxNoise
    /\ \E kind \in {"PRINT", "IO"} :
          /\ Within("attach_io", kind = "IO" /\ Attaching)
          /\ toHost' = Append(toHost, Own(kernel, kind, Nothing))
          /\ kernel' = [Sent(kernel, kind, Nothing) EXCEPT
                            !.noise = @ + 1, !.filing = (kind = "IO")]
    /\ UNCHANGED <<toTarget, host, lost, kills>>

\* An exception, a loaded module or the breakin byte stops the kernel.
KernelStop(stop) ==
    /\ kernel.running /\ Free /\ ~kernel.filing
    /\ kernel.breakin => stop = "exception"
    /\ toHost' = Append(toHost, Own(kernel, "STATE_CHANGE", stop))
    /\ kernel' = [Sent(kernel, "STATE_CHANGE", stop) EXCEPT
                      !.running = FALSE, !.stop = stop, !.breakin = FALSE]
    /\ UNCHANGED <<toTarget, host, lost, kills>>

\* RESET starts both sequences anew; a stopped kernel reports its state again.
Reset ==
    LET k == [kernel EXCEPT !.id = 0, !.expect = 0, !.unacked = NoPacket, !.filing = FALSE]
        reply == <<Ctrl("RESET", 0)>>
    IN  IF k.running
        THEN kernel' = k /\ toHost' = toHost \o reply
        ELSE /\ kernel' = Sent(k, "STATE_CHANGE", k.stop)
             /\ toHost' = toHost \o reply \o <<Own(k, "STATE_CHANGE", k.stop)>>

\* A data packet of the host with the expected number.
Accept(p) ==
    LET k == [kernel EXCEPT !.expect = 1 - @]
        ack == <<Ctrl("ACK", p.id)>>
    IN  IF p.kind = "IO"
        THEN kernel' = [k EXCEPT !.filing = FALSE] /\ toHost' = toHost \o ack
        ELSE IF p.about = Continue
        THEN /\ kernel' = [k EXCEPT !.running = TRUE, !.noise = 0]
             /\ toHost' = toHost \o ack
        ELSE /\ kernel' = Sent(k, "MANIP", p.about)
             /\ toHost' = toHost \o ack \o <<Own(k, "MANIP", p.about)>>

KernelRead ==
    /\ toTarget # << >>
    /\ toTarget' = Tail(toTarget)
    /\ LET p == Head(toTarget)
           awaited == IF kernel.running THEN kernel.filing /\ p.kind = "IO" ELSE p.kind = "MANIP"
       IN  \/ /\ p.kind = "BREAKIN"
              /\ kernel' = [kernel EXCEPT !.breakin = kernel.running] /\ UNCHANGED toHost
           \/ p.kind = "RESET" /\ Reset
           \/ /\ p.kind = "ACK" /\ UNCHANGED toHost
              /\ kernel' = IF ~Free /\ p.id = kernel.unacked.id
                           THEN [kernel EXCEPT !.unacked = NoPacket, !.id = 1 - @]
                           ELSE kernel
           \/ /\ p.kind \in Data /\ ~Free
              /\ toHost' = Append(toHost, Ctrl("RESEND", 0)) /\ UNCHANGED kernel
           \/ /\ p.kind \in Data /\ Free /\ p.id # kernel.expect
              /\ toHost' = Append(toHost, Ctrl("ACK", p.id)) /\ UNCHANGED kernel
           \/ p.kind \in Data /\ Free /\ p.id = kernel.expect /\ awaited /\ Accept(p)
           \/ /\ p.kind \in Data /\ Free /\ p.id = kernel.expect /\ ~awaited
              /\ UNCHANGED <<toHost, kernel>>
    /\ UNCHANGED <<host, lost, kills>>

\* The acknowledge of the kernel's packet is under way.
Received == ~Free /\ Ctrl("ACK", kernel.unacked.id) \in Range(toTarget)

KernelResend ==
    /\ ~Free /\ call # "down"
    /\ kernel.unacked \notin Range(toHost) /\ Within("duplicate", Received)
    /\ Within("attach_io", kernel.unacked.kind = "IO" /\ Attaching)
    /\ toHost' = Append(toHost, kernel.unacked)
    /\ UNCHANGED <<toTarget, host, kernel, lost, kills>>

----------------------------------------------------------------------------
(* The line and the host process.                                          *)

Lose ==
    /\ lost < MaxLoss /\ lost' = lost + 1
    /\ \/ /\ toHost # << >>
          /\ Within("loss", Head(toHost) # kernel.unacked \/ Received)
          /\ toHost' = Tail(toHost) /\ UNCHANGED toTarget
       \/ /\ toTarget # << >> /\ Within("loss", TRUE)
          /\ toTarget' = Tail(toTarget) /\ UNCHANGED toHost
    /\ UNCHANGED <<host, kernel, kills>>

\* The host process ends; what it has not read is gone.  wind_ctx_new of the
\* next one starts with zeroes.
Kill ==
    /\ call # "down" /\ kills < MaxKills /\ kills' = kills + 1
    /\ call' = "down" /\ waits' = << >> /\ toHost' = << >>
    /\ seq' = 0 /\ stopped' = FALSE /\ dbreak' = FALSE
    /\ asked' = Nothing /\ got' = Nothing
    /\ UNCHANGED <<toTarget, kernel, lost>>

\* Nobody reads while there is no host.
Unheard ==
    /\ call = "down" /\ toHost # << >> /\ toHost' = << >>
    /\ UNCHANGED <<toTarget, host, kernel, lost, kills>>

Next ==
    \/ wind_sync \/ wind_continue \/ r_debug_wind_step \/ r_debug_wind_wait
    \/ \E r \in Requests : Request(r)
    \/ wstatic_debug_break \/ wind_wait_packet
    \/ KernelNoise \/ (\E stop \in Stops : KernelStop(stop)) \/ KernelRead \/ KernelResend
    \/ Lose \/ Kill \/ Unheard

\* The host reads what there is; the kernel answers, honours a breakin and
\* repeats what is not acknowledged.  Nobody has to issue a command.
Fairness ==
    /\ WF_vars(wind_wait_packet)
    /\ WF_vars(KernelRead) /\ WF_vars(KernelResend)
    /\ WF_vars(kernel.breakin /\ KernelStop("exception"))

Spec == Init /\ [][Next]_vars /\ Fairness

----------------------------------------------------------------------------
(* Properties.                                                             *)

\* Packets are what either end sends, waits are for types that exist, and
\* only a wait around a file request has run out of retries.
TypeOK ==
    /\ \A p \in Range(toTarget) :
          /\ p.kind \in {"BREAKIN", "RESET", "ACK", "MANIP", "IO"} /\ p.id \in {0, 1}
          /\ p.kind = "MANIP" => p.about \in Requests \cup {Continue}
    /\ \A p \in Range(toHost) :
          /\ p.kind \in {"RESET", "ACK", "RESEND"} \cup Data /\ p.id \in {0, 1}
          /\ p.kind = "STATE_CHANGE" => p.about \in Stops
    /\ call \in {"down", "none", "sync", "request", "continue", "wait", "resume"}
    /\ (waits = << >>) <=> (call \in {"down", "none"})
    /\ \A i \in 1 .. Len(waits) :
          /\ waits[i].type \in {"RESET", "ACK", "MANIP", "STATE_CHANGE"}
          /\ waits[i].left \in (IF i = Len(waits) THEN 0 ELSE -1) .. Retries
          /\ i > 1 => waits[i].type = "ACK"
    /\ seq \in {0, 1} /\ stopped \in BOOLEAN /\ dbreak \in BOOLEAN
    /\ kernel.noise \in 0 .. MaxNoise /\ lost \in 0 .. MaxLoss /\ kills \in 0 .. MaxKills

\* A call that is over was given the answer to what it asked, although
\* wind_wait_packet looks at nothing but types and gives up on those, too.
Paired == Idle => got = asked

\* When the debugger believes that the kernel is stopped and calls nothing,
\* it is stopped, the next data packet has the number it expects (seq_id),
\* and nothing is under way that a later wait would take for its own.
InStep ==
    (Idle /\ stopped) =>
        /\ ~kernel.running /\ kernel.expect = 1 - seq
        /\ toHost = << >>
        /\ \A p \in Range(toTarget) : p.kind \notin Data
        /\ Free \/ Received

\* Every call but r_debug_wind_wait comes back (wind_wait_packet has no
\* timeout), or the process ends.
Busy == {"sync", "request", "continue", "resume"}
CallsReturn == (call \in Busy) ~> (call \notin Busy)

\* An exception that the kernel reports while r_debug_wind_wait runs ends it,
\* unless the user interrupts: that drops the report.
StopReported ==
    (/\ call = "wait" /\ ~Received
     /\ kernel.unacked.kind = "STATE_CHANGE" /\ kernel.unacked.about = "exception")
        ~> (call # "wait" \/ dbreak)

\* A file request that arrives in r_debug_wind_wait is answered (do_io_reply)
\* and the kernel goes on, unless the process ends.
FileServed == (kernel.filing /\ call = "wait") ~> (~kernel.filing \/ call = "down")
=============================================================================
