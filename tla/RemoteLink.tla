----------------------------- MODULE RemoteLink -----------------------------
(***************************************************************************)
(* The link between a program and its board: the Client that the program's *)
(* threads share (client.py), the two directions of its TCP connection,    *)
(* and the server process that executes the requests (server.c).           *)
(*                                                                         *)
(* A message is a sequence of 4-byte units.  A request is a header of two  *)
(* units, the control character with the length and the address, followed  *)
(* for a write by the data; an answer repeats the header, followed for a   *)
(* read by the data.  One data unit stands for all the data of a request.  *)
(*                                                                         *)
(* What may go wrong is chosen by Faults:                                  *)
(*    "late"   an answer takes longer than the socket's timeout            *)
(*    "torn"   a request is cut off by the timeout of sendall              *)
(*    "short"  recv returns less of an acknowledgement than was sent       *)
(*    "crash"  the server process is killed                                *)
(*    "stop"   the program stops the client while threads are using it     *)
(***************************************************************************)
EXTENDS Integers, Sequences

CONSTANTS Threads, Regs, PlRegs, Vals,
          Faults,     \* what may go wrong
          MaxFaults,  \* bound: how many of "late", "torn" and "crash" happen
          NoThread,   \* nobody holds the lock
          Forged,     \* a register's value that nobody wrote: part of a header
          Nowhere     \* an address that is not a register's

ASSUME FaultsAssumption ==
    Faults \subseteq {"late", "torn", "short", "crash", "stop"} /\ MaxFaults \in Nat
ASSUME NamesAssumption ==
    NoThread \notin Threads /\ Forged \notin Vals /\ Nowhere \notin Regs /\ PlRegs \subseteq Regs
ASSUME RegistersAssumption == Regs # {} /\ Vals # {}

Call == [op : {"r", "d", "w"}, reg : Regs, val : Vals]

VARIABLES
    lock,     \* _socket_lock: the thread that holds it
    pc,       \* per thread: "idle", "wait", "send", "recv",
              \* "check", "drain"
    call,     \* per thread: its last call
    got,      \* per thread: the units of the answer received so far
    result,   \* per thread: how its last call ended
    closed,   \* stop() has closed the socket
    down, up, \* the units in transit to the server, and from it
    srv,      \* the server process: where it is, and the request it executes
    fpga,     \* the registers (and the RAM areas)
    faults,   \* faults so far
    window,   \* history: values of the call's register since the call
    served    \* history: the server has executed the call, with this value

client == <<lock, pc, call, got, result, closed>>
net    == <<down, up>>
vars   == <<client, net, srv, fpga, faults, window, served>>

-----------------------------------------------------------------------------
(* Messages.                                                               *)

Ctl(c)    == [k |-> "ctl", c |-> c]
Addr(r)   == [k |-> "addr", r |-> r]
Dat(r, v) == [k |-> "dat", r |-> r, v |-> v]   \* r tells where v comes from

Header(op, r)  == <<Ctl(op), Addr(r)>>
Request(c)     == Header(c.op, c.reg) \o (IF c.op = "w" THEN <<Dat(c.reg, c.val)>> ELSE <<>>)
\* (Mutant) One unit too many is asked for.
AnswerLengthExtra(c) == IF c.op = "w" THEN 2 ELSE 4

AnswerLength(c) == IF c.op = "w" THEN 2 ELSE 3

\* What the server makes of the units where it expects a header or data.
AsCtl(u)  == IF u.k = "ctl" THEN u.c ELSE "other"
AsAddr(u) == IF u.k = "addr" THEN u.r ELSE Nowhere
AsData(u) == IF u.k = "dat" THEN u.v ELSE Forged

Rest(s, n)  == SubSeq(s, n + 1, Len(s))
Lesser(a, b) == IF a < b THEN a ELSE b

NoVal    == CHOOSE v \in Vals : TRUE   \* where a value is not used
Unserved == [done |-> FALSE, v |-> NoVal]

Happens(f) == f \in Faults /\ faults < MaxFaults /\ faults' = faults + 1

-----------------------------------------------------------------------------
(* The client.                                                             *)

InCall(t) == pc[t] # "idle"

\* A thread calls read, read_from_ram or write.
Invoke(t) ==
    /\ pc[t] = "idle"
    /\ \E c \in Call :
          /\ c.op # "w" => c.val = NoVal
          /\ c.op = "w" => c.reg \notin PlRegs   \* readonly
          /\ c.op = "d" => c.reg \in PlRegs      \* filled by the logic
          /\ call' = [call EXCEPT ![t] = c]
          /\ window' = [window EXCEPT ![t] = {fpga[c.reg]}]
    /\ pc' = [pc EXCEPT ![t] = "wait"]
    /\ UNCHANGED <<lock, got, result, closed, net, srv, fpga, faults, served>>

\* (Mutant) No lock.
AcquireAny(t) ==
    /\ pc[t] = "wait"
    /\ lock' = t
    /\ pc' = [pc EXCEPT ![t] = "send"]
    /\ UNCHANGED <<call, got, result, closed, net, srv, fpga, faults, window, served>>

Acquire(t) ==
    /\ pc[t] = "wait"
    /\ lock = NoThread
    /\ lock' = t
    /\ pc' = [pc EXCEPT ![t] = "send"]
    /\ UNCHANGED <<call, got, result, closed, net, srv, fpga, faults, window, served>>

\* The call ends and the lock is released.
Finish(t, ok, v) ==
    /\ pc' = [pc EXCEPT ![t] = "idle"]
    /\ lock' = NoThread
    /\ result' = [result EXCEPT ![t] = [ok |-> ok, v |-> v]]
    /\ got' = [got EXCEPT ![t] = <<>>]
    /\ window' = [window EXCEPT ![t] = {}]
    /\ served' = [served EXCEPT ![t] = Unserved]
    /\ UNCHANGED <<call, closed>>

Raise(t) == Finish(t, FALSE, NoVal)

Send(t) ==
    /\ pc[t] = "send"
    /\ ~closed
    /\ pc' = [pc EXCEPT ![t] = "recv"]
    /\ down' = IF srv.at = "dead" THEN down ELSE down \o Request(call[t])
    /\ UNCHANGED <<lock, call, got, result, closed, up, srv, fpga, faults, window, served>>

\* The socket is closed or its peer gone.
SendFails(t) ==
    /\ pc[t] = "send"
    /\ closed \/ srv.at = "dead"
    /\ Raise(t)
    /\ UNCHANGED <<net, srv, fpga, faults>>

\* sendall times out after a part of the request.
SendTimeout(t) ==
    /\ pc[t] = "send"
    /\ ~closed
    /\ srv.at # "dead"
    /\ Happens("torn")
    /\ \E n \in 0..(Len(Request(call[t])) - 1) :
          down' = down \o SubSeq(Request(call[t]), 1, n)
    /\ Raise(t)
    /\ UNCHANGED <<up, srv, fpga>>

\* reads() calls recv until the answer is complete, writes() only once.
Recv(t) ==
    LET room == Lesser(AnswerLength(call[t]) - Len(got[t]), Len(up)) IN
    /\ pc[t] = "recv"
    /\ ~closed
    /\ \E n \in 1..room :
          /\ call[t].op = "w" /\ "short" \notin Faults => n = room
          /\ got' = [got EXCEPT ![t] = @ \o SubSeq(up, 1, n)]
          /\ up' = Rest(up, n)
    /\ pc' = [pc EXCEPT ![t] =
                 IF call[t].op = "w" \/ Len(got'[t]) = 3 THEN "check" ELSE "recv"]
    /\ UNCHANGED <<lock, call, result, closed, down, srv, fpga, faults, window, served>>

\* (Mutant) Only the control character is compared.
HeaderMatchesKind(t) == Len(got[t]) >= 2 /\ got[t][1] = Ctl(call[t].op)

HeaderMatches(t) ==
    /\ Len(got[t]) >= 2
    /\ SubSeq(got[t], 1, 2) = Header(call[t].op, call[t].reg)

\* _check_acknowledgement, when the header is that of the request ...
Accept(t) ==
    /\ pc[t] = "check"
    /\ HeaderMatches(t)
    /\ Finish(t, TRUE, IF call[t].op = "w" THEN NoVal ELSE AsData(got[t][3]))
    /\ UNCHANGED <<net, srv, fpga, faults>>

\* (Mutant) The error is raised without clearing the socket.
RejectAtOnce(t) ==
    /\ pc[t] = "check"
    /\ ~HeaderMatches(t)
    /\ Raise(t)
    /\ UNCHANGED <<net, srv, fpga, faults>>

\* ... and when it is not.
Reject(t) ==
    /\ pc[t] = "check"
    /\ ~HeaderMatches(t)
    /\ pc' = [pc EXCEPT ![t] = "drain"]
    /\ UNCHANGED <<lock, call, got, result, closed, net, srv, fpga, faults, window, served>>

\* _clear_socket: everything that arrives is thrown away ...
Drain(t) ==
    /\ pc[t] = "drain"
    /\ ~closed
    /\ up # <<>>
    /\ up' = <<>>
    /\ UNCHANGED <<client, down, srv, fpga, faults, window, served>>

\* The server has nothing left to execute or to answer.
Silent ==
    \/ srv.at = "header" /\ Len(down) < 2
    \/ srv.at = "payload" /\ Len(down) < 1

\* ... until recv times out, which also ends a call that waits for an answer.
RecvTimeout(t) ==
    /\ pc[t] \in {"recv", "drain"}
    /\ ~closed
    /\ up = <<>>
    /\ srv.at # "dead"
    /\ \/ Silent /\ UNCHANGED faults
       \/ ~Silent /\ Happens("late")
    /\ Raise(t)
    /\ UNCHANGED <<net, srv, fpga>>

\* (Mutant) An empty result of recv is read as "not yet", without a deadline.
RecvEndsClosed(t) ==
    /\ pc[t] \in {"recv", "drain"}
    /\ closed
    /\ Raise(t)
    /\ UNCHANGED <<net, srv, fpga, faults>>

\* recv returns nothing because the server is gone, or fails because the
\* socket was closed.
RecvEnds(t) ==
    /\ pc[t] \in {"recv", "drain"}
    /\ closed \/ (srv.at = "dead" /\ up = <<>>)
    /\ Raise(t)
    /\ UNCHANGED <<net, srv, fpga, faults>>

\* stop() takes no lock: it tells the server to end and closes the socket.  If
\* to send this raises, the socket is not closed either, and nothing has been
\* done: a step that stutters.
Stop ==
    /\ "stop" \in Faults
    /\ ~closed
    /\ closed' = TRUE
    /\ down' = IF srv.at = "dead" THEN down ELSE down \o Header("c", Nowhere)
    /\ UNCHANGED <<lock, pc, call, got, result, up, srv, fpga, faults, window, served>>

-----------------------------------------------------------------------------
(* The server process.                                                     *)

\* What is left of a request that was executed does not matter.
NextRequest == [at |-> "header", op |-> "r", reg |-> Nowhere, buf |-> Forged]
Die == [NextRequest EXCEPT !.at = "dead"]

\* The register of a thread's call has a new value.
Witness == window' = [t \in Threads |->
                        IF InCall(t) THEN window[t] \cup {fpga'[call[t].reg]} ELSE window[t]]

\* The request of the thread that holds the lock has been executed.
Executed(v) ==
    served' = IF lock = NoThread THEN served
              ELSE [served EXCEPT ![lock] = [done |-> TRUE, v |-> v]]

ReadHeader ==
    LET c == AsCtl(down[1])
        r == AsAddr(down[2])
    IN /\ srv.at = "header"
       /\ Len(down) >= 2
       /\ down' = Rest(down, 2)
       /\ srv' = CASE c = "r" -> [srv EXCEPT !.at = "fetch", !.op = c, !.reg = r]
                   [] c = "d" -> [srv EXCEPT !.at = "ram", !.op = c, !.reg = r]
                   [] c = "w" -> [srv EXCEPT !.at = "payload", !.op = c, !.reg = r]
                   [] OTHER   -> Die
       /\ UNCHANGED <<client, up, fpga, faults, window, served>>

\* read_values
FetchValues ==
    /\ srv.at = "fetch"
    /\ IF srv.reg \in Regs
       THEN /\ srv' = [srv EXCEPT !.at = "answer", !.buf = fpga[srv.reg]]
            /\ Executed(fpga[srv.reg])
       ELSE srv' = Die /\ UNCHANGED served
    /\ UNCHANGED <<client, net, fpga, faults, window>>

\* The header and the values are sent together.
SendAnswer ==
    /\ srv.at = "answer"
    /\ up' = up \o Header(srv.op, srv.reg) \o
             (IF srv.op = "r" THEN <<Dat(srv.reg, srv.buf)>> ELSE <<>>)
    /\ srv' = NextRequest
    /\ UNCHANGED <<client, down, fpga, faults, window, served>>

\* A read from RAM sends the header first and then the memory itself.
SendRamHeader ==
    /\ srv.at = "ram"
    /\ up' = up \o Header(srv.op, srv.reg)
    /\ srv' = [srv EXCEPT !.at = "ramdata"]
    /\ UNCHANGED <<client, down, fpga, faults, window, served>>

SendRam ==
    /\ srv.at = "ramdata"
    /\ IF srv.reg \in Regs
       THEN /\ up' = up \o <<Dat(srv.reg, fpga[srv.reg])>>
            /\ srv' = NextRequest
            /\ Executed(fpga[srv.reg])
       ELSE srv' = Die /\ UNCHANGED <<up, served>>
    /\ UNCHANGED <<client, down, fpga, faults, window>>

ReadPayload ==
    /\ srv.at = "payload"
    /\ Len(down) >= 1
    /\ srv' = [srv EXCEPT !.at = "store", !.buf = AsData(down[1])]
    /\ down' = Rest(down, 1)
    /\ UNCHANGED <<client, up, fpga, faults, window, served>>

\* write_values
StoreValues ==
    /\ srv.at = "store"
    /\ IF srv.reg \in Regs
       THEN /\ fpga' = [fpga EXCEPT ![srv.reg] = srv.buf]
            /\ srv' = [srv EXCEPT !.at = "answer"]
            /\ Witness
            /\ Executed(srv.buf)
       ELSE srv' = Die /\ UNCHANGED <<fpga, window, served>>
    /\ UNCHANGED <<client, net, faults>>

\* (Mutant) The end of the stream is not noticed.
ServerEofIgnored == closed /\ Silent /\ UNCHANGED vars

\* recv returns less than was asked for because the client has closed.
ServerEof ==
    /\ closed
    /\ Silent
    /\ srv' = Die
    /\ UNCHANGED <<client, net, fpga, faults, window, served>>

Server == ReadHeader \/ FetchValues \/ SendAnswer \/ SendRamHeader \/ SendRam
          \/ ReadPayload \/ StoreValues \/ ServerEof

\* The process is killed; what it sent last may be lost with it.
Crash ==
    /\ srv.at # "dead"
    /\ Happens("crash")
    /\ srv' = Die
    /\ \E n \in 0..Len(up) : up' = SubSeq(up, 1, n)
    /\ UNCHANGED <<client, down, fpga, window, served>>

\* The logic changes one of its registers.
PlChange ==
    /\ \E r \in PlRegs, v \in Vals : fpga' = [fpga EXCEPT ![r] = v]
    /\ Witness
    /\ UNCHANGED <<client, net, srv, faults, served>>

-----------------------------------------------------------------------------

Init ==
    /\ lock = NoThread
    /\ pc = [t \in Threads |-> "idle"]
    /\ call = [t \in Threads |-> CHOOSE c \in Call : c.op = "r"]
    /\ got = [t \in Threads |-> <<>>]
    /\ result = [t \in Threads |-> [ok |-> FALSE, v |-> NoVal]]
    /\ closed = FALSE
    /\ down = <<>>
    /\ up = <<>>
    /\ srv = NextRequest
    /\ fpga \in [Regs -> Vals]
    /\ faults = 0
    /\ window = [t \in Threads |-> {}]
    /\ served = [t \in Threads |-> Unserved]

\* What a thread does once it has the lock.
Holder(t) == Send(t) \/ SendFails(t) \/ Recv(t) \/ Accept(t) \/ Reject(t) \/ Drain(t)
             \/ RecvTimeout(t) \/ RecvEnds(t)

Next ==
    \/ \E t \in Threads : Invoke(t) \/ Acquire(t) \/ Holder(t) \/ SendTimeout(t)
    \/ Server
    \/ Stop \/ Crash \/ PlChange

\* The processes run, and a socket operation ends by its timeout at the
\* latest; a lock may be given to any of the threads that wait for it.
Fairness == WF_vars(Server) /\ \A t \in Threads : WF_vars(Holder(t))

Spec     == Init /\ [][Next]_vars
FairSpec == Spec /\ Fairness

-----------------------------------------------------------------------------
(* Properties.                                                             *)

Word == Vals \cup {Forged}
Unit == [k : {"ctl"}, c : {"r", "d", "w", "c"}]
        \cup [k : {"addr"}, r : Regs \cup {Nowhere}]
        \cup [k : {"dat"}, r : Regs \cup {Nowhere}, v : Word]

TypeOK ==
    /\ lock \in Threads \cup {NoThread}
    /\ pc \in [Threads -> {"idle", "wait", "send", "recv", "check", "drain"}]
    /\ call \in [Threads -> Call]
    /\ \A t \in Threads : Len(got[t]) <= 3 /\ \A i \in 1..Len(got[t]) : got[t][i] \in Unit
    /\ result \in [Threads -> [ok : BOOLEAN, v : Word]]
    /\ closed \in BOOLEAN
    /\ \A i \in 1..Len(down) : down[i] \in Unit
    /\ \A i \in 1..Len(up) : up[i] \in Unit
    /\ srv \in [at : {"header", "fetch", "answer", "ram", "ramdata", "payload", "store", "dead"},
                op : {"r", "d", "w"}, reg : Regs \cup {Nowhere}, buf : Word]
    /\ fpga \in [Regs -> Word]
    /\ faults \in 0..MaxFaults
    /\ window \in [Threads -> SUBSET Word]
    /\ served \in [Threads -> [done : BOOLEAN, v : Word]]

(* The lock is free only between conversations: no request that the server *)
(* has not executed, no answer or rest of one that nobody has read.        *)
QuietWhenUnlocked ==
    lock = NoThread /\ ~closed =>
        /\ up = <<>>
        /\ srv.at \in {"header", "dead"}
        /\ srv.at = "header" => down = <<>>

Answered(t) == InCall(t) /\ pc'[t] = "idle" /\ result'[t].ok

(* A read returns a value that the register had after the call began.      *)
ReadsFresh ==
    [][\A t \in Threads :
          Answered(t) /\ call[t].op # "w" => result'[t].v \in window[t]]_vars

(* Whatever answers were given up on, a read never returns the value of a  *)
(* register it was not called for, nor a piece of a header.                *)
AnswersOwnRegister ==
    [][\A t \in Threads :
          Answered(t) /\ call[t].op # "w" =>
              got[t][3].k = "dat" /\ got[t][3].r = call[t].reg]_vars

(* A register of the program's only ever holds values that were written:   *)
(* so it is without the fault "torn", and not with it (client.py:146).      *)
NoForgedValue == \A r \in Regs : fpga[r] # Forged

(* A message whose control character the server does not know has no       *)
(* effect on the server.  This is what server.c:23 says and not what it    *)
(* does: its process ends (server.c:279).                                  *)
OtherMessagesIgnored ==
    [][srv.at = "header" /\ Len(down) >= 2 /\ Len(down') = Len(down) - 2 =>
          (AsCtl(down[1]) = "other" => srv'.at = "header")]_vars

(* Whatever goes wrong, a thread that has the lock gives it back.          *)
LockReleased == \A t \in Threads : lock = t ~> lock # t

(* Once the client is stopped, the server's process ends.                  *)
ServerEnds == closed ~> srv.at = "dead"

(* Calls are atomic: the lock, the two streams and the server's loop do    *)
(* not show, even when the server is killed in the middle of a request.    *)
Stage(t) == IF pc[t] = "idle" THEN "idle"
            ELSE IF served[t].done THEN "applied" ELSE "called"
Found(t) == [ok |-> result[t].ok,
             v  |-> IF InCall(t) /\ served[t].done /\ call[t].op # "w"
                    THEN served[t].v ELSE result[t].v]

Atomic == INSTANCE AtomicRegisters WITH
              regs <- fpga,
              stage <- [t \in Threads |-> Stage(t)],
              result <- [t \in Threads |-> Found(t)]
ImplementsAtomic == Atomic!Spec
=============================================================================
