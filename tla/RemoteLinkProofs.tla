------------------------- MODULE RemoteLinkProofs -------------------------
(***************************************************************************)
(* Proofs about RemoteLink, for any number of threads, registers and       *)
(* values.  Whatever goes wrong, types are kept, the lock has one holder,  *)
(* and a read that succeeds returns a value of its own register.  If       *)
(* neither an answer comes late nor a request is torn nor the client is    *)
(* stopped, the lock is free only between conversations, and calls are     *)
(* atomic: RemoteLink implements AtomicRegisters.                          *)
(***************************************************************************)
EXTENDS RemoteLink, SequenceTheorems, TLAPS

Holding == {"send", "recv", "check", "drain"}

\* Type correctness, of the streams as sequences, with what it rests on.
ClientTypes ==
    /\ lock \in Threads \cup {NoThread}
    /\ pc \in [Threads -> {"idle", "wait"} \cup Holding]
    /\ call \in [Threads -> Call]
    /\ got \in [Threads -> Seq(Unit)]
    /\ result \in [Threads -> [ok : BOOLEAN, v : Word]]
    /\ closed \in BOOLEAN
    /\ \A t \in Threads : Len(got[t]) <= 3
    /\ \A t \in Threads : pc[t] = "check" /\ call[t].op # "w" => Len(got[t]) = 3

HistoryTypes ==
    /\ window \in [Threads -> SUBSET Word]
    /\ served \in [Threads -> [done : BOOLEAN, v : Word]]

NetTypes == down \in Seq(Unit) /\ up \in Seq(Unit)

ServerTypes ==
    /\ srv \in [at : {"header", "fetch", "answer", "ram", "ramdata", "payload", "store", "dead"},
                op : {"r", "d", "w"}, reg : Regs \cup {Nowhere}, buf : Word]
    /\ fpga \in [Regs -> Word]
    /\ faults \in 0..MaxFaults

Types == ClientTypes /\ HistoryTypes /\ NetTypes /\ ServerTypes

\* The lock has one holder, and only the holder has units of an answer.
Locked == \A t \in Threads :
    /\ lock = t <=> pc[t] \in Holding
    /\ pc[t] \notin {"recv", "check", "drain"} => got[t] = <<>>

-----------------------------------------------------------------------------
(* What arrives: the units that the holder has taken and those in transit. *)

\* Unit u begins an answer that has data.
Begins(u) == AsCtl(u) \in {"r", "d"}

Paired(s) == \A i \in 1..(Len(s) - 2) :
    Begins(s[i]) /\ s[i + 1].k = "addr" =>
        s[i + 2].k = "dat" /\ s[i + 2].r = s[i + 1].r

\* The server has sent whole answers, besides the one that it is at.
Ended(s, at, reg) ==
    /\ Len(s) > 0 => ~Begins(s[Len(s)])
    /\ Len(s) > 1 /\ Begins(s[Len(s) - 1]) /\ s[Len(s)].k = "addr" =>
          at = "ramdata" /\ reg = s[Len(s)].r

Stream(s, at, reg) == Paired(s) /\ (at # "dead" => Ended(s, at, reg))

\* The kinds of requests that the server is at.
Serves ==
    /\ srv.at = "fetch" => srv.op = "r"
    /\ srv.at \in {"payload", "store"} => srv.op = "w"
    /\ srv.at \in {"ram", "ramdata"} => srv.op = "d"
    /\ srv.at = "answer" => srv.op # "d"

Streams ==
    /\ Stream(up, srv.at, srv.reg)
    /\ \A t \in Threads : pc[t] \in {"recv", "check"} => Stream(got[t] \o up, srv.at, srv.reg)

LinkInv == Types /\ Locked /\ Serves /\ Streams

-----------------------------------------------------------------------------
(* A conversation of a thread with the server, if nothing comes late and   *)
(* nothing is torn.                                                        *)

\* The i-th unit of the answer to t's call.
Expected(t, i) ==
    IF i = 1 THEN Ctl(call[t].op)
    ELSE IF i = 2 THEN Addr(call[t].reg) ELSE Dat(call[t].reg, served[t].v)

\* The first n units of the answer have been sent.
Sent(t, n) ==
    /\ Len(got[t]) + Len(up) = n
    /\ \A i \in 1..Len(got[t]) : got[t][i] = Expected(t, i)
    /\ \A i \in 1..Len(up) : up[i] = Expected(t, Len(got[t]) + i)

Nothing == up = <<>> /\ srv.at \in {"header", "dead"} /\ (srv.at = "header" => down = <<>>)

\* The request is on its way.
Requested(t) ==
    /\ Sent(t, 0) /\ ~served[t].done
    /\ down = Request(call[t])

\* The server is at the request.
Serving(t) ==
    /\ srv.op = call[t].op /\ srv.reg = call[t].reg
    /\ down = IF srv.at = "payload" THEN <<Dat(call[t].reg, call[t].val)>> ELSE <<>>
    /\ Sent(t, IF srv.at = "ramdata" THEN 2 ELSE 0)
    /\ served[t].done <=> srv.at = "answer"
    /\ srv.at = "answer" /\ srv.op = "r" => srv.buf = served[t].v
    /\ srv.at = "store" => srv.buf = call[t].val

\* The answer is on its way, or has arrived.
Responded(t) == down = <<>> /\ served[t].done /\ Sent(t, AnswerLength(call[t]))

\* The server was killed.
Broken(t) == \E n \in 0..3 :
    /\ Sent(t, n)
    /\ n > (IF call[t].op = "d" THEN 2 ELSE 0) => served[t].done
    /\ n <= AnswerLength(call[t])

Waiting(t) ==
    /\ Len(got[t]) < AnswerLength(call[t])
    /\ call[t].op = "w" => got[t] = <<>>
    /\ CASE srv.at = "header" -> Requested(t) \/ Responded(t)
         [] srv.at = "dead" -> Broken(t)
         [] OTHER -> Serving(t)

Checking(t) ==
    /\ served[t].done
    /\ srv.at \in {"header", "dead"} /\ (srv.at = "header" => down = <<>>)
    /\ Len(got[t]) > 0
    /\ Len(got[t]) + Len(up) <= AnswerLength(call[t])
    /\ \A i \in 1..Len(got[t]) : got[t][i] = Expected(t, i)
    /\ HeaderMatches(t) => up = <<>>

Talking(t) ==
    /\ pc[t] = "send" => Nothing
    /\ pc[t] = "recv" => Waiting(t)
    /\ pc[t] = "check" => Checking(t)
    /\ pc[t] = "drain" => srv.at \in {"header", "dead"} /\ (srv.at = "header" => down = <<>>)

\* The register had the value that the call was served with.
Fresh(t) ==
    /\ served[t].v \in Vals
    /\ pc[t] \in {"idle", "wait", "send"} => served[t] = Unserved
    /\ served[t].done /\ call[t].op # "w" => served[t].v \in window[t]
    /\ InCall(t) => fpga[call[t].reg] \in window[t]

Conversation ==
    /\ lock = NoThread => Nothing
    /\ fpga \in [Regs -> Vals]
    /\ \A t \in Threads : Talking(t) /\ Fresh(t)

QuietInv == LinkInv /\ (~closed => Conversation)
-----------------------------------------------------------------------------
(* Sequences and messages.                                                 *)

LEMMA Pieces ==
    ASSUME NEW S, NEW s \in Seq(S), NEW n \in 0..Len(s)
    PROVE  /\ SubSeq(s, 1, n) \in Seq(S) /\ Len(SubSeq(s, 1, n)) = n
           /\ \A i \in 1..n : SubSeq(s, 1, n)[i] = s[i]
           /\ Rest(s, n) \in Seq(S) /\ Len(Rest(s, n)) = Len(s) - n
           /\ \A i \in 1..(Len(s) - n) : Rest(s, n)[i] = s[n + i]
<1>1. Len(s) \in Nat /\ \A i \in 1..Len(s) : s[i] \in S
  BY LenProperties, ElementOfSeq
<1>2. /\ SubSeq(s, 1, n) \in Seq(S) /\ Len(SubSeq(s, 1, n)) = n
      /\ \A i \in 1..n : SubSeq(s, 1, n)[i] = s[i]
  BY <1>1, SubSeqProperties
<1>3. /\ Rest(s, n) \in Seq(S) /\ Len(Rest(s, n)) = Len(s) - n
      /\ \A i \in 1..(Len(s) - n) : Rest(s, n)[i] = s[n + i]
  BY <1>1, SubSeqProperties DEF Rest
<1> QED
  BY <1>2, <1>3

LEMMA Joined ==
    ASSUME NEW S, NEW s \in Seq(S), NEW u \in Seq(S)
    PROVE  /\ s \o u \in Seq(S) /\ Len(s \o u) = Len(s) + Len(u)
           /\ \A i \in 1..Len(s) : (s \o u)[i] = s[i]
           /\ \A i \in 1..Len(u) : (s \o u)[Len(s) + i] = u[i]
           /\ Len(s) \in Nat /\ Len(u) \in Nat
<1>1. Len(s) \in Nat /\ Len(u) \in Nat
  BY LenProperties
<1>2. /\ s \o u \in Seq(S) /\ Len(s \o u) = Len(s) + Len(u)
      /\ \A i \in 1..(Len(s) + Len(u)) : (s \o u)[i] = IF i <= Len(s) THEN s[i] ELSE u[i - Len(s)]
  BY ConcatProperties
<1>3. ASSUME NEW i \in 1..Len(u)
      PROVE  (s \o u)[Len(s) + i] = u[i]
  <2>1. Len(s) + i \in 1..(Len(s) + Len(u)) /\ ~(Len(s) + i <= Len(s)) /\ (Len(s) + i) - Len(s) = i
    BY <1>1
  <2> QED
    BY <1>2, <2>1
<1> QED
  BY <1>1, <1>2, <1>3

\* Where the j-th of the units that recv left is.
LEMMA Left ==
    ASSUME NEW lg \in Nat, NEW lu \in Nat, NEW n \in 1..lu, NEW lg1, NEW lu1, NEW i \in Nat,
           lg1 = lg + n, lu1 = lu - n, i > lg1, i <= lg1 + lu1
    PROVE  \E j \in 1..lu1 :
              j \in 1..(lu - n) /\ n + j \in 1..lu /\ i = lg1 + j /\ i = lg + (n + j)
<1>1. i - lg1 \in 1..lu1 /\ i = lg1 + (i - lg1)
  OBVIOUS
<1> QED
  BY <1>1

Ops == {"r", "d", "w", "c"}

LEMMA Units ==
    ASSUME NEW c \in Ops, NEW r \in Regs \cup {Nowhere}, NEW v \in Word
    PROVE  /\ Ctl(c) \in Unit /\ AsCtl(Ctl(c)) = c /\ Ctl(c).k = "ctl" /\ Ctl(c).c = c
           /\ Addr(r) \in Unit /\ AsAddr(Addr(r)) = r /\ Addr(r).k = "addr" /\ Addr(r).r = r
           /\ Dat(r, v) \in Unit /\ AsData(Dat(r, v)) = v /\ Dat(r, v).k = "dat" /\ Dat(r, v).r = r
           /\ AsCtl(Addr(r)) = "other" /\ AsCtl(Dat(r, v)) = "other"
BY DEF Ctl, Addr, Dat, Unit, AsCtl, AsAddr, AsData, Ops

LEMMA UnitKinds ==
    ASSUME NEW u \in Unit
    PROVE  /\ AsCtl(u) \in Ops \cup {"other"}
           /\ AsAddr(u) \in Regs \cup {Nowhere}
           /\ AsData(u) \in Word
BY DEF Unit, AsCtl, AsAddr, AsData, Ops, Word

LEMMA Headers ==
    ASSUME NEW c \in Ops, NEW r \in Regs \cup {Nowhere}
    PROVE  /\ Header(c, r) \in Seq(Unit) /\ Len(Header(c, r)) = 2
           /\ Header(c, r)[1] = Ctl(c) /\ Header(c, r)[2] = Addr(r)
<1>1. Ctl(c) \in Unit /\ Addr(r) \in Unit
  BY DEF Ctl, Addr, Unit, Ops
<1> QED
  BY <1>1 DEF Header

LEMMA Single ==
    ASSUME NEW S, NEW u \in S
    PROVE  <<u>> \in Seq(S) /\ Len(<<u>>) = 1 /\ <<u>>[1] = u
  OBVIOUS

\* A header and a unit of data.
LEMMA Messages ==
    ASSUME NEW c \in Ops, NEW r \in Regs \cup {Nowhere}, NEW v \in Word
    PROVE  LET m == Header(c, r) \o <<Dat(r, v)>> IN
           /\ m \in Seq(Unit) /\ Len(m) = 3
           /\ m[1] = Ctl(c) /\ m[2] = Addr(r) /\ m[3] = Dat(r, v)
<1>1. Dat(r, v) \in Unit
  BY Units
<1>2. <<Dat(r, v)>> \in Seq(Unit) /\ Len(<<Dat(r, v)>>) = 1 /\ <<Dat(r, v)>>[1] = Dat(r, v)
  BY <1>1, Single
<1> DEFINE h == Header(c, r) d == <<Dat(r, v)>>
<1>3. h \in Seq(Unit) /\ Len(h) = 2 /\ h[1] = Ctl(c) /\ h[2] = Addr(r)
  BY Headers
<1>4. d \in Seq(Unit) /\ Len(d) = 1 /\ d[1] = Dat(r, v)
  BY <1>2
<1> HIDE DEF h, d
<1>5. /\ h \o d \in Seq(Unit) /\ Len(h \o d) = Len(h) + Len(d)
      /\ \A i \in 1..(Len(h) + Len(d)) : (h \o d)[i] = IF i <= Len(h) THEN h[i] ELSE d[i - Len(h)]
  BY <1>3, <1>4, ConcatProperties
<1>6. (h \o d)[1] = h[1] /\ (h \o d)[2] = h[2]
  <2>1. {1, 2} \subseteq 1..(Len(h) + Len(d)) /\ 1 <= Len(h) /\ 2 <= Len(h)
    BY <1>3, <1>4
  <2> QED
    BY <1>5, <2>1
<1>7. (h \o d)[3] = d[1]
  <2>1. 3 \in 1..(Len(h) + Len(d)) /\ ~(3 <= Len(h)) /\ 3 - Len(h) = 1
    BY <1>3, <1>4
  <2> QED
    BY <1>5, <2>1
<1> QED
  BY <1>3, <1>4, <1>5, <1>6, <1>7 DEF h, d

LEMMA Requests ==
    ASSUME NEW c \in Call
    PROVE  /\ Request(c) \in Seq(Unit)
           /\ Len(Request(c)) = IF c.op = "w" THEN 3 ELSE 2
           /\ Request(c)[1] = Ctl(c.op) /\ Request(c)[2] = Addr(c.reg)
           /\ c.op = "w" => Request(c)[3] = Dat(c.reg, c.val)
<1>1. c.op \in Ops /\ c.reg \in Regs \cup {Nowhere} /\ c.val \in Word
  BY DEF Call, Ops, Word
<1>2. CASE c.op = "w"
  <2>1. Request(c) = Header(c.op, c.reg) \o <<Dat(c.reg, c.val)>>
    BY <1>2 DEF Request
  <2> QED
    BY <1>1, <1>2, <2>1, Messages
<1>3. CASE c.op # "w"
  <2>1. Request(c) = Header(c.op, c.reg)
    BY <1>1, <1>3, Headers, ConcatEmptySeq DEF Request
  <2> QED
    BY <1>1, <1>3, <2>1, Headers
<1> QED
  BY <1>2, <1>3

LEMMA NoValIsValue == NoVal \in Vals /\ NoVal \in Word /\ Unserved \in [done : BOOLEAN, v : Word]
BY RegistersAssumption DEF NoVal, Word, Unserved

-----------------------------------------------------------------------------
(* Types.                                                                  *)

LEMMA TypesSuffice == Types => TypeOK
<1> SUFFICES ASSUME Types PROVE TypeOK
  OBVIOUS
<1> USE DEF Types, ClientTypes, HistoryTypes, NetTypes, ServerTypes
<1>1. \A t \in Threads : \A i \in 1..Len(got[t]) : got[t][i] \in Unit
  BY ElementOfSeq
<1>2. /\ \A i \in 1..Len(down) : down[i] \in Unit
      /\ \A i \in 1..Len(up) : up[i] \in Unit
  BY ElementOfSeq
<1> QED
  BY <1>1, <1>2 DEF TypeOK, Holding

LEMMA InitTypes == Init => Types
<1> SUFFICES ASSUME Init PROVE Types
  OBVIOUS
<1>1. \E c \in Call : c.op = "r"
  <2>1. PICK r \in Regs, v \in Vals : TRUE
    BY RegistersAssumption
  <2>2. [op |-> "r", reg |-> r, val |-> v] \in Call
    BY DEF Call
  <2> QED
    BY <2>2
<1>2. call \in [Threads -> Call]
  BY <1>1 DEF Init
<1>3. ClientTypes
  <2>1. got \in [Threads -> Seq(Unit)] /\ \A t \in Threads : Len(got[t]) <= 3
    BY EmptySeq DEF Init
  <2> QED
    BY <1>2, <2>1, NoValIsValue DEF Init, ClientTypes
<1>4. HistoryTypes
  BY NoValIsValue DEF Init, HistoryTypes
<1>5. NetTypes
  BY DEF Init, NetTypes
<1>6. ServerTypes
  BY FaultsAssumption DEF Init, ServerTypes, NextRequest, Word
<1> QED
  BY <1>3, <1>4, <1>5, <1>6 DEF Types

\* A call that ends leaves nothing behind.
LEMMA FinishTypes ==
    ASSUME ClientTypes, HistoryTypes, NEW t \in Threads, NEW ok \in BOOLEAN, NEW v \in Word,
           Finish(t, ok, v)
    PROVE  ClientTypes' /\ HistoryTypes'
<1>1. HistoryTypes'
  BY NoValIsValue DEF Finish, HistoryTypes
<1>2. pc' = [pc EXCEPT ![t] = "idle"] /\ got' = [got EXCEPT ![t] = <<>>]
  BY DEF Finish
<1>3. /\ pc' \in [Threads -> {"idle", "wait"} \cup Holding]
      /\ got' \in [Threads -> Seq(Unit)]
      /\ \A u \in Threads : Len(got'[u]) <= 3
      /\ \A u \in Threads : pc'[u] = "check" /\ call[u].op # "w" => Len(got'[u]) = 3
  BY <1>2, EmptySeq DEF ClientTypes
<1>4. result' \in [Threads -> [ok : BOOLEAN, v : Word]]
  BY DEF Finish, ClientTypes
<1> QED
  BY <1>1, <1>3, <1>4 DEF Finish, ClientTypes

\* The units that recv returns.
LEMMA RecvUnits ==
    ASSUME Types, NEW t \in Threads, Recv(t)
    PROVE  \E n \in 1..Len(up) :
              /\ n <= AnswerLength(call[t]) - Len(got[t])
              /\ call[t].op = "w" /\ "short" \notin Faults =>
                    n = Lesser(AnswerLength(call[t]) - Len(got[t]), Len(up))
              /\ got' = [got EXCEPT ![t] = got[t] \o SubSeq(up, 1, n)]
              /\ up' = Rest(up, n)
              /\ got'[t] \in Seq(Unit) /\ Len(got'[t]) = Len(got[t]) + n
              /\ \A i \in 1..Len(got[t]) : got'[t][i] = got[t][i]
              /\ \A i \in 1..n : got'[t][Len(got[t]) + i] = up[i]
              /\ up' \in Seq(Unit) /\ Len(up') = Len(up) - n
              /\ \A i \in 1..(Len(up) - n) : up'[i] = up[n + i]
              /\ AnswerLength(call[t]) \in {2, 3}
              /\ Len(got[t]) \in Nat /\ Len(up) \in Nat
<1>1. got[t] \in Seq(Unit) /\ up \in Seq(Unit) /\ Len(got[t]) \in Nat /\ Len(up) \in Nat
  BY LenProperties DEF Types, ClientTypes, NetTypes
<1> DEFINE room == Lesser(AnswerLength(call[t]) - Len(got[t]), Len(up))
<1>2. PICK n \in 1..room :
         /\ call[t].op = "w" /\ "short" \notin Faults => n = room
         /\ got' = [got EXCEPT ![t] = got[t] \o SubSeq(up, 1, n)]
         /\ up' = Rest(up, n)
  BY DEF Recv
<1>3. AnswerLength(call[t]) \in {2, 3}
  BY DEF AnswerLength
<1>4. n \in 1..Len(up) /\ n <= AnswerLength(call[t]) - Len(got[t])
  BY <1>1, <1>2, <1>3 DEF Lesser
<1> DEFINE p == SubSeq(up, 1, n)
<1>5. /\ p \in Seq(Unit) /\ Len(p) = n /\ \A i \in 1..n : p[i] = up[i]
      /\ Rest(up, n) \in Seq(Unit) /\ Len(Rest(up, n)) = Len(up) - n
      /\ \A i \in 1..(Len(up) - n) : Rest(up, n)[i] = up[n + i]
  BY <1>1, <1>4, Pieces
<1> HIDE DEF p
<1>6. /\ got[t] \o p \in Seq(Unit) /\ Len(got[t] \o p) = Len(got[t]) + n
      /\ \A i \in 1..Len(got[t]) : (got[t] \o p)[i] = got[t][i]
      /\ \A i \in 1..n : (got[t] \o p)[Len(got[t]) + i] = up[i]
  <2>1. PICK g \in Seq(Unit) : g = got[t]
    BY <1>1
  <2>2. PICK q \in Seq(Unit) : q = p
    BY <1>5
  <2>3. /\ g \o q \in Seq(Unit) /\ Len(g \o q) = Len(g) + Len(q)
        /\ \A i \in 1..Len(g) : (g \o q)[i] = g[i]
        /\ \A i \in 1..Len(q) : (g \o q)[Len(g) + i] = q[i]
    BY ONLY Joined, g \in Seq(Unit), q \in Seq(Unit)
  <2> QED
    BY ONLY <1>5, <2>1, <2>2, <2>3
<1>7. got'[t] = got[t] \o p
  BY <1>2 DEF p, Types, ClientTypes
<1> WITNESS n \in 1..Len(up)
<1> QED
  BY <1>1, <1>2, <1>3, <1>4, <1>5, <1>6, <1>7

LEMMA ThreadKeepsTypes ==
    ASSUME Types, NEW t \in Threads,
           Invoke(t) \/ Acquire(t) \/ Holder(t) \/ SendTimeout(t)
    PROVE  Types'
<1> USE DEF Types
<1>0. ServerTypes'
  <2>1. (\E f \in {"late", "torn"} : Happens(f)) \/ UNCHANGED faults
    BY DEF Invoke, Acquire, Holder, Send, SendFails, Recv, Accept, Reject, Drain, RecvTimeout, RecvEnds,
       SendTimeout
  <2>2. faults' \in 0..MaxFaults
    BY <2>1, FaultsAssumption DEF ServerTypes, Happens
  <2>3. UNCHANGED <<srv, fpga>>
    BY DEF Invoke, Acquire, Holder, Send, SendFails, Recv, Accept, Reject, Drain, RecvTimeout, RecvEnds,
       SendTimeout
  <2> QED
    BY <2>2, <2>3 DEF ServerTypes
<1>1. CASE Invoke(t)
  <2>1. PICK c \in Call : call' = [call EXCEPT ![t] = c] /\ window' = [window EXCEPT ![t] = {fpga[c.reg]}]
    BY <1>1 DEF Invoke
  <2>2. fpga[c.reg] \in Word
    BY DEF Call, ServerTypes
  <2>3. ClientTypes'
    BY <1>1, <2>1 DEF Invoke, ClientTypes
  <2>4. HistoryTypes'
    BY <1>1, <2>1, <2>2 DEF Invoke, HistoryTypes
  <2> QED
    BY <1>0, <1>1, <2>3, <2>4 DEF Invoke, NetTypes, net
<1>2. CASE Acquire(t)
  BY <1>0, <1>2 DEF Acquire, ClientTypes, HistoryTypes, NetTypes, net, Holding
<1>3. CASE Send(t)
  <2>1. down' \in Seq(Unit)
    <3>1. call[t] \in Call
      BY DEF ClientTypes
    <3> QED
      BY <1>3, <3>1, Requests, Joined DEF Send, NetTypes
  <2> QED
    BY <1>0, <1>3, <2>1 DEF Send, ClientTypes, HistoryTypes, NetTypes, Holding
<1>4. CASE SendTimeout(t)
  <2>1. call[t] \in Call
    BY DEF ClientTypes
  <2>2. PICK n \in 0..(Len(Request(call[t])) - 1) : down' = down \o SubSeq(Request(call[t]), 1, n)
    BY <1>4 DEF SendTimeout
  <2>3. n \in 0..Len(Request(call[t])) /\ Request(call[t]) \in Seq(Unit)
    BY <2>1, Requests
  <2>4. SubSeq(Request(call[t]), 1, n) \in Seq(Unit)
    BY <2>3, Pieces
  <2>5. NetTypes'
    BY <1>4, <2>2, <2>4, Joined DEF SendTimeout, NetTypes
  <2> QED
    BY <1>0, <1>4, <2>5, FinishTypes, NoValIsValue DEF SendTimeout, Raise
<1>9. CASE SendFails(t) \/ RecvTimeout(t) \/ RecvEnds(t)
  <2>1. Raise(t) /\ UNCHANGED net
    BY <1>9 DEF SendFails, RecvTimeout, RecvEnds
  <2> QED
    BY <1>0, <2>1, FinishTypes, NoValIsValue DEF Raise, NetTypes, net
<1>5. CASE Recv(t)
  <2>1. PICK n \in 1..Len(up) :
           /\ n <= AnswerLength(call[t]) - Len(got[t])
           /\ got' = [got EXCEPT ![t] = got[t] \o SubSeq(up, 1, n)]
           /\ got'[t] \in Seq(Unit) /\ Len(got'[t]) = Len(got[t]) + n
           /\ up' \in Seq(Unit)
           /\ AnswerLength(call[t]) \in {2, 3} /\ Len(got[t]) \in Nat
    BY <1>5, RecvUnits
  <2>2. Len(got'[t]) <= 3 /\ \A u \in Threads \ {t} : got'[u] = got[u]
    BY <2>1 DEF ClientTypes
  <2>3. got' \in [Threads -> Seq(Unit)]
    BY <2>1, <2>2 DEF ClientTypes
  <2>4. /\ pc' = [pc EXCEPT ![t] =
                     IF call[t].op = "w" \/ Len(got'[t]) = 3 THEN "check" ELSE "recv"]
        /\ UNCHANGED <<lock, call, result, closed, down, window, served>>
    BY <1>5 DEF Recv
  <2>5. /\ pc' \in [Threads -> {"idle", "wait"} \cup Holding]
        /\ \A u \in Threads : pc'[u] = "check" /\ call[u].op # "w" => Len(got'[u]) = 3
    BY <2>2, <2>4 DEF ClientTypes, Holding
  <2>6. ClientTypes'
    BY <2>2, <2>3, <2>4, <2>5 DEF ClientTypes
  <2> QED
    BY <1>0, <2>1, <2>4, <2>6 DEF HistoryTypes, NetTypes
<1>6. CASE Accept(t)
  <2> DEFINE v == IF call[t].op = "w" THEN NoVal ELSE AsData(got[t][3])
  <2>1. v \in Word
    <3>1. CASE call[t].op # "w"
      <4>1. Len(got[t]) = 3 /\ got[t] \in Seq(Unit)
        BY <1>6, <3>1 DEF Accept, ClientTypes
      <4>2. got[t][3] \in Unit
        BY <4>1, ElementOfSeq
      <4> QED
        BY <3>1, <4>2, UnitKinds
    <3> QED
      BY <3>1, NoValIsValue
  <2>2. Finish(t, TRUE, v) /\ UNCHANGED net
    BY <1>6 DEF Accept
  <2> HIDE DEF v
  <2> QED
    BY <1>0, <2>1, <2>2, FinishTypes DEF NetTypes, net
<1>7. CASE Reject(t)
  BY <1>0, <1>7 DEF Reject, ClientTypes, HistoryTypes, NetTypes, net, Holding
<1>8. CASE Drain(t)
  <2>1. <<>> \in Seq(Unit)
    OBVIOUS
  <2> QED
    BY <1>0, <1>8, <2>1 DEF Drain, client, ClientTypes, HistoryTypes, NetTypes
<1> QED
  BY <1>1, <1>2, <1>3, <1>4, <1>5, <1>6, <1>7, <1>8, <1>9 DEF Holder
\* What the server has received so far is taken from the front.
LEMMA TakenDown ==
    ASSUME NetTypes, NEW n \in Nat, Len(down) >= n
    PROVE  /\ Rest(down, n) \in Seq(Unit) /\ Len(Rest(down, n)) = Len(down) - n
           /\ \A i \in 1..(Len(down) - n) : Rest(down, n)[i] = down[n + i]
           /\ \A i \in 1..n : down[i] \in Unit
<1>1. Len(down) \in Nat /\ n \in 0..Len(down) /\ down \in Seq(Unit)
  BY LenProperties DEF NetTypes
<1>2. /\ Rest(down, n) \in Seq(Unit) /\ Len(Rest(down, n)) = Len(down) - n
      /\ \A i \in 1..(Len(down) - n) : Rest(down, n)[i] = down[n + i]
  BY ONLY <1>1, Pieces
<1>3. \A i \in 1..n : down[i] \in Unit
  BY ONLY <1>1, ElementOfSeq
<1> QED
  BY ONLY <1>2, <1>3

\* What the server answers; of a read it is three units.
LEMMA Answers ==
    ASSUME ServerTypes, srv.reg \in Regs \cup {Nowhere}
    PROVE  LET a == Header(srv.op, srv.reg) \o
                    (IF srv.op = "r" THEN <<Dat(srv.reg, srv.buf)>> ELSE <<>>) IN
           /\ a \in Seq(Unit) /\ Len(a) = IF srv.op = "r" THEN 3 ELSE 2
           /\ a[1] = Ctl(srv.op) /\ a[2] = Addr(srv.reg)
           /\ srv.op = "r" => a[3] = Dat(srv.reg, srv.buf)
<1>1. srv.op \in Ops /\ srv.buf \in Word
  BY DEF ServerTypes, Ops
<1>2. CASE srv.op = "r"
  BY <1>1, <1>2, Messages
<1>3. CASE srv.op # "r"
  <2>1. Header(srv.op, srv.reg) \o <<>> = Header(srv.op, srv.reg)
    BY <1>1, Headers, ConcatEmptySeq
  <2> QED
    BY <1>1, <1>3, <2>1, Headers
<1> QED
  BY <1>2, <1>3

LEMMA ServerKeepsTypes ==
    ASSUME Types, Server \/ Crash \/ Stop \/ PlChange
    PROVE  Types'
<1> USE DEF Types
<1>0. srv.op \in Ops /\ srv.reg \in Regs \cup {Nowhere} /\ srv.buf \in Word /\ "c" \in Ops
      /\ Forged \in Word /\ Die \in [at : {"dead"}, op : {"r", "d", "w"}, reg : Regs \cup {Nowhere}, buf : Word]
  BY DEF ServerTypes, Ops, Die, NextRequest, Word
<1>1. ClientTypes'
  <2>1. CASE Stop
    BY <2>1 DEF Stop, ClientTypes
  <2>2. CASE Server \/ Crash \/ PlChange
    <3>1. UNCHANGED client
      BY <2>2 DEF Server, ReadHeader, FetchValues, SendAnswer, SendRamHeader, SendRam, ReadPayload,
         StoreValues, ServerEof, Crash, PlChange
    <3> QED
      BY <3>1 DEF ClientTypes, client
  <2> QED
    BY <2>1, <2>2
<1>2. ASSUME NEW v \in Word, Executed(v) PROVE served' \in [Threads -> [done : BOOLEAN, v : Word]]
  BY <1>2 DEF Executed, ClientTypes, HistoryTypes
<1>3. ASSUME fpga' \in [Regs -> Word], Witness PROVE window' \in [Threads -> SUBSET Word]
  <2>1. \A t \in Threads : call[t].reg \in Regs
    BY DEF ClientTypes, Call
  <2> QED
    BY <1>3, <2>1 DEF Witness, HistoryTypes
<1>4. CASE ReadHeader
  <2>1. /\ Rest(down, 2) \in Seq(Unit) /\ down[1] \in Unit /\ down[2] \in Unit
    <3>1. Len(down) >= 2
      BY <1>4 DEF ReadHeader
    <3>2. Rest(down, 2) \in Seq(Unit) /\ \A i \in 1..2 : down[i] \in Unit
      BY <3>1, TakenDown
    <3> QED
      BY <3>2
  <2>2. AsAddr(down[2]) \in Regs \cup {Nowhere}
    BY <2>1, UnitKinds
  <2>3. \/ srv' = Die
        \/ \E at \in {"fetch", "ram", "payload"}, op \in {"r", "d", "w"} :
              srv' = [srv EXCEPT !.at = at, !.op = op, !.reg = AsAddr(down[2])]
    BY <1>4 DEF ReadHeader
  <2>4. ServerTypes'
    BY <1>0, <1>4, <2>2, <2>3 DEF ReadHeader, ServerTypes
  <2> QED
    BY <1>1, <1>4, <2>1, <2>4 DEF ReadHeader, HistoryTypes, NetTypes
<1>5. CASE FetchValues
  <2>1. srv.reg \in Regs => fpga[srv.reg] \in Word
    BY DEF ServerTypes
  <2>2. ServerTypes'
    BY <1>0, <1>5, <2>1 DEF FetchValues, ServerTypes
  <2> QED
    BY <1>1, <1>2, <1>5, <2>1, <2>2 DEF FetchValues, HistoryTypes, NetTypes, net
<1>6. CASE SendAnswer
  <2>1. up' \in Seq(Unit)
    BY <1>0, <1>6, Answers, ConcatAssociative, Headers, ConcatProperties DEF SendAnswer, NetTypes
  <2>2. ServerTypes'
    BY <1>0, <1>6 DEF SendAnswer, ServerTypes, NextRequest
  <2> QED
    BY <1>1, <1>6, <2>1, <2>2 DEF SendAnswer, HistoryTypes, NetTypes
<1>7. CASE SendRamHeader
  <2>1. up' \in Seq(Unit)
    BY <1>0, <1>7, Headers, ConcatProperties DEF SendRamHeader, NetTypes
  <2>2. ServerTypes'
    BY <1>7 DEF SendRamHeader, ServerTypes
  <2> QED
    BY <1>1, <1>7, <2>1, <2>2 DEF SendRamHeader, HistoryTypes, NetTypes
<1>8. CASE SendRam
  <2>1. srv.reg \in Regs => fpga[srv.reg] \in Word
    BY DEF ServerTypes
  <2>2. up' \in Seq(Unit)
    <3>1. srv.reg \in Regs => <<Dat(srv.reg, fpga[srv.reg])>> \in Seq(Unit)
      BY <1>0, <2>1, Units, Single
    <3> QED
      BY <1>8, <3>1, ConcatProperties DEF SendRam, NetTypes
  <2>3. ServerTypes'
    BY <1>0, <1>8 DEF SendRam, ServerTypes, NextRequest
  <2> QED
    BY <1>1, <1>2, <1>8, <2>1, <2>2, <2>3 DEF SendRam, HistoryTypes, NetTypes
<1>9. CASE ReadPayload
  <2>1. Rest(down, 1) \in Seq(Unit) /\ down[1] \in Unit
    BY <1>9, TakenDown DEF ReadPayload
  <2>2. AsData(down[1]) \in Word
    BY <2>1, UnitKinds
  <2>3. ServerTypes'
    BY <1>9, <2>2 DEF ReadPayload, ServerTypes
  <2> QED
    BY <1>1, <1>9, <2>1, <2>3 DEF ReadPayload, HistoryTypes, NetTypes
<1>10. CASE StoreValues
  <2>1. ServerTypes'
    BY <1>0, <1>10 DEF StoreValues, ServerTypes
  <2>2. HistoryTypes'
    <3>1. CASE srv.reg \in Regs
      BY <1>0, <1>2, <1>3, <1>10, <2>1, <3>1 DEF StoreValues, HistoryTypes, ServerTypes
    <3>2. CASE srv.reg \notin Regs
      BY <1>10, <3>2 DEF StoreValues, HistoryTypes
    <3> QED
      BY <3>1, <3>2
  <2> QED
    BY <1>1, <1>10, <2>1, <2>2 DEF StoreValues, NetTypes, net
<1>11. CASE ServerEof
  BY <1>0, <1>1, <1>11 DEF ServerEof, ServerTypes, HistoryTypes, NetTypes, net
<1>12. CASE Crash
  <2>1. PICK n \in 0..Len(up) : up' = SubSeq(up, 1, n)
    BY <1>12 DEF Crash
  <2>2. up' \in Seq(Unit)
    BY <2>1, Pieces DEF NetTypes
  <2>3. faults' \in 0..MaxFaults
    BY <1>12, FaultsAssumption DEF Crash, Happens, ServerTypes
  <2>4. ServerTypes'
    BY <1>0, <1>12, <2>3 DEF Crash, ServerTypes
  <2> QED
    BY <1>1, <1>12, <2>2, <2>4 DEF Crash, HistoryTypes, NetTypes
<1>13. CASE Stop
  <2>1. down' \in Seq(Unit)
    BY <1>0, <1>13, Headers, ConcatProperties DEF Stop, NetTypes
  <2> QED
    BY <1>1, <1>13, <2>1 DEF Stop, HistoryTypes, NetTypes, ServerTypes
<1>14. CASE PlChange
  <2>1. fpga' \in [Regs -> Word]
    BY <1>14 DEF PlChange, ServerTypes, Word
  <2> QED
    BY <1>1, <1>3, <1>14, <2>1 DEF PlChange, HistoryTypes, NetTypes, ServerTypes, net
<1> QED
  BY <1>4, <1>5, <1>6, <1>7, <1>8, <1>9, <1>10, <1>11, <1>12, <1>13, <1>14 DEF Server
-----------------------------------------------------------------------------
(* The lock.                                                               *)

\* How a call ends.
LEMMA Ends ==
    ASSUME NEW t \in Threads, SendFails(t) \/ SendTimeout(t) \/ Accept(t) \/ RecvTimeout(t) \/ RecvEnds(t)
    PROVE  /\ \E ok \in BOOLEAN : \E v : Finish(t, ok, v)
           /\ pc[t] \in Holding
<1>1. \E ok \in BOOLEAN : \E v : Finish(t, ok, v)
  BY DEF SendFails, SendTimeout, Accept, RecvTimeout, RecvEnds, Raise
<1>2. pc[t] \in Holding
  BY DEF SendFails, SendTimeout, Accept, RecvTimeout, RecvEnds, Holding
<1> QED
  BY <1>1, <1>2

LEMMA ThreadKeepsLock ==
    ASSUME Types, Locked, NEW t \in Threads,
           Invoke(t) \/ Acquire(t) \/ Holder(t) \/ SendTimeout(t)
    PROVE  Locked'
<1> USE NamesAssumption DEF Types, ClientTypes
<1>1. CASE Invoke(t)
  BY <1>1 DEF Invoke, Locked, Holding
<1>2. CASE Acquire(t)
  BY <1>2 DEF Acquire, Locked, Holding
<1>3. CASE Send(t)
  BY <1>3 DEF Send, Locked, Holding
<1>4. CASE SendFails(t) \/ SendTimeout(t) \/ Accept(t) \/ RecvTimeout(t) \/ RecvEnds(t)
  <2>1. pc[t] \in Holding
    BY <1>4, Ends
  <2>2. /\ pc' = [pc EXCEPT ![t] = "idle"] /\ lock' = NoThread
        /\ got' = [got EXCEPT ![t] = <<>>]
    BY <1>4, Ends DEF Finish
  <2>3. \A u \in Threads \ {t} : pc[u] \notin Holding
    BY <2>1 DEF Locked
  <2> QED
    BY <2>2, <2>3 DEF Locked, Holding
<1>5. CASE Recv(t)
  <2>1. /\ \E step \in {"check", "recv"} : pc' = [pc EXCEPT ![t] = step]
        /\ \A u \in Threads \ {t} : got'[u] = got[u]
        /\ lock' = lock /\ pc[t] = "recv"
    BY <1>5, RecvUnits DEF Recv
  <2> QED
    BY <2>1 DEF Locked, Holding
<1>6. CASE Reject(t)
  BY <1>6 DEF Reject, Locked, Holding
<1>7. CASE Drain(t)
  BY <1>7 DEF Drain, client, Locked
<1> QED
  BY <1>1, <1>2, <1>3, <1>4, <1>5, <1>6, <1>7 DEF Holder

LEMMA OthersKeepLock ==
    ASSUME Locked, Server \/ Crash \/ Stop \/ PlChange
    PROVE  Locked' /\ UNCHANGED <<lock, pc, call, got, result>>
<1>1. CASE Stop
  BY <1>1 DEF Stop, Locked
<1>2. CASE Server \/ Crash \/ PlChange
  <2>1. UNCHANGED client
    BY <1>2 DEF Server, ReadHeader, FetchValues, SendAnswer, SendRamHeader, SendRam, ReadPayload,
       StoreValues, ServerEof, Crash, PlChange
  <2> QED
    BY <2>1 DEF Locked, client
<1> QED
  BY <1>1, <1>2

-----------------------------------------------------------------------------
(* What arrives.  Units are lost at the end only when the server dies, and *)
(* at the beginning only whole streams are lost or whole conversations.    *)

LEMMA PairedPrefix ==
    ASSUME NEW s \in Seq(Unit), NEW u \in Seq(Unit), Len(u) <= Len(s), Paired(s),
           \A i \in 1..Len(u) : u[i] = s[i]
    PROVE  Paired(u)
<1>1. Len(s) \in Nat /\ Len(u) \in Nat
  BY LenProperties
<1> SUFFICES ASSUME NEW i \in 1..(Len(u) - 2), Begins(u[i]), u[i + 1].k = "addr"
             PROVE  u[i + 2].k = "dat" /\ u[i + 2].r = u[i + 1].r
  BY DEF Paired
<1>2. i \in 1..(Len(s) - 2) /\ {i, i + 1, i + 2} \subseteq 1..Len(u)
  BY <1>1
<1>3. u[i] = s[i] /\ u[i + 1] = s[i + 1] /\ u[i + 2] = s[i + 2]
  BY <1>2
<1> QED
  BY <1>2, <1>3 DEF Paired

\* The units at the end of a stream.
LEMMA StreamSuffix ==
    ASSUME NEW s \in Seq(Unit), NEW u \in Seq(Unit), NEW n \in Nat, Len(s) = n + Len(u),
           NEW at, NEW reg, Stream(s, at, reg),
           \A i \in 1..Len(u) : u[i] = s[n + i]
    PROVE  Stream(u, at, reg)
<1>1. Len(s) \in Nat /\ Len(u) \in Nat
  BY LenProperties
<1>2. Paired(u)
  <2> SUFFICES ASSUME NEW i \in 1..(Len(u) - 2), Begins(u[i]), u[i + 1].k = "addr"
               PROVE  u[i + 2].k = "dat" /\ u[i + 2].r = u[i + 1].r
    BY DEF Paired
  <2>1. n + i \in 1..(Len(s) - 2) /\ {i, i + 1, i + 2} \subseteq 1..Len(u)
    BY <1>1
  <2>2. u[i] = s[n + i] /\ u[i + 1] = s[n + (i + 1)] /\ u[i + 2] = s[n + (i + 2)]
    BY <2>1
  <2>3. n + (i + 1) = (n + i) + 1 /\ n + (i + 2) = (n + i) + 2
    OBVIOUS
  <2> QED
    BY <2>1, <2>2, <2>3 DEF Stream, Paired
<1>3. Ended(s, at, reg) => Ended(u, at, reg)
  <2>1. Len(u) > 0 => u[Len(u)] = s[Len(s)]
    BY <1>1
  <2>2. Len(u) > 1 => u[Len(u) - 1] = s[Len(s) - 1]
    <3>1. Len(u) > 1 => Len(u) - 1 \in 1..Len(u) /\ n + (Len(u) - 1) = Len(s) - 1
      BY <1>1
    <3> QED
      BY <3>1
  <2> QED
    BY <1>1, <2>1, <2>2 DEF Ended
<1> QED
  BY <1>2, <1>3 DEF Stream
\* A server that is not at the data of an answer may do something else.
LEMMA StreamTurns ==
    ASSUME NEW s, NEW at, NEW reg, NEW at1, NEW reg1, Stream(s, at, reg),
           at1 # "dead" => at \notin {"ramdata", "dead"}
    PROVE  Stream(s, at1, reg1)
BY DEF Stream, Ended

\* More units follow: they complete the answer that has begun.
LEMMA PairedMore ==
    ASSUME NEW s \in Seq(Unit), NEW m \in Seq(Unit), Len(m) > 0, Paired(s), Paired(m),
           Len(s) > 0 => ~Begins(s[Len(s)]),
           Len(s) > 1 /\ Begins(s[Len(s) - 1]) /\ s[Len(s)].k = "addr" =>
               m[1].k = "dat" /\ m[1].r = s[Len(s)].r
    PROVE  Paired(s \o m)
<1> DEFINE z == s \o m
<1>1. /\ z \in Seq(Unit) /\ Len(z) = Len(s) + Len(m) /\ Len(s) \in Nat /\ Len(m) \in Nat
      /\ \A i \in 1..Len(s) : z[i] = s[i]
      /\ \A i \in 1..Len(m) : z[Len(s) + i] = m[i]
  BY Joined
<1> HIDE DEF z
<1> SUFFICES ASSUME NEW i \in 1..(Len(z) - 2), Begins(z[i]), z[i + 1].k = "addr"
             PROVE  z[i + 2].k = "dat" /\ z[i + 2].r = z[i + 1].r
  BY DEF Paired, z
<1>2. CASE i <= Len(s) - 2
  <2>1. i \in 1..(Len(s) - 2) /\ {i, i + 1, i + 2} \subseteq 1..Len(s)
    BY <1>1, <1>2
  <2>2. z[i] = s[i] /\ z[i + 1] = s[i + 1] /\ z[i + 2] = s[i + 2]
    BY <1>1, <2>1
  <2> QED
    BY <2>1, <2>2 DEF Paired
<1>3. CASE i = Len(s) - 1
  <2>1. Len(s) > 1 /\ z[i] = s[Len(s) - 1] /\ z[i + 1] = s[Len(s)]
    BY <1>1, <1>3
  <2>2. 1 \in 1..Len(m) /\ i + 2 = Len(s) + 1
    BY <1>1, <1>3
  <2>3. z[i + 2] = m[1]
    BY <1>1, <2>2
  <2> QED
    BY <2>1, <2>3
<1>4. CASE i = Len(s)
  BY <1>1, <1>4
<1>5. CASE i > Len(s)
  <2> DEFINE j == i - Len(s)
  <2>1. j \in 1..(Len(m) - 2) /\ {j, j + 1, j + 2} \subseteq 1..Len(m)
    BY <1>1, <1>5
  <2>2. i = Len(s) + j /\ i + 1 = Len(s) + (j + 1) /\ i + 2 = Len(s) + (j + 2)
    BY <1>1
  <2> HIDE DEF j
  <2>3. z[i] = m[j] /\ z[i + 1] = m[j + 1] /\ z[i + 2] = m[j + 2]
    BY <1>1, <2>1, <2>2
  <2> QED
    BY <2>1, <2>3 DEF Paired
<1> QED
  BY <1>1, <1>2, <1>3, <1>4, <1>5

\* The server sends a whole answer ...
LEMMA StreamAnswer ==
    ASSUME NEW s \in Seq(Unit), NEW m \in Seq(Unit), NEW at, NEW reg,
           Stream(s, at, reg), at \notin {"ramdata", "dead"}, Len(m) \in {2, 3},
           NEW op \in {"r", "w"}, NEW r \in Regs \cup {Nowhere}, NEW v \in Word,
           m[1] = Ctl(op), m[2] = Addr(r),
           op = "r" => Len(m) = 3 /\ m[3] = Dat(r, v),
           op # "r" => Len(m) = 2,
           NEW reg1
    PROVE  Stream(s \o m, "header", reg1)
<1>1. /\ m[1].k = "ctl" /\ m[2].k = "addr" /\ m[2].r = r
      /\ Begins(m[1]) <=> op = "r"
      /\ ~Begins(m[2])
      /\ op = "r" => m[3].k = "dat" /\ m[3].r = r /\ ~Begins(m[3])
  BY Units DEF Ops, Begins
<1>2. Paired(m)
  BY <1>1 DEF Paired
<1>3. Paired(s \o m)
  BY <1>2, PairedMore DEF Stream, Ended
<1> DEFINE z == s \o m
<1>4. /\ Len(z) = Len(s) + Len(m) /\ Len(s) \in Nat /\ Len(m) \in Nat
      /\ \A i \in 1..Len(m) : z[Len(s) + i] = m[i]
  BY Joined
<1> HIDE DEF z
<1>5. z[Len(z)] = m[Len(m)] /\ z[Len(z) - 1] = m[Len(m) - 1]
  <2>1. Len(m) \in 1..Len(m) /\ Len(m) - 1 \in 1..Len(m) /\ Len(z) - 1 = Len(s) + (Len(m) - 1)
    BY <1>4
  <2> QED
    BY <1>4, <2>1
<1>6. Ended(z, "header", reg1)
  BY <1>1, <1>5 DEF Ended
<1> QED
  BY <1>3, <1>6 DEF Stream, z

\* ... or the header and then the data.
LEMMA StreamRamHeader ==
    ASSUME NEW s \in Seq(Unit), NEW m \in Seq(Unit), NEW reg, Stream(s, "ram", reg),
           NEW r \in Regs \cup {Nowhere}, Len(m) = 2, m[1] = Ctl("d"), m[2] = Addr(r)
    PROVE  Stream(s \o m, "ramdata", r)
<1>1. m[2].k = "addr" /\ m[2].r = r /\ ~Begins(m[2])
  <2>1. Forged \in Word
    BY DEF Word
  <2> QED
    BY <2>1, Units DEF Ops, Begins
<1>2. Paired(m)
  BY DEF Paired
<1>3. Paired(s \o m)
  BY <1>1, <1>2, PairedMore DEF Stream, Ended
<1> DEFINE z == s \o m
<1>4. /\ Len(z) = Len(s) + Len(m) /\ Len(s) \in Nat /\ Len(m) \in Nat
      /\ \A i \in 1..Len(m) : z[Len(s) + i] = m[i]
  BY ONLY Joined, s \in Seq(Unit), m \in Seq(Unit)
<1> HIDE DEF z
<1>5. z[Len(z)] = m[2]
  BY <1>4
<1>6. Ended(z, "ramdata", r)
  BY <1>1, <1>5 DEF Ended
<1> QED
  BY <1>3, <1>6 DEF Stream, z

LEMMA StreamRam ==
    ASSUME NEW s \in Seq(Unit), NEW m \in Seq(Unit), NEW r \in Regs \cup {Nowhere}, NEW v \in Word,
           Stream(s, "ramdata", r), Len(m) = 1, m[1] = Dat(r, v), NEW reg1
    PROVE  Stream(s \o m, "header", reg1)
<1>1. m[1].k = "dat" /\ m[1].r = r /\ ~Begins(m[1])
  BY Units DEF Ops, Begins
<1>2. Paired(m)
  BY DEF Paired
<1>3. Paired(s \o m)
  <2>1. /\ Paired(s)
        /\ Len(s) > 0 => ~Begins(s[Len(s)])
        /\ Len(s) > 1 /\ Begins(s[Len(s) - 1]) /\ s[Len(s)].k = "addr" =>
               m[1].k = "dat" /\ m[1].r = s[Len(s)].r
        /\ Len(m) > 0
    BY <1>1 DEF Stream, Ended
  <2> QED
    BY ONLY <1>2, <2>1, PairedMore, s \in Seq(Unit), m \in Seq(Unit)
<1> DEFINE z == s \o m
<1>4. /\ Len(z) = Len(s) + Len(m) /\ Len(s) \in Nat /\ Len(m) \in Nat
      /\ \A i \in 1..Len(m) : z[Len(s) + i] = m[i]
  BY ONLY Joined, s \in Seq(Unit), m \in Seq(Unit)
<1> HIDE DEF z
<1>5. z[Len(z)] = m[1]
  BY <1>4
<1>6. Ended(z, "header", reg1)
  BY <1>1, <1>5 DEF Ended
<1> QED
  BY <1>3, <1>6 DEF Stream, z

LEMMA Turns ==
    ASSUME Streams, UNCHANGED <<up, pc, got>>,
           srv'.at # "dead" => srv.at \notin {"ramdata", "dead"}
    PROVE  Streams'
<1>1. ASSUME NEW s, Stream(s, srv.at, srv.reg)
      PROVE  Stream(s, srv'.at, srv'.reg)
  BY <1>1, StreamTurns
<1>2. \A t \in Threads : got'[t] \o up' = got[t] \o up
  OBVIOUS
<1> QED
  BY <1>1, <1>2 DEF Streams

LEMMA StreamGrows ==
    ASSUME NEW g \in Seq(Unit), NEW u \in Seq(Unit), NEW m \in Seq(Unit),
           NEW at, NEW reg, NEW at1, NEW reg1, Stream(g \o u, at, reg),
           \A s \in Seq(Unit) : Stream(s, at, reg) => Stream(s \o m, at1, reg1)
    PROVE  Stream(g \o (u \o m), at1, reg1)
<1>1. g \o u \in Seq(Unit) /\ (g \o u) \o m = g \o (u \o m)
  BY Joined, ConcatAssociative
<1> QED
  BY <1>1

LEMMA Grows ==
    ASSUME Types, Streams, NEW m \in Seq(Unit), up' = up \o m, UNCHANGED <<pc, got>>,
           \A s \in Seq(Unit) : Stream(s, srv.at, srv.reg) => Stream(s \o m, srv'.at, srv'.reg)
    PROVE  Streams'
<1>1. up \in Seq(Unit) /\ \A t \in Threads : got[t] \in Seq(Unit)
  BY DEF Types, NetTypes, ClientTypes
<1>2. Stream(up', srv'.at, srv'.reg)
  BY <1>1 DEF Streams
<1>3. ASSUME NEW t \in Threads, pc'[t] \in {"recv", "check"}
      PROVE  Stream(got'[t] \o up', srv'.at, srv'.reg)
  <2> DEFINE g == got[t]
  <2>1. Stream(g \o up, srv.at, srv.reg) /\ g \in Seq(Unit)
    BY <1>1, <1>3 DEF Streams
  <2> HIDE DEF g
  <2>2. Stream(g \o (up \o m), srv'.at, srv'.reg)
    BY <1>1, <2>1, StreamGrows
  <2> QED
    BY <2>2 DEF g
<1> QED
  BY <1>2, <1>3 DEF Streams

LEMMA ThreadKeepsStreams ==
    ASSUME Types, Locked, Streams, NEW t \in Threads,
           Invoke(t) \/ Acquire(t) \/ Holder(t) \/ SendTimeout(t)
    PROVE  Streams'
<1> USE DEF Types
<1>1. ASSUME UNCHANGED <<up, srv>>,
             \A u \in Threads : pc'[u] \in {"recv", "check"} => pc[u] = pc'[u] /\ got'[u] = got[u]
      PROVE  Streams'
  <2>1. \A u \in Threads : pc'[u] \in {"recv", "check"} =>
           pc[u] \in {"recv", "check"} /\ got'[u] \o up' = got[u] \o up
    BY <1>1
  <2> QED
    BY <1>1, <2>1 DEF Streams
<1>2. \A u \in Threads : pc[u] \in Holding /\ pc[t] \in Holding => u = t
  BY DEF Locked
<1>3. CASE Invoke(t) \/ Acquire(t) \/ Reject(t)
  <2>1. /\ UNCHANGED <<up, srv, got>>
        /\ \E step \in {"wait", "send", "drain"} : pc' = [pc EXCEPT ![t] = step]
    BY <1>3 DEF Invoke, Acquire, Reject, net
  <2> QED
    BY <1>1, <2>1 DEF ClientTypes
<1>4. CASE Send(t)
  <2>1. /\ UNCHANGED <<up, srv, got>>
        /\ pc' = [pc EXCEPT ![t] = "recv"] /\ pc[t] = "send"
    BY <1>4 DEF Send
  <2>2. got[t] = <<>>
    BY <2>1 DEF Locked
  <2>3. <<>> \o up = up
    BY ConcatEmptySeq DEF NetTypes
  <2>4. \A u \in Threads \ {t} : pc'[u] = pc[u]
    BY <2>1 DEF ClientTypes
  <2>5. \A u \in Threads : got'[u] \o up' = got[u] \o up
    BY <2>1
  <2>6. Stream(got'[t] \o up', srv'.at, srv'.reg)
    BY <2>1, <2>2, <2>3 DEF Streams
  <2> QED
    BY <2>1, <2>4, <2>5, <2>6 DEF Streams
<1>5. CASE SendFails(t) \/ SendTimeout(t) \/ Accept(t) \/ RecvTimeout(t) \/ RecvEnds(t)
  <2>1. pc' = [pc EXCEPT ![t] = "idle"] /\ pc[t] \in Holding
    BY <1>5, Ends DEF Finish
  <2>2. \A u \in Threads : pc'[u] \notin {"recv", "check"}
    BY <1>2, <2>1 DEF ClientTypes, Holding
  <2>3. UNCHANGED <<up, srv>>
    BY <1>5 DEF SendFails, SendTimeout, Accept, RecvTimeout, RecvEnds, net
  <2> QED
    BY <1>1, <2>2, <2>3
<1>6. CASE Recv(t)
  <2>1. PICK n \in 1..Len(up) :
              /\ got' = [got EXCEPT ![t] = got[t] \o SubSeq(up, 1, n)]
              /\ got'[t] \in Seq(Unit) /\ Len(got'[t]) = Len(got[t]) + n
              /\ \A i \in 1..Len(got[t]) : got'[t][i] = got[t][i]
              /\ \A i \in 1..n : got'[t][Len(got[t]) + i] = up[i]
              /\ up' \in Seq(Unit) /\ Len(up') = Len(up) - n
              /\ \A i \in 1..(Len(up) - n) : up'[i] = up[n + i]
              /\ Len(got[t]) \in Nat /\ Len(up) \in Nat
    BY <1>6, RecvUnits
  <2>2. pc[t] = "recv" /\ UNCHANGED srv
    BY <1>6 DEF Recv
  <2>3. Stream(up', srv.at, srv.reg)
    <3>1. /\ up \in Seq(Unit) /\ up' \in Seq(Unit) /\ n \in Nat /\ Len(up) = n + Len(up')
          /\ Stream(up, srv.at, srv.reg)
          /\ \A i \in 1..Len(up') : up'[i] = up[n + i]
      BY <2>1 DEF Streams, NetTypes
    <3> QED
      BY ONLY <3>1, StreamSuffix
  <2> DEFINE z == got[t] \o up
             y == got'[t] \o up'
  <2>4. /\ z \in Seq(Unit) /\ Len(z) = Len(got[t]) + Len(up)
        /\ \A i \in 1..Len(got[t]) : z[i] = got[t][i]
        /\ \A i \in 1..Len(up) : z[Len(got[t]) + i] = up[i]
    BY ONLY Joined, got[t] \in Seq(Unit), up \in Seq(Unit), Types DEF Types, ClientTypes, NetTypes
  <2>5. /\ y \in Seq(Unit) /\ Len(y) = Len(got'[t]) + Len(up')
        /\ \A i \in 1..Len(got'[t]) : y[i] = got'[t][i]
        /\ \A i \in 1..Len(up') : y[Len(got'[t]) + i] = up'[i]
    <3> DEFINE g == got'[t] v == up'
    <3>1. g \in Seq(Unit) /\ v \in Seq(Unit)
      BY <2>1
    <3> HIDE DEF g, v
    <3>2. /\ g \o v \in Seq(Unit) /\ Len(g \o v) = Len(g) + Len(v)
          /\ \A i \in 1..Len(g) : (g \o v)[i] = g[i]
          /\ \A i \in 1..Len(v) : (g \o v)[Len(g) + i] = v[i]
      BY <3>1, Joined
    <3> QED
      BY <3>2 DEF g, v
  <2> HIDE DEF z, y
  <2>6. Len(y) = Len(z)
    BY <2>1, <2>4, <2>5
  <2>7. ASSUME NEW i \in 1..Len(y) PROVE y[i] = z[i]
    <3>1. CASE i <= Len(got[t])
      <4>1. i \in 1..Len(got[t]) /\ i \in 1..Len(got'[t])
        BY <2>1, <3>1
      <4> QED
        BY <2>1, <2>4, <2>5, <4>1
    <3>2. CASE Len(got[t]) < i /\ i <= Len(got'[t])
      <4> DEFINE j == i - Len(got[t])
      <4>1. j \in 1..n /\ j \in 1..Len(up) /\ i = Len(got[t]) + j /\ i \in 1..Len(got'[t])
        BY <2>1, <3>2
      <4> HIDE DEF j
      <4>2. y[i] = got'[t][i] /\ got'[t][i] = up[j] /\ z[i] = up[j]
        BY <2>1, <2>4, <2>5, <4>1
      <4> QED
        BY <4>2
    <3>3. CASE i > Len(got'[t])
      <4>1. PICK j \in 1..Len(up') :
               /\ j \in 1..(Len(up) - n) /\ n + j \in 1..Len(up)
               /\ i = Len(got'[t]) + j /\ i = Len(got[t]) + (n + j)
        <5>1. /\ i \in Nat /\ i <= Len(got'[t]) + Len(up') /\ Len(up') = Len(up) - n
              /\ Len(got'[t]) = Len(got[t]) + n
          BY <2>1, <2>5
        <5> QED
          <6> DEFINE lg == Len(got[t]) lu == Len(up) lg1 == Len(got'[t]) lu1 == Len(up')
          <6>1. /\ lg \in Nat /\ lu \in Nat /\ n \in 1..lu /\ i \in Nat
                /\ lg1 = lg + n /\ lu1 = lu - n /\ i > lg1 /\ i <= lg1 + lu1
            BY <2>1, <3>3, <5>1
          <6> HIDE DEF lg, lu, lg1, lu1
          <6>2. \E j \in 1..lu1 :
                   j \in 1..(lu - n) /\ n + j \in 1..lu /\ i = lg1 + j /\ i = lg + (n + j)
            BY <6>1, Left
          <6> QED
            BY <6>2 DEF lg, lu, lg1, lu1
      <4>2. y[i] = up'[j] /\ up'[j] = up[n + j] /\ z[i] = up[n + j]
        BY <2>1, <2>4, <2>5, <4>1
      <4> QED
        BY <4>2
    <3> QED
      BY <2>1, <3>1, <3>2, <3>3
  <2>8. Stream(z, srv.at, srv.reg)
    BY <2>2 DEF Streams, z
  <2>9. Stream(y, srv.at, srv.reg)
    <3>1. y = z
      BY ONLY <2>4, <2>5, <2>6, <2>7, SeqEqual
    <3> QED
      BY <2>8, <3>1
  <2>10. \A u \in Threads : pc'[u] \in {"recv", "check"} => u = t
    BY <1>2, <1>6, <2>2 DEF Recv, ClientTypes, Holding
  <2> QED
    BY <2>2, <2>3, <2>9, <2>10 DEF Streams, y
<1>7. CASE Drain(t)
  <2>1. up' = <<>> /\ UNCHANGED <<srv, pc>> /\ pc[t] = "drain"
    BY <1>7 DEF Drain, client
  <2>2. \A u \in Threads : pc'[u] \notin {"recv", "check"}
    BY <1>2, <2>1 DEF Holding
  <2>3. Stream(<<>>, srv.at, srv.reg)
    BY DEF Stream, Paired, Ended
  <2> QED
    BY <2>1, <2>2, <2>3 DEF Streams
<1> QED
  BY <1>3, <1>4, <1>5, <1>6, <1>7 DEF Holder

LEMMA SendAnswerUnits ==
    ASSUME Types, SendAnswer
    PROVE  up' = up \o (Header(srv.op, srv.reg) \o
                         (IF srv.op = "r" THEN <<Dat(srv.reg, srv.buf)>> ELSE <<>>))
<1> DEFINE h == Header(srv.op, srv.reg)
           d == IF srv.op = "r" THEN <<Dat(srv.reg, srv.buf)>> ELSE <<>>
<1>1. srv.op \in Ops /\ srv.reg \in Regs \cup {Nowhere} /\ srv.buf \in Word
  BY DEF Types, ServerTypes, Ops
<1>2. h \in Seq(Unit)
  BY <1>1, Headers
<1>3. d \in Seq(Unit)
  <2>1. Dat(srv.reg, srv.buf) \in Unit
    BY <1>1, Units
  <2> QED
    BY <2>1, Single, EmptySeq
<1>4. up' = (up \o h) \o d /\ up \in Seq(Unit)
  BY DEF SendAnswer, Types, NetTypes
<1> HIDE DEF h, d
<1>5. (up \o h) \o d = up \o (h \o d)
  BY <1>2, <1>3, <1>4, ConcatAssociative
<1> QED
  BY <1>4, <1>5 DEF h, d

LEMMA OthersKeepStreams ==
    ASSUME Types, Serves, Streams, Server \/ Crash \/ Stop \/ PlChange
    PROVE  Serves' /\ Streams'
<1>0. UNCHANGED <<pc, got>> /\ Die.at = "dead" /\ NextRequest.at = "header"
  BY DEF Server, ReadHeader, FetchValues, SendAnswer, SendRamHeader, SendRam, ReadPayload,
     StoreValues, ServerEof, Crash, Stop, PlChange, client, Die, NextRequest
<1>1. /\ srv \in [at : {"header", "fetch", "answer", "ram", "ramdata", "payload", "store", "dead"},
                  op : {"r", "d", "w"}, reg : Regs \cup {Nowhere}, buf : Word]
      /\ fpga \in [Regs -> Word]
  BY DEF Types, ServerTypes
<1>2. CASE srv' = Die /\ UNCHANGED up
  <2>1. Serves'
    BY <1>0, <1>2 DEF Serves
  <2>2. Streams'
    BY <1>0, <1>2, Turns
  <2> QED
    BY <2>1, <2>2
<1>3. CASE ReadHeader /\ srv' # Die
  <2>1. /\ \/ srv'.at = "fetch" /\ srv'.op = "r"
           \/ srv'.at = "ram" /\ srv'.op = "d"
           \/ srv'.at = "payload" /\ srv'.op = "w"
        /\ srv.at = "header" /\ UNCHANGED up
    BY <1>1, <1>3 DEF ReadHeader
  <2>2. Serves'
    BY <2>1 DEF Serves
  <2> QED
    BY <1>0, <2>1, <2>2, Turns
<1>4. CASE FetchValues /\ srv' # Die
  <2>1. srv.at = "fetch" /\ srv'.at = "answer" /\ srv'.op = srv.op /\ UNCHANGED up
    BY <1>1, <1>4 DEF FetchValues, net
  <2>2. Serves'
    BY <2>1 DEF Serves
  <2> QED
    BY <1>0, <2>1, <2>2, Turns
<1>5. CASE SendAnswer
  <2> DEFINE a == Header(srv.op, srv.reg) \o
                    (IF srv.op = "r" THEN <<Dat(srv.reg, srv.buf)>> ELSE <<>>)
  <2>1. srv.at = "answer" /\ srv'.at = "header"
    BY <1>0, <1>5 DEF SendAnswer
  <2>2. srv.op \in {"r", "w"} /\ srv.reg \in Regs \cup {Nowhere} /\ srv.buf \in Word
    BY <1>1, <2>1 DEF Serves
  <2>3. /\ a \in Seq(Unit) /\ Len(a) = IF srv.op = "r" THEN 3 ELSE 2
        /\ a[1] = Ctl(srv.op) /\ a[2] = Addr(srv.reg)
        /\ srv.op = "r" => a[3] = Dat(srv.reg, srv.buf)
    BY <1>1, Answers DEF Types
  <2>4. up' = up \o a
    BY <1>5, SendAnswerUnits
  <2> HIDE DEF a
  <2>5. ASSUME NEW s \in Seq(Unit), Stream(s, srv.at, srv.reg)
        PROVE  Stream(s \o a, srv'.at, srv'.reg)
    BY <2>1, <2>2, <2>3, <2>5, StreamAnswer
  <2>6. Streams'
    BY <1>0, <2>3, <2>4, <2>5, Grows
  <2> QED
    BY <2>1, <2>6 DEF Serves
<1>6. CASE SendRamHeader
  <2>1. srv.at = "ram" /\ srv'.at = "ramdata" /\ srv.op = "d" /\ srv'.op = "d" /\ srv'.reg = srv.reg
    BY <1>1, <1>6 DEF SendRamHeader, Serves
  <2> DEFINE a == Header("d", srv.reg)
  <2>2. /\ a \in Seq(Unit) /\ Len(a) = 2
        /\ a[1] = Ctl("d") /\ a[2] = Addr(srv.reg) /\ srv.reg \in Regs \cup {Nowhere}
    BY <1>1, Headers DEF Ops
  <2>3. up' = up \o a
    BY <1>6, <2>1 DEF SendRamHeader
  <2> HIDE DEF a
  <2>4. ASSUME NEW s \in Seq(Unit), Stream(s, srv.at, srv.reg)
        PROVE  Stream(s \o a, srv'.at, srv'.reg)
    BY <2>1, <2>2, <2>4, StreamRamHeader
  <2>5. Streams'
    BY <1>0, <2>2, <2>3, <2>4, Grows
  <2> QED
    BY <2>1, <2>5 DEF Serves
<1>7. CASE SendRam /\ srv' # Die
  <2>1. srv.at = "ramdata" /\ srv'.at = "header" /\ srv.reg \in Regs
    BY <1>0, <1>7 DEF SendRam
  <2> DEFINE a == <<Dat(srv.reg, fpga[srv.reg])>>
  <2>2. a \in Seq(Unit) /\ Len(a) = 1 /\ a[1] = Dat(srv.reg, fpga[srv.reg])
    <3>1. Dat(srv.reg, fpga[srv.reg]) \in Unit
      BY <1>1, <2>1, Units DEF Ops
    <3> QED
      BY <3>1, Single
  <2>3. up' = up \o a
    BY <1>7, <2>1 DEF SendRam
  <2> HIDE DEF a
  <2>4. fpga[srv.reg] \in Word /\ srv.reg \in Regs \cup {Nowhere}
    BY <1>1, <2>1
  <2>5. ASSUME NEW s \in Seq(Unit), Stream(s, srv.at, srv.reg)
        PROVE  Stream(s \o a, srv'.at, srv'.reg)
    BY <2>1, <2>2, <2>4, <2>5, StreamRam
  <2>6. Streams'
    BY <1>0, <2>2, <2>3, <2>5, Grows
  <2> QED
    BY <2>1, <2>6 DEF Serves
<1>8. CASE ReadPayload
  <2>1. /\ srv.at = "payload" /\ srv'.at = "store" /\ srv'.op = srv.op /\ UNCHANGED up
    BY <1>1, <1>8 DEF ReadPayload
  <2>2. Serves'
    BY <2>1 DEF Serves
  <2> QED
    BY <1>0, <2>1, <2>2, Turns
<1>9. CASE StoreValues /\ srv' # Die
  <2>1. srv.at = "store" /\ srv'.at = "answer" /\ srv'.op = srv.op /\ UNCHANGED up
    BY <1>1, <1>9 DEF StoreValues, net
  <2>2. Serves'
    BY <2>1 DEF Serves
  <2> QED
    BY <1>0, <2>1, <2>2, Turns
<1>10. CASE Crash
  <2>1. PICK n \in 0..Len(up) : up' = SubSeq(up, 1, n)
    BY <1>10 DEF Crash
  <2>2. srv'.at = "dead"
    BY <1>0, <1>10 DEF Crash
  <2>3. ASSUME NEW g \in Seq(Unit), Paired(g \o up)
        PROVE  Paired(g \o up')
    <3> DEFINE p == SubSeq(up, 1, n)
    <3>1. p \in Seq(Unit) /\ Len(p) = n /\ up \in Seq(Unit) /\ \A i \in 1..n : p[i] = up[i]
      BY Pieces DEF Types, NetTypes
    <3> HIDE DEF p
    <3> DEFINE y == g \o p
               z == g \o up
    <3>2. /\ y \in Seq(Unit) /\ Len(y) = Len(g) + Len(p) /\ Len(g) \in Nat /\ Len(p) \in Nat
          /\ \A i \in 1..Len(g) : y[i] = g[i]
          /\ \A i \in 1..Len(p) : y[Len(g) + i] = p[i]
      <4>1. p \in Seq(Unit)
        BY <3>1
      <4> QED
        BY ONLY <4>1, g \in Seq(Unit), Joined
    <3>3. /\ z \in Seq(Unit) /\ Len(z) = Len(g) + Len(up) /\ Len(up) \in Nat
          /\ \A i \in 1..Len(g) : z[i] = g[i]
          /\ \A i \in 1..Len(up) : z[Len(g) + i] = up[i]
      <4>1. up \in Seq(Unit)
        BY <3>1
      <4> QED
        BY ONLY <4>1, g \in Seq(Unit), Joined
    <3>4. Paired(z)
      BY <2>3
    <3> HIDE DEF y, z
    <3>5. ASSUME NEW i \in 1..Len(y) PROVE y[i] = z[i]
      <4>1. CASE i <= Len(g)
        <5>1. i \in 1..Len(g)
          BY <3>2, <4>1
        <5> QED
          BY <3>2, <3>3, <5>1
      <4>2. CASE i > Len(g)
        <5> DEFINE j == i - Len(g)
        <5>1. j \in 1..n /\ j \in 1..Len(up) /\ i = Len(g) + j
          BY <3>1, <3>2, <3>3, <4>2
        <5> HIDE DEF j
        <5> QED
          BY <3>1, <3>2, <3>3, <5>1
      <4> QED
        BY <3>2, <4>1, <4>2
    <3>6. Len(y) <= Len(z)
      BY <3>1, <3>2, <3>3
    <3>7. Paired(y)
      BY <3>2, <3>3, <3>4, <3>5, <3>6, PairedPrefix
    <3> QED
      BY <2>1, <3>7 DEF y, p
  <2>4. Paired(up')
    <3>1. <<>> \o up = up /\ <<>> \o up' = up' /\ <<>> \in Seq(Unit)
      <4>1. up' \in Seq(Unit)
        BY <2>1, Pieces DEF Types, NetTypes
      <4> QED
        BY <4>1, ConcatEmptySeq, EmptySeq DEF Types, NetTypes
    <3>2. Paired(<<>> \o up)
      BY <3>1 DEF Streams, Stream
    <3>3. Paired(<<>> \o up')
      BY <2>3, <3>1, <3>2
    <3> QED
      BY <3>1, <3>3
  <2>5. \A t \in Threads : pc[t] \in {"recv", "check"} => Paired(got[t] \o up')
    <3>1. \A t \in Threads : got[t] \in Seq(Unit)
      BY DEF Types, ClientTypes
    <3> QED
      BY <2>3, <3>1 DEF Streams, Stream
  <2> QED
    BY <1>0, <2>2, <2>4, <2>5 DEF Serves, Streams, Stream
<1>11. CASE Stop \/ PlChange
  <2>1. UNCHANGED <<srv, up, pc, got>>
    BY <1>11 DEF Stop, PlChange, client, net
  <2>2. \A t \in Threads : got'[t] \o up' = got[t] \o up
    BY <2>1
  <2> QED
    BY <2>1, <2>2 DEF Serves, Streams
<1> QED
  <2>1. CASE Server
    <3>1. SendAnswer \/ SendRamHeader \/ SendRam \/ UNCHANGED up
      BY <2>1 DEF Server, ReadHeader, FetchValues, ReadPayload, StoreValues, ServerEof, net
    <3>2. SendRam /\ srv' = Die => UNCHANGED up
      BY <1>0 DEF SendRam
    <3>3. ServerEof => srv' = Die
      BY DEF ServerEof
    <3> QED
      BY <1>2, <1>3, <1>4, <1>5, <1>6, <1>7, <1>8, <1>9, <2>1, <3>1, <3>2, <3>3 DEF Server
  <2> QED
    BY <1>10, <1>11, <2>1

LEMMA ThreadKeepsServes ==
    ASSUME Serves, NEW t \in Threads, Invoke(t) \/ Acquire(t) \/ Holder(t) \/ SendTimeout(t)
    PROVE  Serves'
<1>1. UNCHANGED srv
  BY DEF Holder, Invoke, Acquire, Send, SendFails, SendTimeout, Recv, Accept, Reject, Drain,
     RecvTimeout, RecvEnds, net
<1> QED
  BY <1>1 DEF Serves

-----------------------------------------------------------------------------
(* Whatever goes wrong.                                                    *)

THEOREM Invariant == Spec => []LinkInv
<1>1. Init => LinkInv
  <2> SUFFICES ASSUME Init PROVE LinkInv
    OBVIOUS
  <2>1. Locked
    BY NamesAssumption DEF Init, Locked, Holding
  <2>2. Serves
    BY DEF Init, Serves, NextRequest
  <2>3. Streams
    <3>1. \A t \in Threads : pc[t] \notin {"recv", "check"}
      BY DEF Init
    <3>2. Stream(<<>>, srv.at, srv.reg)
      BY DEF Stream, Paired, Ended
    <3> QED
      BY <3>1, <3>2 DEF Init, Streams
  <2> QED
    BY <2>1, <2>2, <2>3, InitTypes DEF LinkInv
<1>2. LinkInv /\ [Next]_vars => LinkInv'
  <2> SUFFICES ASSUME LinkInv, [Next]_vars PROVE LinkInv'
    OBVIOUS
  <2> USE DEF LinkInv
  <2>1. ASSUME NEW t \in Threads, Invoke(t) \/ Acquire(t) \/ Holder(t) \/ SendTimeout(t)
        PROVE  LinkInv'
    BY <2>1, ThreadKeepsTypes, ThreadKeepsLock, ThreadKeepsServes, ThreadKeepsStreams
  <2>2. CASE Server \/ Crash \/ Stop \/ PlChange
    BY <2>2, ServerKeepsTypes, OthersKeepLock, OthersKeepStreams
  <2>3. CASE UNCHANGED vars
    <3>1. Types'
      BY <2>3 DEF vars, client, net, Types, ClientTypes, HistoryTypes, NetTypes, ServerTypes
    <3>2. Locked' /\ Serves'
      BY <2>3 DEF vars, client, net, Locked, Serves
    <3>3. Streams'
      <4>1. UNCHANGED <<up, srv, pc, got>>
        BY <2>3 DEF vars, client, net
      <4>2. \A t \in Threads : got'[t] \o up' = got[t] \o up
        BY <4>1
      <4> QED
        BY <4>1, <4>2 DEF Streams
    <3> QED
      BY <3>1, <3>2, <3>3
  <2> QED
    BY <2>1, <2>2, <2>3 DEF Next
<1> QED
  BY <1>1, <1>2, PTL DEF Spec

\* Every variable stays in its type, whatever answers are late, whatever
\* requests are torn and whenever the server is killed or the client stopped.
THEOREM TypeCorrect == Spec => []TypeOK
<1>1. LinkInv => TypeOK
  BY TypesSuffice DEF LinkInv
<1> QED
  BY <1>1, Invariant, PTL

\* A call ends with a result only when it is accepted.
LEMMA Accepted ==
    ASSUME LinkInv, Next, NEW t \in Threads, Answered(t)
    PROVE  Accept(t)
<1>1. pc \in [Threads -> {"idle", "wait"} \cup Holding] /\ result \in [Threads -> [ok : BOOLEAN, v : Word]]
  BY DEF LinkInv, Types, ClientTypes
<1>2. pc[t] # "idle" /\ pc'[t] = "idle" /\ result'[t].ok
  BY DEF Answered, InCall
<1>3. PICK u \in Threads : Invoke(u) \/ Acquire(u) \/ Holder(u) \/ SendTimeout(u)
  <2>1. ~(Server \/ Crash \/ Stop \/ PlChange)
    BY <1>2, OthersKeepLock DEF LinkInv
  <2> QED
    BY <2>1 DEF Next
<1>4. \A ok, v : Finish(u, ok, v) => u = t /\ ok = TRUE
  BY <1>1, <1>2 DEF Finish
<1>5. ~SendFails(u) /\ ~SendTimeout(u) /\ ~RecvTimeout(u) /\ ~RecvEnds(u)
  BY <1>4 DEF SendFails, SendTimeout, RecvTimeout, RecvEnds, Raise
<1>6. ~(Invoke(u) \/ Acquire(u) \/ Send(u) \/ Recv(u) \/ Reject(u) \/ Drain(u))
  <2>1. \A step \in {"wait", "send", "recv", "check", "drain"} :
           pc' # [pc EXCEPT ![u] = step] /\ pc' # pc
    BY <1>1, <1>2
  <2> QED
    BY <2>1 DEF Invoke, Acquire, Send, Recv, Reject, Drain, client
<1> QED
  BY <1>3, <1>4, <1>5, <1>6 DEF Holder, Accept

\* A read that is accepted returns a value of its own register and never a
\* piece of a header, however the streams were cut before (client.py:63).
THEOREM AnswersOwn == Spec => AnswersOwnRegister
<1> DEFINE Own == \A t \in Threads :
                     Answered(t) /\ call[t].op # "w" =>
                         got[t][3].k = "dat" /\ got[t][3].r = call[t].reg
<1>1. LinkInv /\ [Next]_vars => [Own]_vars
  <2> SUFFICES ASSUME LinkInv, Next, NEW t \in Threads, Answered(t), call[t].op # "w"
               PROVE  got[t][3].k = "dat" /\ got[t][3].r = call[t].reg
    OBVIOUS
  <2> USE DEF LinkInv
  <2>2. Accept(t)
    BY Accepted
  <2>3. /\ pc[t] = "check" /\ Len(got[t]) = 3 /\ HeaderMatches(t)
        /\ got[t] \in Seq(Unit) /\ up \in Seq(Unit) /\ call[t] \in Call
    BY <2>2 DEF Accept, Types, ClientTypes, NetTypes
  <2>4. got[t][1] = Ctl(call[t].op) /\ got[t][2] = Addr(call[t].reg)
    <3>1. call[t].op \in Ops /\ call[t].reg \in Regs \cup {Nowhere}
      BY <2>3 DEF Call, Ops
    <3> DEFINE h == Header(call[t].op, call[t].reg)
               p == SubSeq(got[t], 1, 2)
    <3>2. h[1] = Ctl(call[t].op) /\ h[2] = Addr(call[t].reg)
      BY <3>1, Headers
    <3>3. p[1] = got[t][1] /\ p[2] = got[t][2]
      BY <2>3, Pieces
    <3>4. p = h
      BY <2>3 DEF HeaderMatches
    <3> HIDE DEF p, h
    <3> QED
      BY <3>2, <3>3, <3>4
  <2>5. Begins(got[t][1]) /\ got[t][2].k = "addr" /\ got[t][2].r = call[t].reg
    BY <2>3, <2>4 DEF Begins, Ctl, Addr, AsCtl, Call
  <2> DEFINE z == got[t] \o up
  <2>6. Paired(z)
    BY <2>3 DEF Streams, Stream
  <2>7. /\ Len(z) = Len(got[t]) + Len(up) /\ Len(up) \in Nat
        /\ \A i \in 1..Len(got[t]) : z[i] = got[t][i]
    BY <2>3, Joined
  <2> HIDE DEF z
  <2>8. z[1] = got[t][1] /\ z[2] = got[t][2] /\ z[3] = got[t][3] /\ 1 \in 1..(Len(z) - 2)
    BY <2>3, <2>7
  <2>9. z[1 + 2].k = "dat" /\ z[1 + 2].r = z[1 + 1].r
    BY <2>5, <2>6, <2>8 DEF Paired
  <2> QED
    BY <2>5, <2>8, <2>9
<1> QED
  BY <1>1, Invariant, PTL DEF Spec, AnswersOwnRegister

-----------------------------------------------------------------------------
(* A conversation, step by step: first what the threads do.                *)

Prompt == "late" \notin Faults /\ "torn" \notin Faults

LEMMA Empty ==
    ASSUME NEW S, NEW s \in Seq(S)
    PROVE  s = <<>> <=> Len(s) = 0
  BY EmptySeq

LEMMA Lengths ==
    ASSUME Types, NEW t \in Threads
    PROVE  /\ Len(got[t]) \in Nat /\ Len(up) \in Nat /\ Len(down) \in Nat
           /\ up = <<>> <=> Len(up) = 0
           /\ down = <<>> <=> Len(down) = 0
           /\ got[t] = <<>> <=> Len(got[t]) = 0
           /\ call[t] \in Call /\ AnswerLength(call[t]) = IF call[t].op = "w" THEN 2 ELSE 3
<1>1. got[t] \in Seq(Unit) /\ up \in Seq(Unit) /\ down \in Seq(Unit) /\ call[t] \in Call
  BY DEF Types, ClientTypes, NetTypes
<1> QED
  BY <1>1, Empty, LenProperties DEF AnswerLength

\* Only what a thread sees makes a difference to its conversation.
LEMMA Overheard ==
    ASSUME NEW t \in Threads, Talking(t), UNCHANGED <<down, up, srv>>,
           pc'[t] = pc[t], call'[t] = call[t], got'[t] = got[t], served'[t] = served[t]
    PROVE  Talking(t)'
<1>1. Nothing' <=> Nothing
  BY DEF Nothing
<1>2. \A i : Expected(t, i)' = Expected(t, i)
  BY DEF Expected
<1>3. \A n : Sent(t, n)' <=> Sent(t, n)
  BY <1>2 DEF Sent
<1>4. /\ Requested(t)' <=> Requested(t)
      /\ Serving(t)' <=> Serving(t)
      /\ Responded(t)' <=> Responded(t)
      /\ Broken(t)' <=> Broken(t)
  BY <1>3 DEF Requested, Serving, Responded, Broken
<1>5. Waiting(t)' <=> Waiting(t)
  BY <1>4 DEF Waiting
<1>6. Checking(t)' <=> Checking(t)
  BY <1>2 DEF Checking, HeaderMatches
<1> QED
  BY <1>1, <1>5, <1>6 DEF Talking

LEMMA Silence ==
    ASSUME NEW t \in Threads, pc'[t] \notin Holding
    PROVE  Talking(t)'
BY DEF Talking, Holding

LEMMA FreshKept ==
    ASSUME NEW t \in Threads, Fresh(t), UNCHANGED fpga,
           pc'[t] \notin {"idle", "wait", "send"} \/ pc'[t] = pc[t], pc[t] # "idle" \/ pc'[t] = pc[t],
           call'[t] = call[t], served'[t] = served[t], window'[t] = window[t]
    PROVE  Fresh(t)'
BY DEF Fresh, InCall

LEMMA SentMoves ==
    ASSUME Types, NEW t \in Threads, Recv(t), NEW n, Sent(t, n)
    PROVE  Sent(t, n)'
<1>1. PICK k \in 1..Len(up) :
              /\ got'[t] \in Seq(Unit) /\ Len(got'[t]) = Len(got[t]) + k
              /\ \A i \in 1..Len(got[t]) : got'[t][i] = got[t][i]
              /\ \A i \in 1..k : got'[t][Len(got[t]) + i] = up[i]
              /\ up' \in Seq(Unit) /\ Len(up') = Len(up) - k
              /\ \A i \in 1..(Len(up) - k) : up'[i] = up[k + i]
              /\ Len(got[t]) \in Nat /\ Len(up) \in Nat
  BY RecvUnits
<1>2. \A i : Expected(t, i)' = Expected(t, i)
  BY DEF Recv, Expected
<1>3. Len(got'[t]) + Len(up') = n
  BY <1>1 DEF Sent
<1>4. ASSUME NEW i \in 1..Len(got'[t])
      PROVE  got'[t][i] = Expected(t, i)
  <2>1. CASE i <= Len(got[t])
    <3>1. i \in 1..Len(got[t])
      BY <1>1, <2>1
    <3> QED
      BY <1>1, <3>1 DEF Sent
  <2>2. CASE i > Len(got[t])
    <3> DEFINE j == i - Len(got[t])
    <3>1. j \in 1..k /\ j \in 1..Len(up) /\ i = Len(got[t]) + j
      BY <1>1, <2>2
    <3> HIDE DEF j
    <3>2. got'[t][Len(got[t]) + j] = up[j]
      BY <1>1, <3>1
    <3>3. up[j] = Expected(t, Len(got[t]) + j)
      BY <3>1 DEF Sent
    <3> QED
      BY <3>1, <3>2, <3>3
  <2> QED
    BY <1>1, <2>1, <2>2
<1>5. ASSUME NEW i \in 1..Len(up')
      PROVE  up'[i] = Expected(t, Len(got'[t]) + i)
  <2>1. i \in 1..(Len(up) - k) /\ k + i \in 1..Len(up)
    BY <1>1
  <2>2. up'[i] = up[k + i] /\ up[k + i] = Expected(t, Len(got[t]) + (k + i))
    BY <1>1, <2>1 DEF Sent
  <2>3. Len(got[t]) + (k + i) = Len(got'[t]) + i
    <3> DEFINE a == Len(got[t]) d == Len(got'[t])
    <3>1. i \in Nat /\ k \in Nat /\ a \in Nat /\ d = a + k
      BY <1>1
    <3> HIDE DEF a, d
    <3>2. a + (k + i) = d + i
      BY <3>1
    <3> QED
      BY <3>2 DEF a, d
  <2> QED
    BY <2>2, <2>3
<1> QED
  BY <1>2, <1>3, <1>4, <1>5 DEF Sent

\* Another thread's conversation, when t does what it does.
LEMMA Apart ==
    ASSUME Types, Locked, Conversation, NEW t \in Threads, NEW u \in Threads \ {t}, UNCHANGED fpga,
           pc[t] \in Holding \/ UNCHANGED <<down, up, srv>>,
           pc'[u] = pc[u], call'[u] = call[u], got'[u] = got[u], served'[u] = served[u],
           window'[u] = window[u]
    PROVE  Talking(u)' /\ Fresh(u)'
<1>1. Fresh(u)'
  BY FreshKept DEF Conversation
<1>2. CASE pc[t] \in Holding
  <2>1. pc'[u] \notin Holding
    BY <1>2 DEF Locked
  <2> QED
    BY <1>1, <2>1, Silence
<1>3. CASE UNCHANGED <<down, up, srv>>
  BY <1>1, <1>3, Overheard DEF Conversation
<1> QED
  BY <1>2, <1>3

LEMMA InvokeConverses ==
    ASSUME LinkInv, Conversation, NEW t \in Threads, Invoke(t)
    PROVE  Conversation'
<1> USE DEF LinkInv
<1>1. /\ pc[t] = "idle" /\ pc' = [pc EXCEPT ![t] = "wait"]
      /\ UNCHANGED <<lock, got, down, up, srv, fpga, served>>
  BY DEF Invoke, net
<1>2. PICK c \in Call : call' = [call EXCEPT ![t] = c] /\ window' = [window EXCEPT ![t] = {fpga[c.reg]}]
  BY DEF Invoke
<1>3. pc'[t] = "wait" /\ call'[t] = c /\ window'[t] = {fpga[c.reg]}
  BY <1>1, <1>2 DEF Types, ClientTypes, HistoryTypes
<1>4. Talking(t)'
  BY <1>3, Silence DEF Holding
<1>5. Fresh(t)'
  <2>1. served'[t] = Unserved /\ served'[t].v \in Vals
    BY <1>1 DEF Conversation, Fresh
  <2> QED
    BY <1>1, <1>3, <2>1 DEF Fresh, Unserved
<1>6. ASSUME NEW u \in Threads \ {t} PROVE Talking(u)' /\ Fresh(u)'
  BY <1>1, <1>2, Apart DEF Types, ClientTypes, HistoryTypes
<1>7. lock' = NoThread => Nothing'
  BY <1>1 DEF Conversation, Nothing
<1> QED
  BY <1>1, <1>4, <1>5, <1>6, <1>7 DEF Conversation

LEMMA AcquireConverses ==
    ASSUME LinkInv, Conversation, NEW t \in Threads, Acquire(t)
    PROVE  Conversation'
<1> USE DEF LinkInv
<1>1. /\ pc[t] = "wait" /\ pc' = [pc EXCEPT ![t] = "send"] /\ lock = NoThread /\ lock' = t
      /\ UNCHANGED <<call, got, down, up, srv, fpga, served, window>>
  BY DEF Acquire, net
<1>2. pc'[t] = "send" /\ \A u \in Threads \ {t} : pc'[u] = pc[u]
  BY <1>1 DEF Types, ClientTypes
<1>3. Nothing'
  BY <1>1 DEF Conversation, Nothing
<1>4. Talking(t)'
  BY <1>2, <1>3 DEF Talking
<1>5. Fresh(t)'
  BY <1>1, <1>2 DEF Fresh, Conversation, InCall
<1>6. ASSUME NEW u \in Threads \ {t} PROVE Talking(u)' /\ Fresh(u)'
  BY <1>1, <1>2, Apart
<1> QED
  BY <1>1, <1>3, <1>4, <1>5, <1>6 DEF Conversation

LEMMA SendConverses ==
    ASSUME LinkInv, Conversation, NEW t \in Threads, Send(t)
    PROVE  Conversation'
<1> USE DEF LinkInv
<1>1. /\ pc[t] = "send" /\ pc' = [pc EXCEPT ![t] = "recv"]
      /\ down' = (IF srv.at = "dead" THEN down ELSE down \o Request(call[t]))
      /\ UNCHANGED <<lock, call, got, up, srv, fpga, served, window>>
  BY DEF Send
<1>2. pc'[t] = "recv" /\ \A u \in Threads \ {t} : pc'[u] = pc[u]
  BY <1>1 DEF Types, ClientTypes
<1>3. pc[t] \in Holding /\ lock' # NoThread
  BY <1>1, NamesAssumption DEF Locked, Holding
<1>4. got[t] = <<>> /\ up = <<>> /\ srv.at \in {"header", "dead"} /\ (srv.at = "header" => down = <<>>)
  BY <1>1 DEF Locked, Conversation, Talking, Nothing
<1>5. ~served[t].done
  BY <1>1 DEF Conversation, Fresh, Unserved
<1>6. Len(got[t]) = 0 /\ Len(up) = 0
  BY <1>4, Lengths
<1>7. Sent(t, 0)'
  BY <1>1, <1>6 DEF Sent
<1>8. Waiting(t)'
  <2>1. CASE srv.at = "header"
    <3>1. down' = Request(call[t])
      <4>1. Request(call[t]) \in Seq(Unit)
        BY Requests, Lengths
      <4>2. <<>> \o Request(call[t]) = Request(call[t])
        BY <4>1, ConcatEmptySeq
      <4> QED
        BY <1>1, <1>4, <2>1, <4>2
    <3>2. Requested(t)'
      BY <1>1, <1>5, <1>7, <3>1 DEF Requested
    <3> QED
      BY <1>1, <1>4, <1>6, <2>1, <3>2 DEF Waiting, AnswerLength
  <2>2. CASE srv.at = "dead"
    <3>1. Broken(t)'
      BY <1>1, <1>7 DEF Broken, AnswerLength
    <3> QED
      BY <1>1, <1>4, <1>6, <2>2, <3>1 DEF Waiting, AnswerLength
  <2> QED
    BY <1>4, <2>1, <2>2
<1>9. Talking(t)'
  BY <1>2, <1>8 DEF Talking
<1>10. Fresh(t)'
  BY <1>1, <1>2, FreshKept DEF Conversation
<1>11. ASSUME NEW u \in Threads \ {t} PROVE Talking(u)' /\ Fresh(u)'
  BY <1>1, <1>2, <1>3, Apart
<1> QED
  BY <1>1, <1>3, <1>9, <1>10, <1>11 DEF Conversation

\* A conversation ends when nothing is in transit.
LEMMA FinishConverses ==
    ASSUME LinkInv, Conversation, Prompt, ~closed, NEW t \in Threads,
           SendFails(t) \/ SendTimeout(t) \/ Accept(t) \/ RecvTimeout(t) \/ RecvEnds(t)
    PROVE  Conversation' /\ Nothing
<1> USE DEF LinkInv
<1>1. /\ pc' = [pc EXCEPT ![t] = "idle"] /\ served' = [served EXCEPT ![t] = Unserved]
      /\ window' = [window EXCEPT ![t] = {}] /\ got' = [got EXCEPT ![t] = <<>>]
      /\ call' = call
      /\ pc[t] \in Holding
  BY Ends DEF Finish
<1>2. Talking(t)
  BY DEF Conversation
<1>3. Nothing
  <2>1. CASE SendFails(t)
    BY <1>2, <2>1 DEF SendFails, Talking
  <2>2. ~SendTimeout(t)
    BY DEF SendTimeout, Happens, Prompt
  <2>3. CASE Accept(t)
    BY <1>2, <2>3 DEF Accept, Talking, Checking, Nothing
  <2>4. CASE RecvTimeout(t)
    <3>1. up = <<>> /\ Silent /\ pc[t] \in {"recv", "drain"}
      BY <2>4 DEF RecvTimeout, Happens, Prompt
    <3>2. CASE pc[t] = "drain"
      BY <1>2, <3>1, <3>2 DEF Talking, Nothing
    <3>3. pc[t] # "recv"
      <4> SUFFICES ASSUME pc[t] = "recv" PROVE FALSE
        OBVIOUS
      <4>1. Waiting(t)
        BY <1>2 DEF Talking
      <4>2. Len(up) = 0 /\ Len(got[t]) \in Nat /\ call[t] \in Call
        BY <3>1, Lengths
      <4>3. CASE srv.at = "header"
        <5>1. ~Requested(t)
          <6>1. Len(Request(call[t])) >= 2
            BY <4>2, Requests
          <6> QED
            BY <3>1, <4>3, <6>1 DEF Silent, Requested
        <5>2. ~Responded(t)
          BY <4>1, <4>2 DEF Responded, Sent, Waiting, AnswerLength
        <5> QED
          BY <4>1, <4>3, <5>1, <5>2 DEF Waiting
      <4>4. CASE srv.at = "payload"
        <5>1. down = <<Dat(call[t].reg, call[t].val)>>
          BY <4>1, <4>4 DEF Waiting, Serving
        <5> QED
          BY <3>1, <4>4, <5>1 DEF Silent
      <4> QED
        BY <3>1, <4>3, <4>4 DEF Silent
    <3> QED
      BY <3>1, <3>2, <3>3
  <2>5. CASE RecvEnds(t)
    BY <2>5 DEF RecvEnds, Nothing
  <2> QED
    BY <2>1, <2>2, <2>3, <2>4, <2>5
<1>4. UNCHANGED <<down, up, srv, fpga>>
  <2>1. ~SendTimeout(t)
    BY DEF SendTimeout, Happens, Prompt
  <2> QED
    BY <2>1 DEF SendFails, Accept, RecvTimeout, RecvEnds, net
<1>5. Nothing'
  BY <1>3, <1>4 DEF Nothing
<1>6. /\ pc'[t] = "idle" /\ served'[t] = Unserved /\ window'[t] = {}
      /\ \A u \in Threads \ {t} : pc'[u] = pc[u] /\ got'[u] = got[u] /\ served'[u] = served[u]
                                  /\ window'[u] = window[u]
  BY <1>1 DEF Types, ClientTypes, HistoryTypes
<1>7. Talking(t)' /\ Fresh(t)'
  BY <1>6, Silence, NoValIsValue DEF Holding, Fresh, InCall, Unserved
<1>8. ASSUME NEW u \in Threads \ {t} PROVE Talking(u)' /\ Fresh(u)'
  BY <1>1, <1>4, <1>6, Apart
<1> QED
  BY <1>3, <1>4, <1>5, <1>7, <1>8 DEF Conversation

LEMMA RecvConverses ==
    ASSUME LinkInv, Conversation, NEW t \in Threads, Recv(t)
    PROVE  Conversation'
<1> USE DEF LinkInv
<1>1. /\ pc[t] = "recv"
      /\ pc' = [pc EXCEPT ![t] = IF call[t].op = "w" \/ Len(got'[t]) = 3 THEN "check" ELSE "recv"]
      /\ UNCHANGED <<lock, call, down, srv, fpga, served, window>>
  BY DEF Recv
<1>2. PICK k \in 1..Len(up) :
         /\ k <= AnswerLength(call[t]) - Len(got[t])
         /\ got' = [got EXCEPT ![t] = got[t] \o SubSeq(up, 1, k)]
         /\ got'[t] \in Seq(Unit) /\ Len(got'[t]) = Len(got[t]) + k
         /\ up' \in Seq(Unit) /\ Len(up') = Len(up) - k
  BY RecvUnits
<1>3. /\ \/ pc'[t] = "recv" /\ call[t].op # "w" /\ Len(got'[t]) # 3
         \/ pc'[t] = "check" /\ (call[t].op = "w" \/ Len(got'[t]) = 3)
      /\ \A u \in Threads \ {t} : pc'[u] = pc[u] /\ got'[u] = got[u]
  <2> DEFINE done == call[t].op = "w" \/ Len(got'[t]) = 3
  <2>1. \A u \in Threads \ {t} : got'[u] = got[u] /\ pc'[u] = pc[u]
    BY <1>1, <1>2 DEF Types, ClientTypes
  <2>2. pc'[t] = IF done THEN "check" ELSE "recv"
    BY <1>1 DEF Types, ClientTypes
  <2>3. CASE done
    BY <2>1, <2>2, <2>3
  <2>4. CASE ~done
    <3>1. pc'[t] = "recv"
      BY <2>2, <2>4
    <3>2. call[t].op # "w" /\ Len(got'[t]) # 3
      BY <2>4
    <3> QED
      BY <2>1, <3>1, <3>2
  <2> QED
    BY <2>3, <2>4
<1>4. pc[t] \in Holding /\ lock' # NoThread
  BY <1>1, NamesAssumption DEF Locked, Holding
<1>5. Waiting(t)
  BY <1>1 DEF Conversation, Talking
<1>6. /\ Len(got[t]) \in Nat /\ Len(up) \in Nat /\ k \in Nat /\ k > 0 /\ k <= Len(up)
      /\ call[t].op \in {"r", "d", "w"}
      /\ AnswerLength(call[t]) = IF call[t].op = "w" THEN 2 ELSE 3
      /\ Len(got'[t]) + Len(up') = Len(got[t]) + Len(up)
      /\ Len(got'[t]) \in Nat /\ Len(got'[t]) > 0 /\ Len(got'[t]) <= AnswerLength(call[t])
  <2> DEFINE g == Len(got[t]) g1 == Len(got'[t]) w == Len(up) w1 == Len(up')
  <2>1. call[t].op \in {"r", "d", "w"} /\ AnswerLength(call[t]) = IF call[t].op = "w" THEN 2 ELSE 3
    BY Lengths DEF Call
  <2>2. /\ g \in Nat /\ w \in Nat /\ k \in 1..w /\ g1 = g + k /\ w1 = w - k
        /\ k <= AnswerLength(call[t]) - g /\ AnswerLength(call[t]) \in Nat
    BY <1>2, <2>1, Lengths
  <2> HIDE DEF g, g1, w, w1
  <2>3. k \in Nat /\ k > 0 /\ k <= w /\ g1 + w1 = g + w /\ g1 \in Nat /\ g1 > 0 /\ g1 <= AnswerLength(call[t])
    BY <2>2
  <2> QED
    BY <2>1, <2>2, <2>3 DEF g, g1, w, w1
\* Either the whole answer was sent, or the server is at the data of one
\* from RAM, or it was killed.
<1>7. PICK n \in 0..3 :
         /\ Sent(t, n) /\ n > 0 /\ n <= AnswerLength(call[t])
         /\ n > (IF call[t].op = "d" THEN 2 ELSE 0) => served[t].done
         /\ \/ srv.at = "header" /\ down = <<>> /\ n = AnswerLength(call[t]) /\ served[t].done
            \/ srv.at = "dead"
            \/ srv.at = "ramdata" /\ n = 2 /\ call[t].op = "d" /\ Serving(t)
  <2>1. CASE srv.at = "header"
    <3>1. ~Requested(t)
      BY <1>6 DEF Requested, Sent
    <3>2. Responded(t)
      BY <1>5, <2>1, <3>1 DEF Waiting
    <3> QED
      BY <1>6, <2>1, <3>2 DEF Responded
  <2>2. CASE srv.at = "dead"
    <3>1. PICK n \in 0..3 :
            /\ Sent(t, n) /\ n <= AnswerLength(call[t])
            /\ n > (IF call[t].op = "d" THEN 2 ELSE 0) => served[t].done
      BY <1>5, <2>2 DEF Waiting, Broken
    <3>2. n > 0
      BY <1>6, <3>1 DEF Sent
    <3> QED
      BY <2>2, <3>1, <3>2
  <2>3. CASE srv.at \notin {"header", "dead"}
    <3>1. Serving(t)
      BY <1>5, <2>3 DEF Waiting
    <3>2. srv.at = "ramdata"
      BY <1>6, <3>1 DEF Serving, Sent
    <3>3. Sent(t, 2) /\ call[t].op = "d"
      BY <3>1, <3>2 DEF Serving, Serves
    <3> QED
      BY <1>6, <3>1, <3>2, <3>3
  <2> QED
    BY <2>1, <2>2, <2>3
<1>8. Sent(t, n)'
  BY <1>7, SentMoves
<1>9. ASSUME pc'[t] = "recv" PROVE Waiting(t)'
  <2>1. call[t].op # "w" /\ Len(got'[t]) < AnswerLength(call[t])
    <3>1. call[t].op # "w" /\ Len(got'[t]) # 3
      BY <1>3, <1>9
    <3>2. AnswerLength(call[t]) = 3
      BY <3>1 DEF AnswerLength
    <3> DEFINE g1 == Len(got'[t])
    <3>3. g1 \in Nat /\ g1 <= 3 /\ g1 # 3
      BY <1>6, <3>1, <3>2
    <3> HIDE DEF g1
    <3>4. g1 < 3
      BY <3>3
    <3> QED
      BY <3>1, <3>2, <3>4 DEF g1
  <2>2. CASE srv.at = "header"
    <3>1. Responded(t)'
      BY <1>1, <1>7, <1>8, <2>2 DEF Responded
    <3> QED
      BY <1>1, <2>1, <2>2, <3>1 DEF Waiting
  <2>3. CASE srv.at = "dead"
    <3>1. Broken(t)'
      BY <1>1, <1>7, <1>8 DEF Broken
    <3> QED
      BY <1>1, <2>1, <2>3, <3>1 DEF Waiting
  <2>4. CASE srv.at = "ramdata"
    <3>1. Serving(t)'
      BY <1>1, <1>7, <1>8, <2>4 DEF Serving
    <3> QED
      BY <1>1, <2>1, <2>4, <3>1 DEF Waiting
  <2> QED
    BY <1>7, <2>2, <2>3, <2>4
<1>10. ASSUME pc'[t] = "check" PROVE Checking(t)'
  <2>1. Len(got'[t]) + Len(up') = n /\ Len(got'[t]) \in Nat /\ Len(up') \in Nat
    BY <1>2, <1>6, <1>8 DEF Sent
  <2>0. \/ call[t].op = "w" /\ n <= 2
        \/ Len(got'[t]) = 3 /\ n = 3 /\ Len(up') = 0
    <3>1. CASE call[t].op = "w"
      <4>1. AnswerLength(call[t]) = 2
        BY <3>1 DEF AnswerLength
      <4> QED
        BY <1>7, <3>1, <4>1
    <3>2. CASE call[t].op # "w"
      <4>1. Len(got'[t]) = 3
        BY <1>3, <1>10, <3>2
      <4> QED
        BY <2>1, <4>1
    <3> QED
      BY <3>1, <3>2
  <2>2. served[t].done /\ srv.at \in {"header", "dead"} /\ (srv.at = "header" => down = <<>>)
    BY <1>7, <2>0
  <2>3. HeaderMatches(t)' => up' = <<>>
    <3>1. Len(got'[t]) >= 2 => Len(up') = 0
      BY <2>0, <2>1
    <3>2. Len(up') = 0 => up' = <<>>
      BY <1>2, Empty
    <3> QED
      BY <3>1, <3>2 DEF HeaderMatches
  <2>4. \A i \in 1..Len(got'[t]) : got'[t][i] = Expected(t, i)'
    BY <1>8 DEF Sent
  <2>5. Len(got'[t]) > 0 /\ Len(got'[t]) + Len(up') <= AnswerLength(call[t])
    BY <1>6, <1>7, <2>1
  <2> QED
    BY <1>1, <2>2, <2>3, <2>4, <2>5 DEF Checking
<1>11. Talking(t)'
  BY <1>3, <1>9, <1>10 DEF Talking
<1>12. Fresh(t)'
  BY <1>1, <1>3, FreshKept DEF Conversation
<1>13. ASSUME NEW u \in Threads \ {t} PROVE Talking(u)' /\ Fresh(u)'
  BY <1>1, <1>3, <1>4, Apart
<1> QED
  BY <1>1, <1>4, <1>11, <1>12, <1>13 DEF Conversation

LEMMA ClearConverses ==
    ASSUME LinkInv, Conversation, NEW t \in Threads, Reject(t) \/ Drain(t)
    PROVE  Conversation'
<1> USE DEF LinkInv
<1>1. /\ pc[t] \in {"check", "drain"} /\ pc' = [pc EXCEPT ![t] = "drain"]
      /\ UNCHANGED <<lock, call, got, down, srv, fpga, served, window>>
  BY DEF Reject, Drain, client, net, Types, ClientTypes
<1>2. pc'[t] = "drain" /\ \A u \in Threads \ {t} : pc'[u] = pc[u]
  BY <1>1 DEF Types, ClientTypes
<1>3. pc[t] \in Holding /\ lock' # NoThread
  BY <1>1, NamesAssumption DEF Locked, Holding
<1>4. srv.at \in {"header", "dead"} /\ (srv.at = "header" => down = <<>>)
  BY <1>1 DEF Conversation, Talking, Checking
<1>5. Talking(t)'
  BY <1>1, <1>2, <1>4 DEF Talking
<1>6. Fresh(t)'
  BY <1>1, <1>2, FreshKept DEF Conversation
<1>7. ASSUME NEW u \in Threads \ {t} PROVE Talking(u)' /\ Fresh(u)'
  BY <1>1, <1>2, <1>3, Apart
<1> QED
  BY <1>1, <1>3, <1>5, <1>6, <1>7 DEF Conversation

-----------------------------------------------------------------------------
(* ... and then what the server does.  It acts only while a thread waits   *)
(* for the answer to the request that it is at.                            *)

LEMMA Acting ==
    ASSUME LinkInv, Conversation, ~closed, Server
    PROVE  \E t \in Threads :
              /\ lock = t /\ pc[t] = "recv" /\ Waiting(t)
              /\ \/ srv.at = "header" /\ Requested(t)
                 \/ srv.at \notin {"header", "dead"} /\ Serving(t)
<1> USE DEF LinkInv
<1>1. /\ srv.at # "dead"
      /\ srv.at = "header" => Len(down) >= 2 /\ down # <<>>
  <2>1. Len(<<>>) = 0
    OBVIOUS
  <2> QED
    BY <2>1 DEF Server, ReadHeader, FetchValues, SendAnswer, SendRamHeader, SendRam, ReadPayload,
       StoreValues, ServerEof
<1>2. lock # NoThread
  BY <1>1 DEF Conversation, Nothing
<1> DEFINE t == lock
<1>3. t \in Threads /\ pc[t] \in Holding
  BY <1>2 DEF Types, ClientTypes, Locked
<1>4. Talking(t)
  BY <1>3 DEF Conversation
<1>5. pc[t] = "recv"
  BY <1>1, <1>3, <1>4 DEF Talking, Nothing, Checking, Holding
<1>6. Waiting(t)
  BY <1>4, <1>5 DEF Talking
<1>7. srv.at = "header" => Requested(t)
  BY <1>1, <1>6 DEF Waiting, Responded
<1>8. srv.at # "header" => Serving(t)
  BY <1>1, <1>6 DEF Waiting
<1> QED
  BY <1>1, <1>3, <1>5, <1>6, <1>7, <1>8

\* The conversations of all threads, after a step of the server for t.
LEMMA ServerKeeps ==
    ASSUME Locked, Types, NEW t \in Threads, lock = t, pc[t] = "recv",
           UNCHANGED <<lock, pc, call, got>>, Waiting(t)',
           fpga' \in [Regs -> Vals], \A u \in Threads : Fresh(u)'
    PROVE  Conversation'
<1>1. \A u \in Threads \ {t} : pc'[u] \notin Holding
  BY DEF Locked, Holding
<1>2. Talking(t)'
  BY DEF Talking
<1>3. \A u \in Threads \ {t} : Talking(u)'
  BY <1>1, Silence
<1>4. lock' # NoThread
  BY NamesAssumption
<1> QED
  BY <1>2, <1>3, <1>4 DEF Conversation

\* A read is executed with the value that its register has.
LEMMA FreshServed ==
    ASSUME Types, Conversation, NEW t \in Threads, pc[t] = "recv",
           served' = [served EXCEPT ![t] = [done |-> TRUE, v |-> fpga[call[t].reg]]],
           UNCHANGED <<pc, call, fpga, window>>
    PROVE  \A u \in Threads : Fresh(u)'
<1>1. call[t].reg \in Regs
  BY DEF Types, ClientTypes, Call
<1>2. Fresh(t)'
  <2>1. served'[t].v = fpga[call[t].reg] /\ fpga[call[t].reg] \in Vals
    BY <1>1 DEF Types, HistoryTypes, Conversation
  <2>2. fpga[call[t].reg] \in window[t]
    BY DEF Conversation, Fresh, InCall
  <2> QED
    BY <2>1, <2>2 DEF Fresh, InCall
<1>3. \A u \in Threads \ {t} : Fresh(u)'
  BY FreshKept DEF Conversation, Types, HistoryTypes
<1> QED
  BY <1>2, <1>3

\* A register changes, for all the threads that are in a call.
LEMMA FreshWitness ==
    ASSUME Types, Conversation, NEW u \in Threads, Witness, fpga' \in [Regs -> Vals],
           UNCHANGED <<pc, call>>,
           \/ served'[u] = served[u]
           \/ call[u].op = "w" /\ served'[u].v \in Vals /\ pc[u] = "recv"
    PROVE  Fresh(u)'
<1>1. Fresh(u) /\ call[u].reg \in Regs
  BY DEF Conversation, Types, ClientTypes, Call
<1>2. InCall(u) => window'[u] = window[u] \cup {fpga'[call[u].reg]}
  BY DEF Witness
<1>3. ~InCall(u) => window'[u] = window[u]
  BY DEF Witness
<1>4. window[u] \subseteq window'[u]
  BY <1>2, <1>3
<1>5. InCall(u)' => fpga'[call'[u].reg] \in window'[u]
  BY <1>2 DEF InCall
<1>6. CASE served'[u] = served[u]
  BY <1>1, <1>4, <1>5, <1>6 DEF Fresh
<1>7. CASE call[u].op = "w" /\ served'[u].v \in Vals /\ pc[u] = "recv"
  BY <1>5, <1>7 DEF Fresh
<1> QED
  BY <1>6, <1>7

\* Nothing of an answer has been sent.
LEMMA SentNothing ==
    ASSUME Types, NEW t \in Threads
    PROVE  /\ Sent(t, 0) <=> got[t] = <<>> /\ up = <<>>
           /\ UNCHANGED <<got, up>> => (Sent(t, 0)' <=> Sent(t, 0))
<1>1. Sent(t, 0) <=> Len(got[t]) = 0 /\ Len(up) = 0
  BY Lengths DEF Sent
<1>2. UNCHANGED <<got, up>> => (Sent(t, 0)' <=> Len(got[t]) = 0 /\ Len(up) = 0)
  BY Lengths DEF Sent
<1> QED
  BY <1>1, <1>2, Lengths

LEMMA HeaderConverses ==
    ASSUME LinkInv, Conversation, ~closed, ReadHeader
    PROVE  Conversation'
<1> USE DEF LinkInv
<1>1. PICK t \in Threads :
         lock = t /\ pc[t] = "recv" /\ Waiting(t) /\ srv.at = "header" /\ Requested(t)
  BY Acting DEF Server, ReadHeader
<1>2. /\ call[t] \in Call /\ call[t].op \in {"r", "d", "w"} /\ call[t].reg \in Regs /\ call[t].val \in Word
      /\ down = Request(call[t]) /\ Sent(t, 0) /\ ~served[t].done
  BY <1>1 DEF Requested, Types, ClientTypes, Call, Word
<1>3. /\ down \in Seq(Unit) /\ Len(down) = IF call[t].op = "w" THEN 3 ELSE 2
      /\ down[1] = Ctl(call[t].op) /\ down[2] = Addr(call[t].reg)
      /\ call[t].op = "w" => down[3] = Dat(call[t].reg, call[t].val)
  BY <1>2, Requests
<1>4. AsCtl(down[1]) = call[t].op /\ AsAddr(down[2]) = call[t].reg
  BY <1>2, <1>3, Units DEF Ops
<1>5. UNCHANGED <<lock, pc, call, got, up, fpga, served, window>> /\ down' = Rest(down, 2)
  BY DEF ReadHeader, client
<1>6. /\ srv'.op = call[t].op /\ srv'.reg = call[t].reg
      /\ srv'.at = CASE call[t].op = "r" -> "fetch" [] call[t].op = "d" -> "ram" [] OTHER -> "payload"
  <2>1. CASE call[t].op = "r"
    BY <1>4, <2>1 DEF ReadHeader, Types, ServerTypes
  <2>2. CASE call[t].op = "d"
    BY <1>4, <2>2 DEF ReadHeader, Types, ServerTypes
  <2>3. CASE call[t].op = "w"
    BY <1>4, <2>3 DEF ReadHeader, Types, ServerTypes
  <2> QED
    BY <1>2, <2>1, <2>2, <2>3
<1>7. down' = IF call[t].op = "w" THEN <<Dat(call[t].reg, call[t].val)>> ELSE <<>>
  <2> DEFINE d == Rest(down, 2)
  <2>1. 2 \in 0..Len(down)
    BY <1>3
  <2>2. d \in Seq(Unit) /\ Len(d) = Len(down) - 2 /\ \A i \in 1..(Len(down) - 2) : d[i] = down[2 + i]
    BY <1>3, <2>1, Pieces
  <2> HIDE DEF d
  <2>3. CASE call[t].op = "w"
    <3> DEFINE e == <<Dat(call[t].reg, call[t].val)>>
    <3>1. e \in Seq(Unit) /\ Len(e) = 1 /\ e[1] = Dat(call[t].reg, call[t].val)
      BY <1>2, Units, Single DEF Ops
    <3> HIDE DEF e
    <3>2. Len(d) = 1 /\ d[1] = Dat(call[t].reg, call[t].val)
      BY <1>3, <2>2, <2>3
    <3>3. d = e
      BY <2>2, <3>1, <3>2, SeqEqual
    <3> QED
      BY <1>5, <2>3, <3>3 DEF d, e
  <2>4. CASE call[t].op # "w"
    <3>1. Len(d) = 0
      BY <1>3, <2>2, <2>4
    <3> QED
      BY <1>5, <2>2, <2>4, <3>1, Empty DEF d
  <2> QED
    BY <2>3, <2>4
<1>8. Sent(t, 0)'
  BY <1>2, <1>5, SentNothing
<1>9. srv'.at \in {"fetch", "ram", "payload"} /\ (srv'.at = "payload" <=> call[t].op = "w")
  BY <1>2, <1>6
<1>10. Serving(t)'
  BY <1>2, <1>5, <1>6, <1>7, <1>8, <1>9 DEF Serving
<1>11. Waiting(t)'
  BY <1>1, <1>5, <1>9, <1>10 DEF Waiting
<1>12. ASSUME NEW u \in Threads PROVE Fresh(u)'
  BY <1>5, FreshKept DEF Conversation
<1> QED
  BY <1>1, <1>5, <1>11, <1>12, ServerKeeps DEF Conversation

\* What holds of the server's later steps.
LEMMA ActingOn ==
    ASSUME LinkInv, Conversation, ~closed, Server, srv.at # "header"
    PROVE  \E t \in Threads :
              /\ lock = t /\ pc[t] = "recv" /\ Waiting(t) /\ Serving(t)
              /\ call[t] \in Call /\ call[t].op \in {"r", "d", "w"} /\ call[t].reg \in Regs
              /\ call[t].val \in Vals /\ srv.op = call[t].op /\ srv.reg = call[t].reg
<1>1. PICK t \in Threads : lock = t /\ pc[t] = "recv" /\ Waiting(t) /\ Serving(t)
  BY Acting
<1>2. /\ call[t] \in Call /\ call[t].op \in {"r", "d", "w"} /\ call[t].reg \in Regs
      /\ call[t].val \in Vals
  BY DEF LinkInv, Types, ClientTypes, Call
<1>3. srv.op = call[t].op /\ srv.reg = call[t].reg
  BY <1>1 DEF Serving
<1> QED
  BY <1>1, <1>2, <1>3

LEMMA FetchConverses ==
    ASSUME LinkInv, Conversation, ~closed, FetchValues
    PROVE  Conversation'
<1> USE DEF LinkInv
<1>1. PICK t \in Threads :
         /\ lock = t /\ pc[t] = "recv" /\ Waiting(t) /\ Serving(t)
         /\ call[t].reg \in Regs /\ srv.op = call[t].op /\ srv.reg = call[t].reg
  BY ActingOn DEF Server, FetchValues
<1>2. /\ srv.at = "fetch" /\ srv' = [srv EXCEPT !.at = "answer", !.buf = fpga[call[t].reg]]
      /\ served' = [served EXCEPT ![t] = [done |-> TRUE, v |-> fpga[call[t].reg]]]
      /\ UNCHANGED <<lock, pc, call, got, down, up, fpga, window>>
  BY <1>1, NamesAssumption DEF FetchValues, Executed, client, net
<1>3. /\ srv'.at = "answer" /\ srv'.op = srv.op /\ srv'.reg = srv.reg /\ srv'.buf = fpga[call[t].reg]
      /\ served'[t].done /\ served'[t].v = fpga[call[t].reg]
  BY <1>2 DEF Types, ServerTypes, HistoryTypes
<1>4. Sent(t, 0)' /\ down = <<>>
  BY <1>1, <1>2, SentNothing DEF Serving
<1>5. Serving(t)'
  BY <1>1, <1>2, <1>3, <1>4 DEF Serving
<1>6. Waiting(t)'
  BY <1>1, <1>2, <1>3, <1>5 DEF Waiting
<1>7. \A u \in Threads : Fresh(u)'
  BY <1>1, <1>2, FreshServed
<1> QED
  BY <1>1, <1>2, <1>6, <1>7, ServerKeeps DEF Conversation

LEMMA PayloadConverses ==
    ASSUME LinkInv, Conversation, ~closed, ReadPayload
    PROVE  Conversation'
<1> USE DEF LinkInv
<1>1. PICK t \in Threads :
         /\ lock = t /\ pc[t] = "recv" /\ Waiting(t) /\ Serving(t)
         /\ call[t].reg \in Regs /\ call[t].val \in Vals /\ srv.op = call[t].op /\ srv.reg = call[t].reg
  BY ActingOn DEF Server, ReadPayload
<1>2. /\ srv.at = "payload" /\ srv' = [srv EXCEPT !.at = "store", !.buf = AsData(down[1])]
      /\ down' = Rest(down, 1)
      /\ UNCHANGED <<lock, pc, call, got, up, fpga, served, window>>
  BY DEF ReadPayload, client
<1>3. down = <<Dat(call[t].reg, call[t].val)>> /\ Sent(t, 0) /\ ~served[t].done
  BY <1>1, <1>2 DEF Serving
<1>4. Len(down) = 1 /\ AsData(down[1]) = call[t].val
  BY <1>3 DEF AsData, Dat
<1>5. down' = <<>>
  <2>1. down \in Seq(Unit) /\ 1 \in 0..Len(down)
    BY <1>4 DEF Types, NetTypes
  <2>2. Rest(down, 1) \in Seq(Unit) /\ Len(Rest(down, 1)) = Len(down) - 1
    BY <2>1, Pieces
  <2> QED
    BY <1>2, <1>4, <2>2, Empty
<1>6. srv'.at = "store" /\ srv'.op = srv.op /\ srv'.reg = srv.reg /\ srv'.buf = call[t].val
  BY <1>2, <1>4 DEF Types, ServerTypes
<1>7. Sent(t, 0)'
  BY <1>2, <1>3, SentNothing
<1>8. Serving(t)'
  BY <1>1, <1>2, <1>3, <1>5, <1>6, <1>7 DEF Serving
<1>9. Waiting(t)'
  BY <1>1, <1>2, <1>6, <1>8 DEF Waiting
<1>10. ASSUME NEW u \in Threads PROVE Fresh(u)'
  BY <1>2, FreshKept DEF Conversation
<1> QED
  BY <1>1, <1>2, <1>9, <1>10, ServerKeeps DEF Conversation

LEMMA StoreConverses ==
    ASSUME LinkInv, Conversation, ~closed, StoreValues
    PROVE  Conversation'
<1> USE DEF LinkInv
<1>1. PICK t \in Threads :
         /\ lock = t /\ pc[t] = "recv" /\ Waiting(t) /\ Serving(t)
         /\ call[t].reg \in Regs /\ call[t].val \in Vals /\ srv.op = call[t].op /\ srv.reg = call[t].reg
  BY ActingOn DEF Server, StoreValues
<1>2. srv.at = "store" /\ srv.buf = call[t].val /\ srv.op = "w" /\ Sent(t, 0) /\ down = <<>>
  BY <1>1 DEF StoreValues, Serving, Serves
<1>3. /\ srv' = [srv EXCEPT !.at = "answer"]
      /\ served' = [served EXCEPT ![t] = [done |-> TRUE, v |-> call[t].val]]
      /\ fpga' = [fpga EXCEPT ![call[t].reg] = call[t].val]
      /\ Witness
      /\ UNCHANGED <<lock, pc, call, got, down, up>>
  BY <1>1, <1>2, NamesAssumption DEF StoreValues, Executed, client, net
<1>4. /\ srv'.at = "answer" /\ srv'.op = srv.op /\ srv'.reg = srv.reg
      /\ served'[t].done /\ served'[t].v = call[t].val
      /\ \A u \in Threads \ {t} : served'[u] = served[u]
  BY <1>3 DEF Types, ServerTypes, HistoryTypes
<1>5. fpga' \in [Regs -> Vals]
  BY <1>1, <1>3 DEF Conversation
<1>6. Sent(t, 0)'
  BY <1>2, <1>3, SentNothing
<1>7. Serving(t)'
  BY <1>1, <1>2, <1>3, <1>4, <1>6 DEF Serving
<1>8. Waiting(t)'
  BY <1>1, <1>3, <1>4, <1>7 DEF Waiting
<1>9. ASSUME NEW u \in Threads PROVE Fresh(u)'
  <2>1. \/ served'[u] = served[u]
        \/ call[u].op = "w" /\ served'[u].v \in Vals /\ pc[u] = "recv"
    BY <1>1, <1>2, <1>4
  <2> QED
    BY <1>3, <1>5, <2>1, FreshWitness
<1> QED
  BY <1>1, <1>3, <1>5, <1>8, <1>9, ServerKeeps

\* The server sends the next units of the answer.
LEMMA SentMore ==
    ASSUME Types, NEW t \in Threads, NEW n \in Nat, Sent(t, n), NEW m \in Seq(Unit), NEW l,
           l = n + Len(m), up' = up \o m, got'[t] = got[t],
           \A i \in 1..n : Expected(t, i)' = Expected(t, i),
           \A i \in 1..Len(m) : m[i] = Expected(t, n + i)'
    PROVE  Sent(t, l)'
<1>1. up \in Seq(Unit) /\ Len(got[t]) \in Nat
  BY Lengths DEF Types, NetTypes
<1>2. PICK z \in Seq(Unit), w \in Nat, k \in Nat :
         /\ up' = z /\ w = Len(up) /\ k = Len(m) /\ Len(z) = w + k
         /\ \A i \in 1..w : z[i] = up[i]
         /\ \A i \in 1..k : z[w + i] = m[i]
  <2> DEFINE z == up \o m
  <2>1. /\ z \in Seq(Unit) /\ Len(z) = Len(up) + Len(m)
        /\ \A i \in 1..Len(up) : z[i] = up[i]
        /\ \A i \in 1..Len(m) : z[Len(up) + i] = m[i]
        /\ Len(up) \in Nat /\ Len(m) \in Nat
    BY ONLY <1>1, m \in Seq(Unit), Joined
  <2>2. up' = z
    OBVIOUS
  <2> HIDE DEF z
  <2> QED
    BY <2>1, <2>2
<1>3. PICK g \in Nat : g = Len(got[t]) /\ g + w = n
  BY <1>1, <1>2 DEF Sent
<1>4. \A i \in 1..g : got[t][i] = Expected(t, i)
  BY <1>3 DEF Sent
<1>5. \A i \in 1..w : up[i] = Expected(t, g + i)
  BY <1>2, <1>3 DEF Sent
<1>6. \A i \in 1..k : m[i] = Expected(t, n + i)'
  BY <1>2
<1>7. up' = z /\ l = n + k /\ g = Len(got'[t])
  BY <1>2, <1>3
<1>8. ASSUME NEW i \in 1..g PROVE got[t][i] = Expected(t, i)'
  <2>1. i \in 1..n
    BY <1>2, <1>3
  <2> QED
    BY <1>4, <2>1
<1>9. ASSUME NEW i \in 1..Len(z) PROVE z[i] = Expected(t, g + i)'
  <2>1. CASE i <= w
    <3>1. i \in 1..w /\ g + i \in 1..n
      BY <1>2, <1>3, <2>1
    <3>2. Expected(t, g + i)' = Expected(t, g + i)
      BY <3>1
    <3> QED
      BY <1>2, <1>5, <3>1, <3>2
  <2>2. CASE i > w
    <3>1. PICK j \in 1..k : i = w + j /\ n + j = g + i
      <4>1. i - w \in 1..k /\ i = w + (i - w) /\ n + (i - w) = g + i
        <5>1. i \in Nat /\ i <= w + k /\ i > w /\ n = g + w
          BY <1>2, <1>3, <2>2
        <5> QED
          BY ONLY <5>1, g \in Nat, w \in Nat, k \in Nat
      <4> QED
        BY <4>1
    <3> QED
      BY <1>2, <1>6, <3>1
  <2> QED
    BY <1>2, <2>1, <2>2
<1>10. g + Len(z) = l
  <2>1. l = g + (w + k)
    <3>1. l = n + k /\ n = g + w
      BY <1>3, <1>7
    <3> QED
      BY ONLY <3>1, g \in Nat, w \in Nat, k \in Nat
  <2> QED
    BY <1>2, <2>1
<1> QED
  BY <1>7, <1>8, <1>9, <1>10 DEF Sent

LEMMA AnswerConverses ==
    ASSUME LinkInv, Conversation, ~closed, SendAnswer
    PROVE  Conversation'
<1> USE DEF LinkInv
<1>1. PICK t \in Threads :
         /\ lock = t /\ pc[t] = "recv" /\ Waiting(t) /\ Serving(t)
         /\ call[t].reg \in Regs /\ srv.op = call[t].op /\ srv.reg = call[t].reg
  BY ActingOn DEF Server, SendAnswer
<1>2. /\ srv.at = "answer" /\ srv.op \in {"r", "w"} /\ srv'.at = "header"
      /\ UNCHANGED <<lock, pc, call, got, down, fpga, served, window>>
  BY DEF SendAnswer, Serves, client, NextRequest, Types, ServerTypes
<1>3. Sent(t, 0) /\ down = <<>> /\ served[t].done /\ (srv.op = "r" => srv.buf = served[t].v)
  BY <1>1, <1>2 DEF Serving
<1>4. PICK a \in Seq(Unit) :
         /\ up' = up \o a /\ Len(a) = AnswerLength(call[t])
         /\ a[1] = Ctl(srv.op) /\ a[2] = Addr(srv.reg)
         /\ srv.op = "r" => a[3] = Dat(srv.reg, srv.buf)
  <2> DEFINE a == Header(srv.op, srv.reg) \o
                  (IF srv.op = "r" THEN <<Dat(srv.reg, srv.buf)>> ELSE <<>>)
  <2>1. /\ a \in Seq(Unit) /\ Len(a) = IF srv.op = "r" THEN 3 ELSE 2
        /\ a[1] = Ctl(srv.op) /\ a[2] = Addr(srv.reg)
        /\ srv.op = "r" => a[3] = Dat(srv.reg, srv.buf)
    BY Answers DEF Types, ServerTypes
  <2>2. up' = up \o a
    BY SendAnswerUnits
  <2> HIDE DEF a
  <2> QED
    BY <1>1, <1>2, <2>1, <2>2 DEF AnswerLength
<1>5. AnswerLength(call[t]) = 0 + Len(a)
  BY <1>4 DEF AnswerLength
<1>6. ASSUME NEW i \in 1..Len(a) PROVE a[i] = Expected(t, 0 + i)'
  <2>1. i \in {1, 2} \/ (i = 3 /\ srv.op = "r")
    BY <1>1, <1>2, <1>4 DEF AnswerLength
  <2>2. Expected(t, i)' = Expected(t, i)
    BY <1>2 DEF Expected
  <2>3. a[i] = Expected(t, i)
    BY <1>1, <1>3, <1>4, <2>1 DEF Expected
  <2> QED
    BY <2>1, <2>2, <2>3
<1>7. Sent(t, AnswerLength(call[t]))'
  <2>1. PICK l \in Nat : l = 0 + Len(a) /\ l = AnswerLength(call[t])
    BY <1>5 DEF AnswerLength
  <2>2. \A i \in 1..0 : Expected(t, i)' = Expected(t, i)
    OBVIOUS
  <2>3. Sent(t, l)'
    BY <1>2, <1>3, <1>4, <1>6, <2>1, <2>2, SentMore
  <2> QED
    BY <1>2, <2>1, <2>3
<1>8. Responded(t)'
  BY <1>2, <1>3, <1>7 DEF Responded
<1>9. Waiting(t)'
  BY <1>1, <1>2, <1>8 DEF Waiting
<1>10. ASSUME NEW u \in Threads PROVE Fresh(u)'
  BY <1>2, FreshKept DEF Conversation
<1> QED
  BY <1>1, <1>2, <1>9, <1>10, ServerKeeps DEF Conversation

LEMMA RamHeaderConverses ==
    ASSUME LinkInv, Conversation, ~closed, SendRamHeader
    PROVE  Conversation'
<1> USE DEF LinkInv
<1>1. PICK t \in Threads :
         /\ lock = t /\ pc[t] = "recv" /\ Waiting(t) /\ Serving(t)
         /\ call[t].reg \in Regs /\ srv.op = call[t].op /\ srv.reg = call[t].reg
  BY ActingOn DEF Server, SendRamHeader
<1>2. /\ srv.at = "ram" /\ srv.op = "d"
      /\ srv'.at = "ramdata" /\ srv'.op = srv.op /\ srv'.reg = srv.reg
      /\ UNCHANGED <<lock, pc, call, got, down, fpga, served, window>>
  BY DEF SendRamHeader, Serves, client, Types, ServerTypes
<1>3. Sent(t, 0) /\ down = <<>> /\ ~served[t].done
  BY <1>1, <1>2 DEF Serving
<1>4. PICK a \in Seq(Unit) :
         up' = up \o a /\ Len(a) = 2 /\ a[1] = Ctl("d") /\ a[2] = Addr(srv.reg)
  <2> DEFINE a == Header("d", srv.reg)
  <2>1. a \in Seq(Unit) /\ Len(a) = 2 /\ a[1] = Ctl("d") /\ a[2] = Addr(srv.reg)
    BY Headers DEF Ops, Types, ServerTypes
  <2>2. up' = up \o a
    BY <1>2 DEF SendRamHeader
  <2> HIDE DEF a
  <2> QED
    BY <2>1, <2>2
<1>5. 2 = 0 + Len(a)
  BY <1>4
<1>6. ASSUME NEW i \in 1..Len(a) PROVE a[i] = Expected(t, 0 + i)'
  <2>1. i \in {1, 2}
    BY <1>4
  <2>2. Expected(t, i)' = Expected(t, i)
    BY <1>2 DEF Expected
  <2>3. a[i] = Expected(t, i)
    BY <1>1, <1>2, <1>4, <2>1 DEF Expected
  <2> QED
    BY <2>1, <2>2, <2>3
<1>7. Sent(t, 2)'
  <2>1. \A i \in 1..0 : Expected(t, i)' = Expected(t, i)
    OBVIOUS
  <2> QED
    BY <1>2, <1>3, <1>4, <1>5, <1>6, <2>1, SentMore
<1>8. Serving(t)'
  BY <1>1, <1>2, <1>3, <1>7 DEF Serving
<1>9. Waiting(t)'
  BY <1>1, <1>2, <1>8 DEF Waiting
<1>10. ASSUME NEW u \in Threads PROVE Fresh(u)'
  BY <1>2, FreshKept DEF Conversation
<1> QED
  BY <1>1, <1>2, <1>9, <1>10, ServerKeeps DEF Conversation

LEMMA RamConverses ==
    ASSUME LinkInv, Conversation, ~closed, SendRam
    PROVE  Conversation'
<1> USE DEF LinkInv
<1>1. PICK t \in Threads :
         /\ lock = t /\ pc[t] = "recv" /\ Waiting(t) /\ Serving(t)
         /\ call[t].reg \in Regs /\ srv.op = call[t].op /\ srv.reg = call[t].reg
  BY ActingOn DEF Server, SendRam
<1>2. srv.at = "ramdata" /\ srv.op = "d" /\ Sent(t, 2) /\ down = <<>>
  BY <1>1 DEF SendRam, Serving, Serves
<1>3. PICK v \in Word, a \in Seq(Unit) :
         /\ v = fpga[call[t].reg] /\ up' = up \o a
         /\ Len(a) = 1 /\ a[1] = Dat(call[t].reg, v)
  <2> DEFINE v == fpga[call[t].reg]
             a == <<Dat(call[t].reg, v)>>
  <2>1. v \in Word
    BY <1>1 DEF Types, ServerTypes
  <2>2. Dat(call[t].reg, v) \in Unit
    BY <1>1, <2>1, Units DEF Ops
  <2>3. up' = up \o a
    BY <1>1 DEF SendRam
  <2> HIDE DEF v
  <2>4. a \in Seq(Unit) /\ Len(a) = 1 /\ a[1] = Dat(call[t].reg, v)
    BY <2>2, Single
  <2> HIDE DEF a
  <2> QED
    BY <2>1, <2>3, <2>4 DEF v
<1>4. /\ srv'.at = "header"
      /\ served' = [served EXCEPT ![t] = [done |-> TRUE, v |-> fpga[call[t].reg]]]
      /\ UNCHANGED <<lock, pc, call, got, down, fpga, window>>
  BY <1>1, NamesAssumption DEF SendRam, Executed, client, NextRequest
<1>5. served'[t].done /\ served'[t].v = v
  BY <1>3, <1>4 DEF Types, HistoryTypes
<1>6. ASSUME NEW i \in 1..Len(a) PROVE a[i] = Expected(t, 2 + i)'
  BY <1>3, <1>4, <1>5 DEF Expected
<1>7. \A i \in 1..2 : Expected(t, i)' = Expected(t, i)
  BY <1>4 DEF Expected
<1>8. Sent(t, 3)'
  <2>1. 3 = 2 + Len(a)
    BY <1>3
  <2> QED
    BY <1>2, <1>3, <1>4, <1>6, <1>7, <2>1, SentMore
<1>9. Responded(t)'
  BY <1>1, <1>2, <1>4, <1>5, <1>8 DEF Responded, AnswerLength
<1>10. Waiting(t)'
  BY <1>1, <1>4, <1>9 DEF Waiting
<1>11. \A u \in Threads : Fresh(u)'
  BY <1>1, <1>4, FreshServed
<1> QED
  BY <1>1, <1>4, <1>10, <1>11, ServerKeeps DEF Conversation

LEMMA ServerConverses ==
    ASSUME LinkInv, Conversation, ~closed, Server
    PROVE  Conversation'
<1>1. ~ServerEof
  BY DEF ServerEof
<1> QED
  BY <1>1, HeaderConverses, FetchConverses, AnswerConverses, RamHeaderConverses, RamConverses,
     PayloadConverses, StoreConverses DEF Server

\* The units in transit that are lost with the server are the last ones.
LEMMA SentLess ==
    ASSUME Types, NEW t \in Threads, NEW n \in Nat, Sent(t, n), NEW k \in 0..Len(up),
           up' = SubSeq(up, 1, k), UNCHANGED <<got, call, served>>
    PROVE  \E l \in 0..n : Sent(t, l)'
<1> DEFINE p == SubSeq(up, 1, k)
<1>1. p \in Seq(Unit) /\ Len(p) = k /\ \A i \in 1..k : p[i] = up[i]
  BY Pieces DEF Types, NetTypes
<1> HIDE DEF p
<1>2. Len(got[t]) \in Nat /\ Len(up) \in Nat /\ Len(got[t]) + Len(up) = n
  BY Lengths DEF Sent
<1>3. Len(got[t]) + k \in 0..n
  BY <1>2
<1>4. \A i : Expected(t, i)' = Expected(t, i)
  BY DEF Expected
<1>5. up' = p
  BY DEF p
<1>6. PICK l \in 0..n : l = Len(got[t]) + k
  BY <1>3
<1>7. Sent(t, l)'
  <2>1. Len(got'[t]) + Len(up') = l /\ got'[t] = got[t]
    BY <1>1, <1>5, <1>6
  <2>2. \A i \in 1..Len(got[t]) : got[t][i] = Expected(t, i)
    BY DEF Sent
  <2>3. \A i \in 1..k : up'[i] = Expected(t, Len(got[t]) + i)
    <3>1. \A i \in 1..k : i \in 1..Len(up)
      BY <1>2
    <3> QED
      BY <1>1, <1>5, <3>1 DEF Sent
  <2> QED
    BY <1>1, <1>4, <1>5, <2>1, <2>2, <2>3 DEF Sent
<1> QED
  BY <1>7

LEMMA CrashConverses ==
    ASSUME LinkInv, Conversation, Crash
    PROVE  Conversation'
<1> USE DEF LinkInv
<1>1. PICK k \in 0..Len(up) : up' = SubSeq(up, 1, k)
  BY DEF Crash
<1>2. /\ srv.at # "dead" /\ srv'.at = "dead"
      /\ UNCHANGED <<lock, pc, call, got, down, fpga, served, window>>
  BY DEF Crash, client, Die, NextRequest
<1>3. /\ up' \in Seq(Unit) /\ Len(up') = k /\ Len(up) \in Nat
      /\ up = <<>> => up' = <<>>
  <2>1. up \in Seq(Unit)
    BY DEF Types, NetTypes
  <2>2. up' \in Seq(Unit) /\ Len(up') = k
    BY <1>1, <2>1, Pieces
  <2>3. Len(up) \in Nat /\ (up = <<>> => Len(up) = 0)
    BY <2>1, LenProperties
  <2> QED
    BY <2>2, <2>3, Empty
<1>4. Nothing => Nothing'
  BY <1>2, <1>3 DEF Nothing
<1>5. ASSUME NEW t \in Threads, pc[t] = "recv"
      PROVE  Waiting(t)'
  <2>1. Waiting(t)
    BY <1>5 DEF Conversation, Talking
  <2>2. PICK n \in 0..3 :
           /\ Sent(t, n) /\ n <= AnswerLength(call[t])
           /\ n > (IF call[t].op = "d" THEN 2 ELSE 0) => served[t].done
    <3>1. CASE srv.at = "header"
      BY <1>2, <2>1, <3>1 DEF Waiting, Requested, Responded, AnswerLength
    <3>2. CASE srv.at # "header"
      BY <1>2, <2>1, <3>2 DEF Waiting, Serving, Serves, AnswerLength
    <3> QED
      BY <3>1, <3>2
  <2>3. PICK l \in 0..n : Sent(t, l)'
    <3>1. n \in Nat /\ UNCHANGED <<got, call, served>>
      BY <1>2
    <3> QED
      BY <1>1, <2>2, <3>1, SentLess
  <2>4. /\ l \in 0..3 /\ l <= AnswerLength(call[t])
        /\ l > (IF call[t].op = "d" THEN 2 ELSE 0) => served[t].done
    BY <2>2 DEF AnswerLength
  <2>5. Broken(t)'
    BY <1>2, <2>3, <2>4 DEF Broken
  <2> QED
    BY <1>2, <2>1, <2>5 DEF Waiting
<1>6. ASSUME NEW t \in Threads, pc[t] = "check"
      PROVE  Checking(t)'
  <2>1. Checking(t)
    BY <1>6 DEF Conversation, Talking
  <2>2. \A i : Expected(t, i)' = Expected(t, i)
    BY <1>2 DEF Expected
  <2>3. HeaderMatches(t)' <=> HeaderMatches(t)
    BY <1>2 DEF HeaderMatches
  <2>4. Len(got[t]) + Len(up') <= AnswerLength(call[t])
    BY <1>3, <2>1, Lengths DEF Checking, AnswerLength
  <2> QED
    BY <1>2, <1>3, <2>1, <2>2, <2>3, <2>4 DEF Checking
<1>7. ASSUME NEW t \in Threads PROVE Talking(t)' /\ Fresh(t)'
  <2>1. Fresh(t)'
    BY <1>2, FreshKept DEF Conversation
  <2>2. pc[t] = "send" => Nothing
    BY DEF Conversation, Talking
  <2> QED
    BY <1>2, <1>4, <1>5, <1>6, <2>1, <2>2 DEF Talking
<1> QED
  BY <1>2, <1>4, <1>7 DEF Conversation

LEMMA PlConverses ==
    ASSUME LinkInv, Conversation, PlChange
    PROVE  Conversation'
<1>1. Witness /\ UNCHANGED <<lock, pc, call, got, down, up, srv, served>>
  BY DEF PlChange, client, net
<1>2. fpga' \in [Regs -> Vals]
  BY DEF PlChange, Conversation
<1>3. ASSUME NEW t \in Threads PROVE Talking(t)' /\ Fresh(t)'
  <2>1. Fresh(t)'
    BY <1>1, <1>2, FreshWitness DEF LinkInv
  <2> QED
    BY <1>1, <2>1, Overheard DEF Conversation
<1>4. Nothing' <=> Nothing
  BY <1>1 DEF Nothing
<1> QED
  BY <1>1, <1>2, <1>3, <1>4 DEF Conversation

-----------------------------------------------------------------------------
(* If nothing comes late and nothing is torn.                              *)

THEOREM ConversationInvariant ==
    ASSUME Prompt
    PROVE  Spec => []QuietInv
<1>1. Init => (~closed => Conversation)
  <2> SUFFICES ASSUME Init PROVE Conversation
    OBVIOUS
  <2>1. Nothing /\ fpga \in [Regs -> Vals]
    BY DEF Init, Nothing, NextRequest
  <2>2. ASSUME NEW t \in Threads PROVE Talking(t) /\ Fresh(t)
    BY NoValIsValue DEF Init, Talking, Fresh, InCall, Unserved
  <2> QED
    BY <2>1, <2>2 DEF Conversation
<1>2. LinkInv /\ (~closed => Conversation) /\ [Next]_vars => (~closed => Conversation)'
  <2> SUFFICES ASSUME LinkInv, ~closed => Conversation, [Next]_vars, ~closed'
               PROVE  Conversation'
    OBVIOUS
  <2>1. ~Stop
    BY DEF Stop
  <2>2. ASSUME NEW t \in Threads, Invoke(t) \/ Acquire(t) \/ Holder(t) \/ SendTimeout(t)
        PROVE  Conversation'
    <3>1. ~closed
      BY <2>2 DEF Holder, Invoke, Acquire, Send, SendFails, SendTimeout, Recv, Accept, Reject,
         Drain, RecvTimeout, RecvEnds, Raise, Finish, client
    <3> QED
      BY <2>2, <3>1, InvokeConverses, AcquireConverses, SendConverses, FinishConverses,
         RecvConverses, ClearConverses DEF Holder
  <2>3. CASE Server \/ Crash \/ PlChange
    <3>1. ~closed
      BY <2>3 DEF Server, ReadHeader, FetchValues, SendAnswer, SendRamHeader, SendRam, ReadPayload,
         StoreValues, ServerEof, Crash, PlChange, client
    <3> QED
      BY <2>3, <3>1, ServerConverses, CrashConverses, PlConverses
  <2>4. CASE UNCHANGED vars
    <3>1. Conversation /\ UNCHANGED <<lock, pc, call, got, closed, down, up, srv, fpga, served, window>>
      BY <2>4 DEF vars, client, net
    <3>2. ASSUME NEW t \in Threads PROVE Talking(t)' /\ Fresh(t)'
      BY <3>1, Overheard, FreshKept DEF Conversation
    <3>3. Nothing' <=> Nothing
      BY <3>1 DEF Nothing
    <3> QED
      BY <3>1, <3>2, <3>3 DEF Conversation
  <2> QED
    BY <2>1, <2>2, <2>3, <2>4 DEF Next
<1> QED
  BY <1>1, <1>2, Invariant, PTL DEF Spec, QuietInv

\* The lock is free only between conversations, unless an answer comes late
\* or a request is torn: however many threads use the client, and whenever
\* the server is killed, the next holder finds the streams empty.
THEOREM QuietBetweenCalls ==
    ASSUME Prompt
    PROVE  Spec => []QuietWhenUnlocked
<1>1. QuietInv => QuietWhenUnlocked
  BY DEF QuietInv, Conversation, Nothing, QuietWhenUnlocked
<1> QED
  BY <1>1, ConversationInvariant, PTL

LEMMA StaysOpen ==
    ASSUME "stop" \notin Faults
    PROVE  Spec => []~closed
<1>1. Init => ~closed
  BY DEF Init
<1>2. ~closed /\ [Next]_vars => ~closed'
  <2> SUFFICES ASSUME ~closed, [Next]_vars PROVE ~closed'
    OBVIOUS
  <2>1. ASSUME NEW t \in Threads, Invoke(t) \/ Acquire(t) \/ Holder(t) \/ SendTimeout(t)
        PROVE  ~closed'
    BY <2>1 DEF Holder, Invoke, Acquire, Send, SendFails, SendTimeout, Recv, Accept, Reject,
         Drain, RecvTimeout, RecvEnds, Raise, Finish, client
  <2>2. CASE Server \/ Crash \/ PlChange
    BY <2>2 DEF Server, ReadHeader, FetchValues, SendAnswer, SendRamHeader, SendRam, ReadPayload,
         StoreValues, ServerEof, Crash, PlChange, client
  <2>3. ~Stop
    BY DEF Stop
  <2>4. CASE UNCHANGED vars
    BY <2>4 DEF vars, client
  <2> QED
    BY <2>1, <2>2, <2>3, <2>4 DEF Next
<1> QED
  BY <1>1, <1>2, PTL DEF Spec

\* What a call returns.
LEMMA Returned ==
    ASSUME LinkInv, Conversation, NEW t \in Threads, Accept(t)
    PROVE  /\ served[t].done
           /\ result' = [result EXCEPT ![t] =
                 [ok |-> TRUE, v |-> IF call[t].op = "w" THEN NoVal ELSE served[t].v]]
<1> USE DEF LinkInv
<1>1. Checking(t) /\ HeaderMatches(t)
  BY DEF Accept, Conversation, Talking
<1>2. ASSUME call[t].op # "w" PROVE AsData(got[t][3]) = served[t].v
  <2>1. Len(got[t]) = 3
    BY <1>2 DEF Accept, Types, ClientTypes
  <2>2. got[t][3] = Dat(call[t].reg, served[t].v)
    BY <1>1, <2>1 DEF Checking, Expected
  <2> QED
    BY <2>2 DEF AsData, Dat
<1>3. result' = [result EXCEPT ![t] =
         [ok |-> TRUE, v |-> IF call[t].op = "w" THEN NoVal ELSE AsData(got[t][3])]]
  BY DEF Accept, Finish
<1> QED
  BY <1>1, <1>2, <1>3 DEF Checking

\* A read that succeeds returns a value that its register had during the
\* call, unless answers come late, requests are torn or the client is stopped
\* under the call.
THEOREM FreshReads ==
    ASSUME Prompt, "stop" \notin Faults
    PROVE  Spec => ReadsFresh
<1>1. QuietInv /\ ~closed /\ [Next]_vars =>
         [\A t \in Threads :
             Answered(t) /\ call[t].op # "w" => result'[t].v \in window[t]]_vars
  <2> SUFFICES ASSUME QuietInv, ~closed, Next, NEW t \in Threads, Answered(t), call[t].op # "w"
               PROVE  result'[t].v \in window[t]
    OBVIOUS
  <2>1. LinkInv /\ Conversation
    BY DEF QuietInv
  <2>2. Accept(t)
    BY <2>1, Accepted
  <2>3. served[t].done /\ result'[t].v = served[t].v
    BY <2>1, <2>2, Returned DEF LinkInv, Types, ClientTypes
  <2> QED
    BY <2>1, <2>3 DEF Conversation, Fresh
<1> QED
  BY <1>1, ConversationInvariant, StaysOpen, PTL DEF Spec, ReadsFresh

-----------------------------------------------------------------------------
(* Calls are atomic: every step is one of AtomicRegisters or is not seen.  *)

stages  == [t \in Threads |-> Stage(t)]
results == [t \in Threads |-> Found(t)]

LEMMA Unseen ==
    ASSUME NEW t \in Threads, pc'[t] = "idle" <=> pc[t] = "idle",
           call'[t] = call[t], result'[t] = result[t], served'[t] = served[t]
    PROVE  Stage(t)' = Stage(t) /\ Found(t)' = Found(t)
BY DEF Stage, Found, InCall

LEMMA Hidden ==
    ASSUME UNCHANGED <<call, fpga>>,
           \A t \in Threads :
              /\ pc'[t] = "idle" <=> pc[t] = "idle"
              /\ result'[t] = result[t] /\ served'[t] = served[t]
    PROVE  UNCHANGED Atomic!vars
<1>1. \A t \in Threads : Stage(t)' = Stage(t) /\ Found(t)' = Found(t)
  BY Unseen
<1> QED
  BY <1>1 DEF Atomic!vars

LEMMA InvokeInvokes ==
    ASSUME LinkInv, Conversation, NEW t \in Threads, Invoke(t)
    PROVE  Atomic!Invoke(t)
<1>1. /\ pc[t] = "idle" /\ pc' = [pc EXCEPT ![t] = "wait"] /\ served[t] = Unserved
      /\ UNCHANGED <<result, fpga, served>>
      /\ \E c \in Call : call' = [call EXCEPT ![t] = c]
  BY DEF Invoke, Conversation, Fresh
<1>2. pc'[t] = "wait" /\ \A u \in Threads \ {t} : pc'[u] = pc[u] /\ call'[u] = call[u]
  BY <1>1 DEF LinkInv, Types, ClientTypes
<1>3. Stage(t) = "idle" /\ Stage(t)' = "called" /\ Found(t)' = Found(t)
  BY <1>1, <1>2 DEF Stage, Found, Unserved, InCall
<1>4. \A u \in Threads \ {t} : Stage(u)' = Stage(u) /\ Found(u)' = Found(u)
  BY <1>1, <1>2, Unseen
<1>5. stages' = [stages EXCEPT ![t] = "called"] /\ results' = results /\ stages[t] = "idle"
  BY <1>3, <1>4 DEF stages, results
<1>6. \E c \in Atomic!Call : call' = [call EXCEPT ![t] = c]
  BY <1>1 DEF Atomic!Call, Call
<1> QED
  BY <1>1, <1>5, <1>6 DEF Atomic!Invoke, stages, results

\* The server applies the call of the thread that holds the lock.
LEMMA ServerApplies ==
    ASSUME LinkInv, Conversation, ~closed, FetchValues \/ SendRam \/ StoreValues
    PROVE  \E t \in Threads : Atomic!Apply(t)
<1> USE DEF LinkInv
<1>1. PICK t \in Threads :
         /\ lock = t /\ pc[t] = "recv" /\ Waiting(t) /\ Serving(t)
         /\ call[t].reg \in Regs /\ srv.op = call[t].op /\ srv.reg = call[t].reg
  BY ActingOn DEF Server, FetchValues, SendRam, StoreValues
<1>2. UNCHANGED <<pc, call, result>> /\ ~served[t].done
  BY <1>1 DEF FetchValues, SendRam, StoreValues, client, Serving
<1>3. /\ (call[t].op = "w" => fpga' = [fpga EXCEPT ![call[t].reg] = call[t].val])
      /\ (call[t].op # "w" => fpga' = fpga)
      /\ \E v \in Word :
            /\ served' = [served EXCEPT ![t] = [done |-> TRUE, v |-> v]]
            /\ call[t].op # "w" => v = fpga[call[t].reg]
  <2>1. CASE FetchValues \/ SendRam
    <3>1. call[t].op # "w" /\ fpga' = fpga
      BY <1>1, <2>1 DEF FetchValues, SendRam, Serves
    <3>2. served' = [served EXCEPT ![t] = [done |-> TRUE, v |-> fpga[call[t].reg]]]
      BY <1>1, <2>1, NamesAssumption DEF FetchValues, SendRam, Executed
    <3>3. fpga[call[t].reg] \in Word
      BY <1>1 DEF Types, ServerTypes
    <3> QED
      BY <3>1, <3>2, <3>3
  <2>2. CASE StoreValues
    <3>1. call[t].op = "w" /\ srv.buf = call[t].val /\ srv.buf \in Word
      BY <1>1, <2>2 DEF StoreValues, Serving, Serves, Types, ServerTypes
    <3>2. /\ fpga' = [fpga EXCEPT ![call[t].reg] = call[t].val]
          /\ served' = [served EXCEPT ![t] = [done |-> TRUE, v |-> srv.buf]]
      BY <1>1, <2>2, <3>1, NamesAssumption DEF StoreValues, Executed
    <3> QED
      BY <3>1, <3>2
  <2> QED
    BY <2>1, <2>2
<1>4. PICK v \in Word :
         /\ served' = [served EXCEPT ![t] = [done |-> TRUE, v |-> v]]
         /\ call[t].op # "w" => v = fpga[call[t].reg]
  BY <1>3
<1>5. served'[t].done /\ served'[t].v = v /\ \A u \in Threads \ {t} : served'[u] = served[u]
  BY <1>4 DEF Types, HistoryTypes
<1>6. Stage(t) = "called" /\ Stage(t)' = "applied"
  BY <1>1, <1>2, <1>5 DEF Stage
<1>7. \A u \in Threads \ {t} : Stage(u)' = Stage(u) /\ Found(u)' = Found(u)
  BY <1>2, <1>5, Unseen
<1>8. stages' = [stages EXCEPT ![t] = "applied"] /\ stages[t] = "called"
  BY <1>6, <1>7 DEF stages
<1>9. Found(t) = [ok |-> result[t].ok, v |-> result[t].v]
  BY <1>2 DEF Found
<1>10. CASE call[t].op = "w"
  <2>1. Found(t)' = Found(t)
    BY <1>2, <1>9, <1>10 DEF Found
  <2>2. results' = results
    BY <1>7, <2>1 DEF results
  <2> QED
    BY <1>2, <1>3, <1>8, <1>10, <2>2 DEF Atomic!Apply, stages, results
<1>11. CASE call[t].op # "w"
  <2>1. Found(t)' = [ok |-> result[t].ok, v |-> fpga[call[t].reg]]
    BY <1>1, <1>2, <1>4, <1>5, <1>11 DEF Found, InCall
  <2>2. results' = [results EXCEPT ![t].v = fpga[call[t].reg]]
    <3> DEFINE found == [ok |-> result[t].ok, v |-> result[t].v]
               now == [ok |-> result[t].ok, v |-> fpga[call[t].reg]]
    <3>1. results' = [results EXCEPT ![t] = now]
      BY <1>7, <2>1 DEF results
    <3>2. results[t] = found
      BY <1>9 DEF results
    <3>3. [found EXCEPT !.v = fpga[call[t].reg]] = now
      OBVIOUS
    <3> HIDE DEF found, now
    <3>4. [results EXCEPT ![t].v = fpga[call[t].reg]] = [results EXCEPT ![t] = now]
      BY <3>2, <3>3
    <3> QED
      BY <3>1, <3>4
  <2> QED
    BY <1>2, <1>3, <1>8, <1>11, <2>2 DEF Atomic!Apply, stages, results
<1> QED
  BY <1>10, <1>11

\* A call that ends returns what the server found, or fails.
LEMMA CallEnds ==
    ASSUME LinkInv, Conversation, Prompt, NEW t \in Threads,
           SendFails(t) \/ SendTimeout(t) \/ Accept(t) \/ RecvTimeout(t) \/ RecvEnds(t)
    PROVE  Atomic!Return(t) \/ Atomic!Fail(t)
<1> USE DEF LinkInv
<1>1. /\ pc' = [pc EXCEPT ![t] = "idle"] /\ served' = [served EXCEPT ![t] = Unserved]
      /\ call' = call /\ pc[t] \in Holding
  BY Ends DEF Finish
<1>2. ~SendTimeout(t)
  BY DEF SendTimeout, Happens, Prompt
<1>3. fpga' = fpga
  BY <1>2 DEF SendFails, Accept, RecvTimeout, RecvEnds
<1>4. PICK ok \in BOOLEAN, v \in Vals :
         /\ result' = [result EXCEPT ![t] = [ok |-> ok, v |-> v]]
         /\ ok => served[t].done /\ (call[t].op # "w" => v = served[t].v)
  <2>1. CASE Accept(t)
    <3> DEFINE v == IF call[t].op = "w" THEN NoVal ELSE served[t].v
    <3>1. served[t].done /\ result' = [result EXCEPT ![t] = [ok |-> TRUE, v |-> v]]
      BY <2>1, Returned
    <3>2. v \in Vals
      BY NoValIsValue DEF Conversation, Fresh
    <3> QED
      BY <3>1, <3>2
  <2>2. CASE ~Accept(t)
    BY <1>2, <2>2, NoValIsValue DEF SendFails, RecvTimeout, RecvEnds, Raise, Finish
  <2> QED
    BY <2>1, <2>2
<1>5. /\ pc'[t] = "idle" /\ result'[t] = [ok |-> ok, v |-> v]
      /\ \A u \in Threads \ {t} : pc'[u] = pc[u] /\ served'[u] = served[u] /\ result'[u] = result[u]
  BY <1>1, <1>4 DEF Types, ClientTypes, HistoryTypes
<1>6. Stage(t)' = "idle" /\ Found(t)' = [ok |-> ok, v |-> v]
  BY <1>5 DEF Stage, Found, InCall
<1>7. \A u \in Threads \ {t} : Stage(u)' = Stage(u) /\ Found(u)' = Found(u)
  BY <1>1, <1>5, Unseen
<1>8. /\ stages' = [stages EXCEPT ![t] = "idle"]
      /\ results' = [results EXCEPT ![t] = [ok |-> ok, v |-> v]]
  BY <1>6, <1>7 DEF stages, results
<1>9. pc[t] # "idle"
  BY <1>1 DEF Holding
<1>10. CASE ok
  <2>1. stages[t] = "applied"
    BY <1>4, <1>9, <1>10 DEF stages, Stage
  <2>2. call[t].op # "w" => v = results[t].v
    BY <1>4, <1>9, <1>10 DEF results, Found, InCall
  <2>3. results' = [results EXCEPT ![t] = [ok |-> TRUE, v |-> v]]
    BY <1>8, <1>10
  <2> QED
    BY <1>1, <1>3, <1>8, <2>1, <2>2, <2>3 DEF Atomic!Return, stages, results
<1>11. CASE ~ok
  <2>1. stages[t] # "idle"
    BY <1>9 DEF stages, Stage
  <2>2. results' = [results EXCEPT ![t] = [ok |-> FALSE, v |-> v]]
    BY <1>8, <1>11
  <2> QED
    BY <1>1, <1>3, <1>8, <2>1, <2>2 DEF Atomic!Fail, stages, results
<1> QED
  BY <1>10, <1>11

LEMMA AtomicStep ==
    ASSUME QuietInv, Prompt, ~closed, [Next]_vars, ~Stop
    PROVE  [Atomic!Next]_(Atomic!vars)
<1>0. LinkInv /\ Conversation
  BY DEF QuietInv
<1>1. ASSUME NEW t \in Threads, Invoke(t) \/ Acquire(t) \/ Holder(t) \/ SendTimeout(t)
      PROVE  [Atomic!Next]_(Atomic!vars)
  <2>1. CASE Invoke(t)
    BY <1>0, <2>1, InvokeInvokes DEF Atomic!Next
  <2>2. CASE SendFails(t) \/ SendTimeout(t) \/ Accept(t) \/ RecvTimeout(t) \/ RecvEnds(t)
    BY <1>0, <2>2, CallEnds DEF Atomic!Next
  <2>3. CASE Acquire(t) \/ Send(t) \/ Recv(t) \/ Reject(t) \/ Drain(t)
    <3>1. UNCHANGED <<call, fpga, result, served>>
      BY <2>3 DEF Acquire, Send, Recv, Reject, Drain, client
    <3>2. pc' = pc \/ (pc[t] # "idle" /\ \E step \in {"send", "recv", "check", "drain"} :
                                             pc' = [pc EXCEPT ![t] = step])
      BY <2>3 DEF Acquire, Send, Recv, Reject, Drain, client
    <3>3. \A u \in Threads : pc'[u] = "idle" <=> pc[u] = "idle"
      BY <1>0, <3>2 DEF LinkInv, Types, ClientTypes
    <3> QED
      BY <3>1, <3>3, Hidden
  <2> QED
    BY <1>1, <2>1, <2>2, <2>3 DEF Holder
<1>2. CASE FetchValues \/ SendRam \/ StoreValues
  BY <1>0, <1>2, ServerApplies DEF Atomic!Next
<1>3. CASE ReadHeader \/ SendAnswer \/ SendRamHeader \/ ReadPayload \/ ServerEof \/ Crash
  <2>1. UNCHANGED <<pc, call, fpga, result, served>>
    BY <1>3 DEF ReadHeader, SendAnswer, SendRamHeader, ReadPayload, ServerEof, Crash, client
  <2> QED
    BY <2>1, Hidden
<1>4. CASE PlChange
  <2>1. UNCHANGED <<pc, call, result, served>> /\ \E r \in PlRegs, v \in Vals : fpga' = [fpga EXCEPT ![r] = v]
    BY <1>4 DEF PlChange, client
  <2>2. \A t \in Threads : Stage(t)' = Stage(t) /\ Found(t)' = Found(t)
    BY <2>1, Unseen
  <2> QED
    BY <2>1, <2>2 DEF Atomic!Next, Atomic!PlChange
<1>5. CASE UNCHANGED vars
  <2>1. UNCHANGED <<pc, call, fpga, result, served>>
    BY <1>5 DEF vars, client
  <2> QED
    BY <2>1, Hidden
<1> QED
  BY <1>1, <1>2, <1>3, <1>4, <1>5 DEF Next, Server

\* The lock, the two streams and the server's loop implement a bank of
\* registers whose calls take effect at one instant, also when the server is
\* killed in the middle of a request.
THEOREM CallsAreAtomic ==
    ASSUME Prompt, "stop" \notin Faults
    PROVE  Spec => ImplementsAtomic
<1>1. Init => Atomic!Init
  <2> SUFFICES ASSUME Init PROVE Atomic!Init
    OBVIOUS
  <2>1. call \in [Threads -> Atomic!Call] /\ fpga \in [Regs -> Vals]
    BY InitTypes DEF Init, Types, ClientTypes, Call, Atomic!Call
  <2>2. \A t \in Threads : Stage(t) = "idle" /\ Found(t) \in [ok : BOOLEAN, v : Vals]
    BY NoValIsValue DEF Init, Stage, Found, InCall
  <2> QED
    BY <2>1, <2>2 DEF Atomic!Init
<1>2. QuietInv /\ ~closed /\ [Next]_vars => [Atomic!Next]_(Atomic!vars)
  <2>1. ~Stop
    BY DEF Stop
  <2> QED
    BY <2>1, AtomicStep
<1> QED
  BY <1>1, <1>2, ConversationInvariant, StaysOpen, PTL DEF Spec, ImplementsAtomic, Atomic!Spec
=============================================================================
