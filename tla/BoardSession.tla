---------------------------- MODULE BoardSession ----------------------------
(***************************************************************************)
(* Sessions of programs on one board: the startup and the end of a         *)
(* RemoteInterface (remote/interface.py, remote/server.py, sshshell.py and *)
(* client.py) and what they do on the board.  A session sends commands to  *)
(* a shell of its own and goes on after a short delay, whether or not the  *)
(* shell has executed them.  The FPGA, the bitstream file, the server's    *)
(* binary, the port and the command "killall" are shared by all sessions.  *)
(*                                                                         *)
(* The design of a session is named by the session.                        *)
(***************************************************************************)
EXTENDS Naturals, Sequences, FiniteSets

CONSTANTS Sessions,
          Nobody,    \* no session
          Binaries   \* per version of the server's binary: it runs on the board

ASSUME SessionsAssumption == Nobody \notin Sessions
ASSUME BinariesAssumption == Binaries \in Seq(BOOLEAN) /\ \E i \in DOMAIN Binaries : Binaries[i]

VARIABLES
    py,        \* per session: "new", "put", "upload", "look", "connect", "up",
               \* "failed", "ended" or "gone"
    attempt,   \* per session: the version of the server that it tries
    shell,     \* per session: the commands that its shell has yet to execute
    printed,   \* per session: an error message of the shell is yet to be read
    conn,      \* per session: "none", "live" or "dead"
    file,      \* the session that the bitstream on the board's disk is from
    fpga,      \* the session whose design the FPGA is configured with
    binary,    \* the version of the server on the board's disk
    listening, \* the server: the session and the attempt that started it, which
               \* stand for its token
    prompt,    \* the delays are long enough: sessions go on when their shells
               \* have executed the commands (never changes)
    disturbed  \* history: sessions that were not alone all the time

program == <<py, attempt, printed>>
vars == <<program, shell, conn, file, fpga, binary, listening, prompt, disturbed>>

Closed   == [by |-> Nobody, try |-> 0]   \* no process listens on the port
Token(s) == [by |-> s, try |-> attempt[s]]

\* A session that has not begun or that has left no trace but its server.
Active(s) == py[s] \notin {"new", "gone"}

\* The shell waits for the server that it runs in the foreground.
Foreground(s) == listening.by = s
Executed(s)   == shell[s] = <<>> \/ Foreground(s)
Delay(s)      == prompt => Executed(s)

Goto(s, step) == py' = [py EXCEPT ![s] = step]
Type(s, commands) == shell' = [shell EXCEPT ![s] = commands]

-----------------------------------------------------------------------------
(* Server and Client, as they are called by RemoteInterface.               *)

\* (Mutant) Other servers are left alone.
StopNothing == <<>>

\* stop(): Ctrl-C ends the server in the foreground and drops what was typed
\* ahead; then all servers are killed.
StopCommands == <<"killall">>
Interrupt(s) == listening' = IF Foreground(s) THEN Closed ELSE listening

Open(s) ==
    /\ py[s] = "new"
    /\ Type(s, StopCommands)
    /\ Goto(s, "put")
    /\ disturbed' = IF \E q \in Sessions \ {s} : Active(q)
                    THEN disturbed \cup {s} \cup {q \in Sessions : Active(q)}
                    ELSE disturbed
    /\ UNCHANGED <<attempt, printed, conn, file, fpga, binary, listening, prompt>>

\* (Mutant) The file is removed too early.
FlashSwapped == <<"rm", "cat">>
FlashCommands == <<"cat", "rm">>

\* flash_bitstream: the file is sent by another way than the commands.
Put(s) ==
    /\ py[s] = "put"
    /\ Delay(s)
    /\ file' = s
    /\ Interrupt(s)
    /\ Type(s, StopCommands \o FlashCommands)
    /\ Goto(s, "upload")
    /\ UNCHANGED <<attempt, printed, conn, fpga, binary, prompt, disturbed>>

\* start(): the binary of a running server cannot be replaced, which is only
\* a warning.
Upload(s) ==
    /\ py[s] = "upload"
    /\ Delay(s)
    /\ binary' = IF listening # Closed \/ \E q \in Sessions : conn[q] = "live"
                 THEN binary ELSE attempt[s]
    /\ Type(s, Append(shell[s], "serve"))
    /\ Goto(s, "look")
    /\ UNCHANGED <<attempt, printed, conn, file, fpga, listening, prompt, disturbed>>

\* No error message was read: the server counts as started.
LooksFine(s) ==
    /\ py[s] = "look"
    /\ Delay(s)
    /\ ~printed[s]
    /\ Goto(s, "connect")
    /\ UNCHANGED <<attempt, printed, shell, conn, file, fpga, binary, listening, prompt, disturbed>>

\* (Mutant) One version too many is tried.
VersionsLeftOneMore(s) == attempt[s] <= Len(Binaries)
VersionsLeft(s) == attempt[s] < Len(Binaries)

\* "sh" was read: the version is wrong, and the next one is tried.
LooksWrong(s) ==
    /\ py[s] = "look"
    /\ Delay(s)
    /\ printed[s]
    /\ printed' = [printed EXCEPT ![s] = FALSE]
    /\ Interrupt(s)
    /\ Type(s, StopCommands)
    /\ IF VersionsLeft(s)
       THEN Goto(s, "upload") /\ attempt' = [attempt EXCEPT ![s] = @ + 1]
       ELSE Goto(s, "failed") /\ UNCHANGED attempt
    /\ UNCHANGED <<conn, file, fpga, binary, prompt, disturbed>>

\* (Mutant) The server accepts every client.
AcceptsAny(s) == listening # Closed
Accepts(s) == listening = Token(s)

\* The client connects; a server with another token turns it away.
Connect(s) ==
    /\ py[s] = "connect"
    /\ Delay(s)
    /\ IF Accepts(s)
       THEN Goto(s, "up") /\ conn' = [conn EXCEPT ![s] = "live"]
       ELSE Goto(s, "failed") /\ UNCHANGED conn
    /\ UNCHANGED <<attempt, printed, shell, file, fpga, binary, listening, prompt, disturbed>>

\* stop() of a TopModule, and once more when the object is deleted.
End(s) ==
    /\ py[s] \in {"up", "ended"}
    /\ conn' = [conn EXCEPT ![s] = "dead"]
    /\ Interrupt(s)
    /\ Type(s, StopCommands)
    /\ Goto(s, "ended")
    /\ UNCHANGED <<attempt, printed, file, fpga, binary, prompt, disturbed>>

\* The program is over or was killed; its shell may take the server along.
Exit(s) ==
    /\ Active(s)
    /\ Goto(s, "gone")
    /\ Type(s, <<>>)
    /\ conn' = [conn EXCEPT ![s] = "dead"]
    /\ Interrupt(s) \/ UNCHANGED listening
    /\ UNCHANGED <<attempt, printed, file, fpga, binary, prompt, disturbed>>

-----------------------------------------------------------------------------
(* The shell of session s executes its next command.                       *)

Command(s, command) ==
    /\ ~Foreground(s)
    /\ shell[s] # <<>>
    /\ Head(shell[s]) = command
    /\ Type(s, Tail(shell[s]))
    /\ UNCHANGED <<py, attempt, prompt, disturbed>>

\* Every server dies, also those that serve a connection.
KillAll(s) ==
    /\ Command(s, "killall")
    /\ listening' = Closed
    /\ conn' = [q \in Sessions |-> IF conn[q] = "live" THEN "dead" ELSE conn[q]]
    /\ UNCHANGED <<printed, file, fpga, binary>>

Cat(s) ==
    /\ Command(s, "cat")
    /\ fpga' = IF file = Nobody THEN fpga ELSE file
    /\ UNCHANGED <<printed, conn, file, binary, listening>>

Rm(s) ==
    /\ Command(s, "rm")
    /\ file' = Nobody
    /\ UNCHANGED <<printed, conn, fpga, binary, listening>>

\* A version that does not run is an error of the shell; a port in use is an
\* error of the server's, which nobody looks for.
Serve(s) ==
    /\ Command(s, "serve")
    /\ IF Binaries[binary]
       THEN /\ listening' = IF listening = Closed THEN Token(s) ELSE listening
            /\ UNCHANGED printed
       ELSE printed' = [printed EXCEPT ![s] = TRUE] /\ UNCHANGED listening
    /\ UNCHANGED <<conn, file, fpga, binary>>

Shell(s) == KillAll(s) \/ Cat(s) \/ Rm(s) \/ Serve(s)

-----------------------------------------------------------------------------

Init ==
    /\ py = [s \in Sessions |-> "new"]
    /\ attempt = [s \in Sessions |-> 1]
    /\ shell = [s \in Sessions |-> <<>>]
    /\ printed = [s \in Sessions |-> FALSE]
    /\ conn = [s \in Sessions |-> "none"]
    /\ file = Nobody
    /\ fpga = Nobody
    /\ binary \in DOMAIN Binaries
    /\ listening = Closed
    /\ prompt \in BOOLEAN
    /\ disturbed = {}

Startup(s) == Put(s) \/ Upload(s) \/ LooksFine(s) \/ LooksWrong(s) \/ Connect(s)

Next == \E s \in Sessions : Open(s) \/ Startup(s) \/ End(s) \/ Exit(s) \/ Shell(s)

\* Programs and shells run; nothing makes a session begin or end.
Fairness == \A s \in Sessions : WF_vars(Startup(s)) /\ WF_vars(Shell(s))

Spec == Init /\ [][Next]_vars /\ Fairness

-----------------------------------------------------------------------------
(* Properties.                                                             *)

TypeOK ==
    /\ py \in [Sessions -> {"new", "put", "upload", "look", "connect", "up",
                            "failed", "ended", "gone"}]
    /\ attempt \in [Sessions -> DOMAIN Binaries]
    /\ \A s \in Sessions : \A i \in DOMAIN shell[s] :
          shell[s][i] \in {"killall", "cat", "rm", "serve"}
    /\ printed \in [Sessions -> BOOLEAN]
    /\ conn \in [Sessions -> {"none", "live", "dead"}]
    /\ {file, fpga} \subseteq Sessions \cup {Nobody}
    /\ binary \in DOMAIN Binaries
    /\ listening \in [by : Sessions, try : DOMAIN Binaries] \cup {Closed}
    /\ prompt \in BOOLEAN
    /\ disturbed \subseteq Sessions

(* However sessions overlap, at most one of them is connected to a server. *)
OneClient == Cardinality({s \in Sessions : conn[s] = "live"}) <= 1

(* A session that was alone on the board is connected to its own design,   *)
(* whatever earlier sessions left behind.                                  *)
OwnDesign ==
    \A s \in Sessions : conn[s] = "live" /\ s \notin disturbed => fpga = s

(* A session that is alone gets connected, whatever earlier sessions left  *)
(* behind: the server of another session, or a version of the binary that  *)
(* does not run; the delays have to be long enough.                        *)
GetsConnected ==
    \A s \in Sessions :
        prompt /\ py[s] = "put" ~> py[s] \in {"up", "gone"} \/ s \in disturbed
=============================================================================
