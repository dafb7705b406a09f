------------------------ MODULE BoardSessionProofs ------------------------
(***************************************************************************)
(* Proofs about BoardSession, for any number of sessions and any versions  *)
(* of the server's binary: type correctness, at most one connected client, *)
(* and that a session that is alone on the board meets its own design.     *)
(*                                                                         *)
(* A connected session has the one server that listens (Served); and the   *)
(* commands that the shell of a session alone on the board has yet to      *)
(* execute tell how far the board has got (Flashed, Alone).                *)
(***************************************************************************)
EXTENDS BoardSession, FiniteSetTheorems, SequenceTheorems, TLAPS

Commands == {"killall", "cat", "rm", "serve"}

Rank(command) ==
    IF command = "killall" THEN 1
    ELSE IF command = "cat" THEN 2 ELSE IF command = "rm" THEN 3 ELSE 4

\* The commands of a shell come in this order, each of them once.
InOrder(q) == \A i, j \in DOMAIN q : i < j => Rank(q[i]) < Rank(q[j])
Has(q, command) == \E i \in DOMAIN q : q[i] = command

Types ==
    /\ TypeOK
    /\ shell \in [Sessions -> Seq(Commands)]
    /\ \A s \in Sessions : InOrder(shell[s])

\* What a session has typed by then, and what its shell may have printed.
Typed(s) ==
    /\ py[s] \in {"new", "gone"} => shell[s] = <<>>
    /\ py[s] = "put" => \A c \in Commands : Has(shell[s], c) => c = "killall"
    /\ py[s] = "upload" => ~Has(shell[s], "serve")
    /\ py[s] \in {"new", "put", "upload"} => ~printed[s]
    /\ py[s] = "look" /\ printed[s] => shell[s] = <<>>

\* The server of a connected session is the one that listens.
Served(s) == conn[s] = "live" => py[s] = "up" /\ listening.by = s

Flashed(s) ==
    IF Has(shell[s], "cat")
    THEN file = s /\ listening.by # s /\ py[s] \notin {"up", "ended"}
    ELSE fpga = s

\* A session that is alone: it flashes the file that it has put there before
\* it starts a server.
Alone(s) ==
    Active(s) /\ s \notin disturbed =>
        /\ \A q \in Sessions \ {s} : ~Active(q)
        /\ py[s] # "put" => Flashed(s)

IInv == Types /\ \A s \in Sessions : Typed(s) /\ Served(s) /\ Alone(s)
-----------------------------------------------------------------------------

(* The shell executes the first command and goes on with the others.       *)
LEMMA Executing ==
    ASSUME NEW q \in Seq(Commands), InOrder(q), q # <<>>
    PROVE  /\ Head(q) \in Commands /\ Has(q, Head(q))
           /\ Tail(q) \in Seq(Commands) /\ InOrder(Tail(q))
           /\ \A c \in Commands : Has(Tail(q), c) <=> Has(q, c) /\ c # Head(q)
           /\ Head(q) = "serve" => Tail(q) = <<>>
<1>1. /\ Tail(q) \in Seq(Commands) /\ Len(Tail(q)) = Len(q) - 1 /\ Len(q) \in Nat \ {0}
      /\ \A i \in 1..Len(Tail(q)) : Tail(q)[i] = q[i + 1]
      /\ Head(q) = q[1]
      /\ DOMAIN q = 1..Len(q) /\ DOMAIN Tail(q) = 1..(Len(q) - 1)
  BY HeadTailProperties, LenProperties, EmptySeq
<1>2. InOrder(Tail(q))
  BY <1>1 DEF InOrder
<1>3. Head(q) \in Commands /\ Has(q, Head(q))
  BY <1>1 DEF Has
<1>4. \A i \in DOMAIN Tail(q) : Rank(Head(q)) < Rank(Tail(q)[i])
  BY <1>1 DEF InOrder
<1>5. ASSUME NEW c \in Commands
      PROVE  Has(Tail(q), c) <=> Has(q, c) /\ c # Head(q)
  <2>1. ASSUME Has(Tail(q), c)
        PROVE  Has(q, c) /\ c # Head(q)
    <3>1. PICK i \in DOMAIN Tail(q) : Tail(q)[i] = c
      BY <2>1 DEF Has
    <3>2. i + 1 \in DOMAIN q /\ q[i + 1] = c
      BY <1>1, <3>1
    <3>3. Rank(Head(q)) < Rank(c)
      BY <1>4, <3>1
    <3> QED
      BY <3>2, <3>3 DEF Has, Rank
  <2>2. ASSUME Has(q, c), c # Head(q)
        PROVE  Has(Tail(q), c)
    <3>1. PICK i \in DOMAIN q : q[i] = c
      BY <2>2 DEF Has
    <3>2. i - 1 \in DOMAIN Tail(q) /\ Tail(q)[i - 1] = c
      BY <1>1, <2>2, <3>1
    <3> QED
      BY <3>2 DEF Has
  <2> QED
    BY <2>1, <2>2
<1>6. ASSUME Head(q) = "serve"
      PROVE  Tail(q) = <<>>
  <2>1. \A i \in DOMAIN Tail(q) : FALSE
    BY <1>1, <1>4, <1>6 DEF Rank, Commands
  <2>2. Len(Tail(q)) = 0
    <3>1. Len(q) > 1 => 1 \in DOMAIN Tail(q)
      BY <1>1
    <3>2. ~(Len(q) > 1)
      BY <2>1, <3>1
    <3> QED
      BY <1>1, <3>2
  <2> QED
    BY <1>1, <2>2, EmptySeq
<1> QED
  BY <1>1, <1>2, <1>3, <1>5, <1>6

(* What stop() and flash_bitstream type ...                                *)
LEMMA Typing ==
    LET q == StopCommands \o FlashCommands IN
    /\ <<>> \in Seq(Commands) /\ InOrder(<<>>) /\ \A c \in Commands : ~Has(<<>>, c)
    /\ StopCommands \in Seq(Commands) /\ InOrder(StopCommands)
    /\ \A c \in Commands : Has(StopCommands, c) <=> c = "killall"
    /\ q \in Seq(Commands) /\ InOrder(q)
    /\ Has(q, "cat") /\ ~Has(q, "serve")
<1> DEFINE q == StopCommands \o FlashCommands
<1>1. StopCommands \in Seq(Commands) /\ Len(StopCommands) = 1 /\ StopCommands[1] = "killall"
  BY DEF StopCommands, Commands
<1>2. /\ FlashCommands \in Seq(Commands) /\ Len(FlashCommands) = 2
      /\ FlashCommands[1] = "cat" /\ FlashCommands[2] = "rm"
  BY DEF FlashCommands, Commands
<1>3. q \in Seq(Commands) /\ Len(q) = 3 /\ q[1] = "killall" /\ q[2] = "cat" /\ q[3] = "rm"
  <2>1. /\ q \in Seq(Commands) /\ Len(q) = Len(StopCommands) + Len(FlashCommands)
        /\ \A i \in 1..(Len(StopCommands) + Len(FlashCommands)) :
              q[i] = IF i <= Len(StopCommands) THEN StopCommands[i]
                                               ELSE FlashCommands[i - Len(StopCommands)]
    BY <1>1, <1>2, ConcatProperties
  <2> HIDE DEF q
  <2> QED
    BY <1>1, <1>2, <2>1
<1> HIDE DEF q
<1>4. DOMAIN q = 1..3 /\ DOMAIN StopCommands = 1..1
  BY <1>1, <1>3, LenProperties
<1>5. InOrder(q) /\ Has(q, "cat") /\ ~Has(q, "serve")
  BY <1>3, <1>4 DEF InOrder, Has, Rank
<1>6. InOrder(StopCommands) /\ \A c \in Commands : Has(StopCommands, c) <=> c = "killall"
  BY <1>1, <1>4 DEF InOrder, Has
<1>7. <<>> \in Seq(Commands) /\ InOrder(<<>>) /\ \A c \in Commands : ~Has(<<>>, c)
  BY DEF InOrder, Has
<1> QED
  BY <1>1, <1>3, <1>5, <1>6, <1>7 DEF q

(* ... and start() after them.                                             *)
LEMMA Serving ==
    ASSUME NEW q \in Seq(Commands), InOrder(q), ~Has(q, "serve")
    PROVE  /\ Append(q, "serve") \in Seq(Commands) /\ InOrder(Append(q, "serve"))
           /\ Has(Append(q, "serve"), "cat") <=> Has(q, "cat")
<1> DEFINE a == Append(q, "serve")
<1>1. /\ a \in Seq(Commands) /\ Len(a) = Len(q) + 1 /\ Len(q) \in Nat
      /\ \A i \in 1..Len(q) : a[i] = q[i]
      /\ a[Len(a)] = "serve"
  <2>1. "serve" \in Commands
    BY DEF Commands
  <2> QED
    BY <2>1, AppendProperties, LenProperties
<1>2. DOMAIN a = 1..Len(a) /\ DOMAIN q = 1..Len(q)
  BY <1>1, LenProperties
<1> HIDE DEF a
<1>3. \A i \in 1..Len(q) : q[i] \in Commands \ {"serve"}
  BY <1>2 DEF Has
<1>4. \A c \in Commands \ {"serve"} : Rank(c) < Rank("serve")
  BY DEF Commands, Rank
<1>5. InOrder(a)
  <2> SUFFICES ASSUME NEW i \in 1..Len(a), NEW j \in 1..Len(a), i < j
               PROVE  Rank(a[i]) < Rank(a[j])
    BY <1>2 DEF InOrder
  <2>1. i \in 1..Len(q) /\ a[i] = q[i]
    BY <1>1
  <2>2. CASE j = Len(a)
    BY <1>1, <1>3, <1>4, <2>1, <2>2
  <2>3. CASE j # Len(a)
    <3>1. j \in 1..Len(q) /\ a[j] = q[j]
      BY <1>1, <2>3
    <3> QED
      BY <1>2, <2>1, <3>1 DEF InOrder
  <2> QED
    BY <2>2, <2>3
<1>6. Has(a, "cat") <=> Has(q, "cat")
  <2>1. ASSUME Has(a, "cat") PROVE Has(q, "cat")
    <3>1. PICK i \in 1..Len(a) : a[i] = "cat"
      BY <1>2, <2>1 DEF Has
    <3>2. i \in 1..Len(q)
      BY <1>1, <3>1
    <3> QED
      BY <1>1, <1>2, <3>1, <3>2 DEF Has
  <2>2. ASSUME Has(q, "cat") PROVE Has(a, "cat")
    <3>1. PICK i \in 1..Len(q) : q[i] = "cat"
      BY <1>2, <2>2 DEF Has
    <3>2. i \in 1..Len(a) /\ a[i] = "cat"
      BY <1>1, <3>1
    <3> QED
      BY <1>2, <3>2 DEF Has
  <2> QED
    BY <2>1, <2>2
<1> QED
  BY <1>1, <1>5, <1>6 DEF a
-----------------------------------------------------------------------------

LEMMA InitInvariant == Init => IInv
<1> SUFFICES ASSUME Init PROVE IInv
  OBVIOUS
<1>1. Types
  <2>1. 1 \in DOMAIN Binaries
    BY BinariesAssumption, LenProperties
  <2> QED
    BY <2>1, Typing DEF Init, Types, TypeOK, Closed
<1>2. \A s \in Sessions : Typed(s) /\ Served(s) /\ Alone(s)
  BY DEF Init, Typed, Served, Alone, Active
<1> QED
  BY <1>1, <1>2 DEF IInv

\* A shell that is given commands, or what is left of them.
LEMMA ShellTypes ==
    ASSUME Types, NEW s \in Sessions, NEW q \in Seq(Commands), InOrder(q), Type(s, q)
    PROVE  /\ shell' \in [Sessions -> Seq(Commands)]
           /\ \A r \in Sessions : InOrder(shell'[r])
           /\ \A r \in Sessions : \A i \in DOMAIN shell'[r] :
                 shell'[r][i] \in {"killall", "cat", "rm", "serve"}
<1>1. shell' = [shell EXCEPT ![s] = q]
  BY DEF Type
<1>2. shell' \in [Sessions -> Seq(Commands)]
  BY <1>1 DEF Types
<1>3. \A r \in Sessions : InOrder(shell'[r])
  BY <1>1 DEF Types
<1>4. \A r \in Sessions : \A i \in DOMAIN shell'[r] : shell'[r][i] \in Commands
  BY <1>2, LenProperties
<1> QED
  BY <1>2, <1>3, <1>4 DEF Commands

LEMMA ListeningTypes ==
    ASSUME TypeOK, NEW s \in Sessions
    PROVE  /\ Token(s) \in [by : Sessions, try : DOMAIN Binaries]
           /\ Interrupt(s) => listening' \in [by : Sessions, try : DOMAIN Binaries] \cup {Closed}
BY DEF TypeOK, Token, Interrupt

(* Type correctness; a session types only what keeps the commands in order. *)
LEMMA ProgramKeepsTypes ==
    ASSUME Types, NEW s \in Sessions, Typed(s), Open(s) \/ Startup(s) \/ End(s) \/ Exit(s)
    PROVE  Types'
<1> USE DEF Goto
<1>1. CASE Open(s)
  <2>1. disturbed' \subseteq Sessions
    BY <1>1 DEF Open, Types, TypeOK
  <2> QED
    BY <1>1, <2>1, ShellTypes, Typing DEF Open, Types, TypeOK
<1>2. CASE Put(s)
  BY <1>2, ShellTypes, ListeningTypes, Typing DEF Put, Types, TypeOK
<1>3. CASE Upload(s)
  <2>1. shell[s] \in Seq(Commands) /\ InOrder(shell[s]) /\ ~Has(shell[s], "serve")
    BY <1>3 DEF Upload, Types, Typed
  <2>2. Append(shell[s], "serve") \in Seq(Commands) /\ InOrder(Append(shell[s], "serve"))
    BY <2>1, Serving
  <2> QED
    BY <1>3, <2>2, ShellTypes DEF Upload, Types, TypeOK
<1>4. CASE LooksFine(s)
  BY <1>4 DEF LooksFine, Types, TypeOK
<1>5. CASE LooksWrong(s)
  <2>1. attempt' \in [Sessions -> DOMAIN Binaries]
    <3>1. CASE VersionsLeft(s)
      <4>1. DOMAIN Binaries = 1..Len(Binaries) /\ Len(Binaries) \in Nat
        BY BinariesAssumption, LenProperties
      <4>2. attempt[s] + 1 \in DOMAIN Binaries
        BY <3>1, <4>1 DEF VersionsLeft, Types, TypeOK
      <4>3. attempt' = [attempt EXCEPT ![s] = @ + 1]
        BY <1>5, <3>1 DEF LooksWrong
      <4> QED
        BY <4>2, <4>3 DEF Types, TypeOK
    <3>2. CASE ~VersionsLeft(s)
      BY <1>5, <3>2 DEF LooksWrong, Types, TypeOK
    <3> QED
      BY <3>1, <3>2
  <2>2. /\ py' \in [Sessions -> {"new", "put", "upload", "look", "connect", "up",
                                 "failed", "ended", "gone"}]
        /\ printed' \in [Sessions -> BOOLEAN]
    BY <1>5 DEF LooksWrong, Types, TypeOK
  <2> QED
    BY <1>5, <2>1, <2>2, ShellTypes, ListeningTypes, Typing DEF LooksWrong, Types, TypeOK
<1>6. CASE Connect(s)
  BY <1>6 DEF Connect, Types, TypeOK
<1>7. CASE End(s)
  BY <1>7, ShellTypes, ListeningTypes, Typing DEF End, Types, TypeOK
<1>8. CASE Exit(s)
  BY <1>8, ShellTypes, ListeningTypes, Typing DEF Exit, Types, TypeOK
<1> QED
  BY <1>1, <1>2, <1>3, <1>4, <1>5, <1>6, <1>7, <1>8 DEF Startup

LEMMA ShellKeepsTypes ==
    ASSUME Types, NEW s \in Sessions, Shell(s)
    PROVE  Types'
<1>1. shell[s] # <<>> /\ Type(s, Tail(shell[s])) /\ UNCHANGED <<py, attempt, prompt, disturbed>>
  BY DEF Shell, KillAll, Cat, Rm, Serve, Command
<1>2. Tail(shell[s]) \in Seq(Commands) /\ InOrder(Tail(shell[s]))
  BY <1>1, Executing DEF Types
<1>3. CASE KillAll(s)
  BY <1>1, <1>2, <1>3, ShellTypes DEF KillAll, Types, TypeOK
<1>4. CASE Cat(s)
  BY <1>1, <1>2, <1>4, ShellTypes DEF Cat, Types, TypeOK
<1>5. CASE Rm(s)
  BY <1>1, <1>2, <1>5, ShellTypes DEF Rm, Types, TypeOK
<1>6. CASE Serve(s)
  BY <1>1, <1>2, <1>6, ShellTypes, ListeningTypes DEF Serve, Types, TypeOK
<1> QED
  BY <1>3, <1>4, <1>5, <1>6 DEF Shell
-----------------------------------------------------------------------------

\* What a step of s leaves alone: every other program and its shell.
Others(s) == \A q \in Sessions \ {s} :
    py'[q] = py[q] /\ shell'[q] = shell[q] /\ printed'[q] = printed[q]

LEMMA StepOfOne ==
    ASSUME Types, NEW s \in Sessions, Open(s) \/ Startup(s) \/ End(s) \/ Exit(s) \/ Shell(s)
    PROVE  Others(s)
BY DEF Others, Types, TypeOK, Goto, Type, Open, Startup, Put, Upload, LooksFine, LooksWrong,
       Connect, End, Exit, Shell, KillAll, Cat, Rm, Serve, Command

\* The shell of s executes a command.
LEMMA ShellStep ==
    ASSUME Types, NEW s \in Sessions, Shell(s)
    PROVE  /\ shell[s] # <<>> /\ shell'[s] = Tail(shell[s]) /\ ~Foreground(s)
           /\ UNCHANGED <<py, attempt, prompt, disturbed>>
           /\ Has(shell[s], Head(shell[s]))
           /\ \A c \in Commands : Has(shell'[s], c) <=> Has(shell[s], c) /\ c # Head(shell[s])
           /\ Head(shell[s]) = "serve" => shell'[s] = <<>>
<1>1. /\ shell[s] # <<>> /\ Type(s, Tail(shell[s])) /\ ~Foreground(s)
      /\ UNCHANGED <<py, attempt, prompt, disturbed>>
  BY DEF Shell, KillAll, Cat, Rm, Serve, Command
<1>2. shell'[s] = Tail(shell[s])
  BY <1>1 DEF Type, Types
<1> QED
  BY <1>1, <1>2, Executing DEF Types

LEMMA KeepsTyped ==
    ASSUME Types, NEW s \in Sessions, Typed(s),
           Open(s) \/ Startup(s) \/ End(s) \/ Exit(s) \/ Shell(s)
    PROVE  Typed(s)'
<1> USE DEF Types, TypeOK, Goto, Type
<1>1. CASE Open(s)
  BY <1>1, Typing DEF Open, Typed
<1>2. CASE Put(s)
  BY <1>2, Typing DEF Put, Typed
<1>3. CASE Upload(s)
  BY <1>3 DEF Upload, Typed
<1>4. CASE LooksFine(s)
  BY <1>4 DEF LooksFine, Typed
<1>5. CASE LooksWrong(s)
  <2>1. "serve" \in Commands
    BY DEF Commands
  <2> QED
    BY <1>5, <2>1, Typing DEF LooksWrong, Typed
<1>6. CASE Connect(s)
  BY <1>6 DEF Connect, Typed
<1>7. CASE End(s)
  BY <1>7 DEF End, Typed
<1>8. CASE Exit(s)
  BY <1>8 DEF Exit, Typed
<1>9. CASE Shell(s)
  <2>1. py'[s] = py[s] /\ py[s] \notin {"new", "gone"}
    BY <1>9, ShellStep DEF Typed
  <2>2. py[s] = "put" => \A c \in Commands : Has(shell'[s], c) => c = "killall"
    BY <1>9, ShellStep DEF Typed
  <2>3. "serve" \in Commands
    BY DEF Commands
  <2>4. py[s] = "upload" => ~Has(shell'[s], "serve")
    BY <1>9, <2>3, ShellStep DEF Typed
  <2>5. printed'[s] = printed[s] \/ Head(shell[s]) = "serve"
    BY <1>9 DEF Shell, KillAll, Cat, Rm, Serve, Command
  <2>6. Has(shell[s], Head(shell[s])) /\ shell[s] # <<>>
        /\ (Head(shell[s]) = "serve" => shell'[s] = <<>>)
    BY <1>9, ShellStep
  <2>7. Head(shell[s]) = "serve" => py[s] \notin {"new", "put", "upload"} /\ shell'[s] = <<>>
    BY <2>1, <2>3, <2>6 DEF Typed
  <2> QED
    BY <2>1, <2>2, <2>4, <2>5, <2>6, <2>7 DEF Typed
<1> QED
  BY <1>1, <1>2, <1>3, <1>4, <1>5, <1>6, <1>7, <1>8, <1>9 DEF Startup

LEMMA OthersKeepTyped ==
    ASSUME NEW s \in Sessions, Others(s), NEW q \in Sessions \ {s}, Typed(q)
    PROVE  Typed(q)'
BY DEF Others, Typed

(* However sessions overlap, the server that listens is that of the client *)
(* that is connected: nothing but "killall" and a session's own Ctrl-C     *)
(* closes the port, and the first of them ends the connection.             *)
LEMMA KeepsServed ==
    ASSUME Types, \A q \in Sessions : Served(q), NEW s \in Sessions,
           Open(s) \/ Startup(s) \/ End(s) \/ Exit(s) \/ Shell(s),
           NEW q \in Sessions
    PROVE  Served(q)'
<1> USE DEF Types, TypeOK, Goto, Type, Interrupt, Foreground
<1>1. CASE Open(s)
  BY <1>1 DEF Open, Served
<1>2. CASE Put(s)
  BY <1>2 DEF Put, Served
<1>3. CASE Upload(s)
  BY <1>3 DEF Upload, Served
<1>4. CASE LooksFine(s)
  BY <1>4 DEF LooksFine, Served
<1>5. CASE LooksWrong(s)
  <2>1. py[s] = "look" /\ py'[s] # "up" /\ conn' = conn
        /\ listening' = IF listening.by = s THEN Closed ELSE listening
    BY <1>5 DEF LooksWrong
  <2>2. q # s => py'[q] = py[q]
    BY <1>5 DEF LooksWrong
  <2> QED
    BY <2>1, <2>2 DEF Served
<1>6. CASE Connect(s)
  BY <1>6 DEF Connect, Accepts, Token, Served
<1>7. CASE End(s)
  BY <1>7 DEF End, Served
<1>8. CASE Exit(s)
  BY <1>8 DEF Exit, Served
<1>9. CASE KillAll(s)
  BY <1>9 DEF KillAll, Served
<1>10. CASE Cat(s) \/ Rm(s)
  BY <1>10 DEF Cat, Rm, Command, Served
<1>11. CASE Serve(s)
  <2>1. CASE listening = Closed
    <3>1. \A r \in Sessions : conn[r] # "live"
      BY <2>1, SessionsAssumption DEF Served, Closed
    <3> QED
      BY <1>11, <3>1 DEF Serve, Served
  <2>2. CASE listening # Closed
    BY <1>11, <2>2 DEF Serve, Command, Served
  <2> QED
    BY <2>1, <2>2
<1> QED
  BY <1>1, <1>2, <1>3, <1>4, <1>5, <1>6, <1>7, <1>8, <1>9, <1>10, <1>11 DEF Startup, Shell
(* A session that is alone stays so, or is disturbed: no other one can do  *)
(* anything but begin.                                                     *)
LEMMA OthersStayAway ==
    ASSUME Types, NEW s \in Sessions, Typed(s), NEW q \in Sessions \ {s}, Alone(q),
           Open(s) \/ Startup(s) \/ End(s) \/ Exit(s) \/ Shell(s)
    PROVE  Alone(q)'
<1> SUFFICES ASSUME Active(q)', q \notin disturbed'
             PROVE  FALSE
  BY DEF Alone
<1>1. disturbed \subseteq disturbed'
  BY DEF Open, Startup, Put, Upload, LooksFine, LooksWrong, Connect, End, Exit, Shell, KillAll, Cat,
     Rm, Serve, Command
<1>2. Active(q)
  BY StepOfOne DEF Others, Active
<1>3. ~Active(s)
  BY <1>1, <1>2 DEF Alone
<1>4. shell[s] = <<>>
  BY <1>3 DEF Active, Typed
<1>5. Open(s)
  BY <1>3, <1>4, ShellStep DEF Active, Startup, Put, Upload, LooksFine, LooksWrong, Connect, End, Exit
<1>6. q \in disturbed'
  BY <1>2, <1>5 DEF Open
<1> QED
  BY <1>6

(* What a session that is alone has flashed stays flashed.                 *)
LEMMA KeepsFlashed ==
    ASSUME Types, NEW s \in Sessions, Typed(s), Served(s), py[s] # "put" => Flashed(s), Active(s),
           Startup(s) \/ End(s) \/ Exit(s) \/ Shell(s), Active(s)'
    PROVE  py'[s] # "put" => Flashed(s)'
<1> USE DEF Types, TypeOK, Goto, Type, Interrupt, Foreground
<1>0. "cat" \in Commands /\ "killall" # "cat"
  BY DEF Commands
<1>1. CASE Put(s)
  <2>1. listening'.by # s
    BY <1>1, SessionsAssumption DEF Put, Closed
  <2>2. file' = s /\ py'[s] = "upload" /\ shell'[s] = StopCommands \o FlashCommands
    BY <1>1 DEF Put
  <2> QED
    BY <2>1, <2>2, Typing DEF Flashed
<1>2. CASE Upload(s)
  <2>1. Has(shell'[s], "cat") <=> Has(shell[s], "cat")
    BY <1>2, Serving DEF Upload, Typed
  <2> QED
    BY <1>2, <2>1 DEF Upload, Flashed
<1>3. CASE LooksFine(s)
  BY <1>3 DEF LooksFine, Flashed
<1>4. CASE LooksWrong(s)
  <2>1. shell[s] = <<>> /\ Flashed(s)
    BY <1>4 DEF LooksWrong, Typed
  <2>2. fpga = s
    BY <1>0, <2>1, Typing DEF Flashed
  <2>3. fpga' = s /\ shell'[s] = StopCommands
    BY <1>4, <2>2 DEF LooksWrong
  <2> QED
    BY <1>0, <2>3, Typing DEF Flashed
<1>5. CASE Connect(s)
  <2>1. /\ py[s] # "put" /\ shell' = shell /\ file' = file /\ listening' = listening /\ fpga' = fpga
        /\ py'[s] \in {"up", "failed"}
        /\ py'[s] = "up" => listening.by = s
    BY <1>5 DEF Connect, Accepts, Token
  <2> QED
    BY <2>1 DEF Flashed
<1>6. CASE End(s)
  <2>1. fpga = s
    BY <1>6 DEF End, Flashed
  <2>2. fpga' = s /\ shell'[s] = StopCommands
    BY <1>6, <2>1 DEF End
  <2> QED
    BY <1>0, <2>2, Typing DEF Flashed
<1>7. CASE Exit(s)
  BY <1>7 DEF Exit, Active
<1>8. CASE Shell(s)
  <2>1. /\ shell[s] # <<>> /\ py' = py /\ Has(shell[s], Head(shell[s]))
        /\ Has(shell'[s], "cat") <=> Has(shell[s], "cat") /\ "cat" # Head(shell[s])
    BY <1>0, <1>8, ShellStep
  <2>2. CASE KillAll(s)
    <3>1. Head(shell[s]) = "killall" /\ listening' = Closed /\ UNCHANGED <<file, fpga>>
      BY <2>2 DEF KillAll, Command
    <3> QED
      BY <2>1, <3>1, SessionsAssumption DEF Flashed, Closed
  <2>3. CASE Cat(s)
    <3>1. Head(shell[s]) = "cat" /\ fpga' = IF file = Nobody THEN fpga ELSE file
      BY <2>3 DEF Cat, Command
    <3> QED
      BY <2>1, <3>1, SessionsAssumption DEF Flashed
  <2>4. CASE Rm(s)
    <3>1. Head(shell[s]) = "rm" /\ UNCHANGED <<fpga, listening>>
      BY <2>4 DEF Rm, Command
    <3>2. ~Has(shell'[s], "cat")
      <4>1. shell[s][1] = "rm" /\ 1 \in DOMAIN shell[s]
        BY <2>1, <3>1, HeadTailProperties, LenProperties, EmptySeq
      <4>2. ASSUME Has(shell[s], "cat") PROVE FALSE
        <5>1. PICK i \in DOMAIN shell[s] : shell[s][i] = "cat"
          BY <4>2 DEF Has
        <5>2. DOMAIN shell[s] = 1..Len(shell[s]) /\ Len(shell[s]) \in Nat
          BY LenProperties
        <5>3. i > 1
          BY <4>1, <5>1, <5>2
        <5>4. Rank("rm") < Rank("cat")
          BY <4>1, <5>1, <5>3 DEF InOrder
        <5> QED
          BY <5>4 DEF Rank
      <4> QED
        BY <2>1, <4>2
    <3>3. ~Has(shell[s], "cat")
      BY <2>1, <3>1, <3>2
    <3> QED
      BY <2>1, <3>1, <3>2, <3>3 DEF Flashed
  <2>5. CASE Serve(s)
    <3>1. Head(shell[s]) = "serve" /\ shell'[s] = <<>> /\ UNCHANGED <<fpga, file>>
      BY <1>8, <2>5, ShellStep DEF Serve, Command
    <3>2. ~Has(shell'[s], "cat")
      BY <1>0, <3>1, Typing
    <3> QED
      BY <2>1, <3>1, <3>2 DEF Flashed
  <2> QED
    BY <1>8, <2>2, <2>3, <2>4, <2>5 DEF Shell
<1> QED
  BY <1>1, <1>2, <1>3, <1>4, <1>5, <1>6, <1>7, <1>8 DEF Startup

LEMMA KeepsAlone ==
    ASSUME Types, NEW s \in Sessions, Typed(s), Served(s), Alone(s),
           Open(s) \/ Startup(s) \/ End(s) \/ Exit(s) \/ Shell(s)
    PROVE  Alone(s)'
<1> SUFFICES ASSUME Active(s)', s \notin disturbed'
             PROVE  /\ \A q \in Sessions \ {s} : ~Active(q)'
                    /\ py'[s] # "put" => Flashed(s)'
  BY DEF Alone
<1>1. \A q \in Sessions \ {s} : Active(q)' <=> Active(q)
  BY StepOfOne DEF Others, Active
<1>2. CASE Open(s)
  <2>1. \A q \in Sessions \ {s} : ~Active(q)
    BY <1>2 DEF Open
  <2>2. py'[s] = "put"
    BY <1>2 DEF Open, Goto, Types, TypeOK
  <2> QED
    BY <1>1, <2>1, <2>2
<1>3. CASE Startup(s) \/ End(s) \/ Exit(s) \/ Shell(s)
  <2>1. disturbed' = disturbed
    BY <1>3 DEF Startup, Put, Upload, LooksFine, LooksWrong, Connect, End, Exit, Shell, KillAll, Cat,
       Rm, Serve, Command
  <2>2. Active(s)
    <3>1. CASE Shell(s)
      BY <3>1, ShellStep DEF Typed, Active
    <3>2. CASE Startup(s) \/ End(s) \/ Exit(s)
      BY <3>2 DEF Startup, Put, Upload, LooksFine, LooksWrong, Connect, End, Exit, Active
    <3> QED
      BY <1>3, <3>1, <3>2
  <2>3. py[s] # "put" => Flashed(s)
    BY <2>1, <2>2 DEF Alone
  <2>4. \A q \in Sessions \ {s} : ~Active(q)
    BY <2>1, <2>2 DEF Alone
  <2> QED
    BY <1>1, <1>3, <2>2, <2>3, <2>4, KeepsFlashed
<1> QED
  BY <1>2, <1>3

-----------------------------------------------------------------------------

(* The invariant holds for any number of sessions, with any overlaps.      *)
THEOREM Invariant == Spec => []IInv
<1>1. IInv /\ [Next]_vars => IInv'
  <2> SUFFICES ASSUME IInv, [Next]_vars PROVE IInv'
    OBVIOUS
  <2> USE DEF IInv
  <2>1. ASSUME NEW s \in Sessions, Open(s) \/ Startup(s) \/ End(s) \/ Exit(s) \/ Shell(s)
        PROVE  IInv'
    <3>1. Types'
      BY <2>1, ProgramKeepsTypes, ShellKeepsTypes
    <3>2. Others(s)
      BY <2>1, StepOfOne
    <3>3. \A q \in Sessions : Typed(q)'
      BY <2>1, <3>2, KeepsTyped, OthersKeepTyped
    <3>4. \A q \in Sessions : Served(q)'
      BY <2>1, KeepsServed
    <3>5. \A q \in Sessions : Alone(q)'
      BY <2>1, KeepsAlone, OthersStayAway
    <3> QED
      BY <3>1, <3>3, <3>4, <3>5
  <2>2. CASE UNCHANGED vars
    <3>1. Types'
      BY <2>2 DEF Types, TypeOK, vars, program
    <3>2. \A s \in Sessions : Typed(s)' /\ Served(s)' /\ Alone(s)'
      BY <2>2 DEF Typed, Served, Alone, Active, Flashed, vars, program
    <3> QED
      BY <3>1, <3>2
  <2> QED
    BY <2>1, <2>2 DEF Next
<1> QED
  BY <1>1, InitInvariant, PTL DEF Spec

(* Type correctness of the sessions and the board.                         *)
THEOREM TypeCorrect == Spec => []TypeOK
<1>1. IInv => TypeOK
  BY DEF IInv, Types
<1> QED
  BY <1>1, Invariant, PTL

(* A server serves one connection, and there is one server: however the    *)
(* programs of several sessions overlap, at most one of them is connected. *)
THEOREM OneClientAtATime == Spec => []OneClient
<1>1. IInv => OneClient
  <2> SUFFICES ASSUME IInv PROVE OneClient
    OBVIOUS
  <2> DEFINE live == {s \in Sessions : conn[s] = "live"}
  <2>1. live \subseteq {listening.by}
    BY DEF IInv, Served
  <2>2. IsFiniteSet({listening.by}) /\ Cardinality({listening.by}) = 1
    BY FS_Singleton
  <2>3. Cardinality(live) <= Cardinality({listening.by})
    BY <2>1, <2>2, FS_Subset
  <2> QED
    BY <2>2, <2>3 DEF OneClient
<1> QED
  BY <1>1, Invariant, PTL

(* RemoteInterface of a session that nobody disturbs is connected to the   *)
(* board with its own design: the file that it flashes is the one it has   *)
(* put there, and its shell flashes it before it starts the server.        *)
THEOREM MeetsOwnDesign == Spec => []OwnDesign
<1>1. IInv => OwnDesign
  <2> SUFFICES ASSUME IInv, NEW s \in Sessions, conn[s] = "live", s \notin disturbed
               PROVE  fpga = s
    BY DEF OwnDesign
  <2>1. py[s] = "up" /\ listening.by = s
    BY DEF IInv, Served
  <2>2. Flashed(s)
    BY <2>1 DEF IInv, Alone, Active
  <2> QED
    BY <2>1, <2>2 DEF Flashed
<1> QED
  BY <1>1, Invariant, PTL
=============================================================================
