# Formal models of pypga

pypga builds FPGA designs from Python classes and lets Python programs use the
registers of a running design over the network. This directory holds TLA+
specifications of its stateful parts, TLC configurations that check them on
small instances, and proofs that TLAPS checks for all values of the constants.
Line numbers below refer to `src/pypga/`.

## 1. The system and its parts

```
 TopModule.run --- Builder --- build/<board>/<class>, out/<board>/<class>/<hash>
      |                                                      | csr.csv, bitstream.bin
 RemoteInterface ----------------+---------------------------+
      | Client (lock, socket)    | Server (ssh shell, scp)
      |  requests / answers      |  killall, cat > xdevcfg, ./server port token
 ============================ network ============================
 server.c: one process waits for clients, one forked process per client
      |  loads and stores on /dev/mem
 CSR bus --- scalar registers, array registers --- logic: pulse generators,
             (core/register.py)                    counters, SPI, DAQ, AWG
```

| component | source | state | operations | interacts with |
|---|---|---|---|---|
| Array registers | `core/register.py:41-95`, loops of `server.c:299-346` | memory, bus word, address, pipeline of the copy | select a cell, store a value, copy a cell into the word; read and write a list | server process (bus accesses), logic (second port of the memory) |
| Scalar registers, value conversion | `core/register.py:97-320` | the word, "written" (`re`) | `__get__`, `__set__`, trigger, saturation, sign, fixed point, reversal | client, logic |
| Link | `remote/client.py`, `server.c:128-296` | lock, socket, both streams, the process's position in its loop | read, read from RAM, write, stop; receive, execute, answer, die | threads of the program, registers |
| Board session | `remote/server.py`, `sshshell.py`, `remote/interface.py` | token, queue of the shell, files on the board, port, FPGA configuration | connect, stop, flash, upload, start, end | other sessions through the board's files, port and `killall` |
| Build cache | `core/builder.py`, `boards/stemlab125_14/builder.py`, `core/module.py:361-399` | build and result directories | look up, build, check timing, copy | other processes through the file system, Vivado |
| Pulse generators | `modules/migen/pulsegen.py` | counter, carry, outputs, "on" | one clock edge | DAQ, AWG |
| Counter | `modules/migen/counter.py` | count with carry | one clock edge | programs through registers |
| SPI | `modules/migen/spimachine.py`, `spi.py` | state machine, clock generator, shift register | one clock edge | GPIO |
| DAQ, AXI writer | `modules/daq.py`, `migen/axiwriter.py` | sums, extrema, counts, the pipeline of the average, valid flags | one clock edge, set the length, trigger | pulse burst, array register or AXI bus |
| AWG | `modules/awg.py` | none of its own | one clock edge, store an element | pulse burst, array register |
| PI controller | `modules/migen/pid.py` | a pipeline of five stages, the integral | one clock edge | programs through registers |
| Module tree | `core/module.py`, `core/migen.py` | classes, objects with names and parents, constructors that are running | define a class, construct a design, name a register | CSR map, all registers |
| mux, adder, LED, GPIO, ADC, DAC, clocks, RAM modules, SoC, platform | `modules/`, `boards/`, `core/migen_axi/` | at most a register stage | | |

What makes each part correct, and what makes it hard:

* **Array registers.** A list written is the array read; nobody sees the index,
  the shift or the delay. Hard: one word has three writers and two meanings,
  the copy comes cycles later, the logic writes at the same time.
* **Link.** Calls of any threads are atomic; a call that fails leaves nothing
  behind that another call could trip over. Hard: timeouts with the answer on
  its way, partial `recv` and `sendall`, a dying server, `stop()` without lock.
* **Board session.** At most one program is connected, to its own design. Hard:
  shared files, port and `killall`; a shell that executes later than asked.
* **Build cache.** What runs was made from the design that was asked for. Hard:
  processes that build at the same time, or die while copying; a directory's
  existence stands for its completeness.
* **Pulse generators.** Pulses have the documented distance whatever is switched
  and triggered when. Hard: two counters, one of which learns of everything a
  cycle later; wrap of the reload.

* **Conversions.** What the program sets is what the logic gets, and the reverse.
  Hard: limits, sign, offset and rounding in the right order, at the edges.
* **SPI.** A device receives one word, bit by bit, with steady data around the
  sampling edge. Hard: three state machines that learn of each other a cycle
  late; numbers of half cycles that are zero; starts at any time.
* **Data acquisition.** Each cell holds what the mode makes of its bin. Hard: data
  and pulses go through different numbers of registers; lengths that wrap;
  address and data that travel on two channels.
* **AWG.** The output is the program's list, in its order and in time. Hard: a
  list that is reversed and counted down, an address a cycle late, triggers at
  the end of a waveform and in the cycle after it.
* **Counter.** It counts to its stop value, and the carry marks its wraps. Hard:
  it compares for equality only; a carry that is part of the number.
* **PI controller.** The output is exact up to its width. Hard: signals of four
  widths, each of which wraps.
* **Module tree.** A register that a program reads or writes is the one that the
  gateware has at this place, with the same type. Hard: constructors that run
  each other, inherited classes and registers, names on two sides.

The hazards are listed line by line in `PROJECT.json`.

## 2. Modules

| module | models | checked by |
|---|---|---|
| `ArrayStore` | abstract: an array with atomic element accesses | refined by `CsrArray` |
| `CsrArray` | array register and server loops, one step per clock edge | `array` |
| `CsrArrayProofs` | theorems about `CsrArray` | TLAPS |
| `AtomicRegisters` | abstract: a bank of registers with linearizable calls | refined by `RemoteLink` |
| `RemoteLink` | client, streams and server process | `MC_RemoteLink`: `link`, `link_faults`, `link_stale` |
| `RemoteLinkProofs` | theorems about it | TLAPS |
| `PulseGen` | `MigenPulseGen`, one step per clock edge | `MC_Blocks`: `blocks` |
| `PulseTrain` | abstract: a countdown of pulses | refined by `PulseBurst` |
| `PulseBurst` | `MigenPulseBurstGen`, with `PulseGen` instantiated as its inner generator | `MC_Burst`: `burst`; `burst_zero` |
| `Awg` | the AWG on a `PulseBurst`, one step per clock edge | `MC_Burst`: `burst` |
| `AwgProofs` | theorems about `PulseBurst` and `Awg` | TLAPS |
| `Counter` | `MigenCounter` and its registers, one step per clock edge | `MC_Blocks`: `blocks` |
| `Pid` | `MigenPid`, one step per clock edge | `MC_Blocks`: `blocks` |
| `BuildCache` | `TopModule.run` and the builder, several processes | `MC_BuildCache`: `cache`, `cache_shared` |
| `BoardSession` | sessions on one board | `MC_BoardSession`: `session` |
| `BuildCacheProofs`, `BoardSessionProofs` | theorems about the two | TLAPS |
| `RegisterCodec` | the conversions between Python values and words | `MC_Registers`: `registers` |
| `ModuleTree` | class definition, construction of objects, names of registers | `MC_Registers`: `registers` |
| `RegisterProofs` | theorems about the two | TLAPS |
| `SpiFrame` | abstract: a device is sent one word | refined by `SpiMachine` |
| `SpiMachine` | `SPIMachine`, `ClockGen`, `Register`, `MigenSPI` and a device, one step per clock edge | `MC_Blocks`: `blocks` |
| `BlocksProofs` | theorems about `PulseGen`, `SpiMachine`, `Counter` and `Pid` | TLAPS |
| `Daq` | the DAQ, with `PulseTrain` as its burst generator and `AxiWriter`, one step per clock edge | `MC_Daq`: `daq` |
| `AxiWriter` | `MigenAxiWriter` and the bus | `MC_Daq`: `daq` |
| `DaqProofs` | theorems about `Daq` | TLAPS |

Three MC modules put together what does not interact, so that one run checks it:
`MC_Blocks` chooses one logic block at the start, clocks it and lets the others
rest; `MC_Burst` is a burst generator by itself or an AWG; `MC_Registers` has a
part about values and a part about places. A property of a block that rests
holds trivially in those behaviours, and is checked in the ones where it runs.

**CsrArray.** The gateware's registers (`storage`, `re`, `adr`, `memadr`,
`wePipeline`, `csrWe`, `datW`, `portWe`) are variables of those names, and
`Edge` gives all of them their next values, as the `sync` statements do.
`memadr` is the address that the synchronous read port of the memory latches.
`CSRStorage` and `Memory` belong to misoc and migen: a bus write wins over the
gateware's own write of the word, `re` is high in the cycle after a bus write.
The server's loops become `BusIndex`, `BusFetch`, `BusStore` and `BusPoke`, each
taking place at one clock edge; `Tick` is an edge without an access. `BusGap`
is the least number of edges between two accesses: the code has no handshake,
and relies on a load or store through the AXI bridge taking many cycles of the
fabric. With a gap below four the properties fail; four is the assumption of
the theorems (`SlowBus`).

**RemoteLink.** A stream is a sequence of four-byte units, and one unit of data
stands for all the data of a request. Every blocking operation of client and
server is a step of its own, so that everything may happen in between. `reads`
and `read_from_ram` call `recv` until they have all (`Recv` with any amount),
the acknowledgement of a write is fetched by a single `recv`. A header that
is made of other units is taken as whatever its characters say: here, as an
unknown character (the process ends), an address that is no register (it ends as
well), or a value that nobody wrote. `Faults` says what may go wrong. The end of
the stream in the middle of `reads` is a loop over empty results until the
deadline, `RecvEnds` is its end.

**PulseGen, PulseBurst.** `Clock` and `Edge` are the `sync` blocks. Counter
and carry are decremented as one number. `CountSpan` is 2^w; the period is
constant during a behaviour.

**Awg.** `AwgEdge` is an edge of the burst generator together with the read port
of the memory, whose address is the count of the cycle before, and a store of
the program. Cells are numbered as in the memory; `Cell` is the reversal that
`__set__` applies to the list. A store takes effect at once here: that it does,
as far as anybody can tell, is what `CsrArray` is about. `Due` is the sample that
the documentation lets one expect, and `early` marks the case in which the first
one is a cycle shorter.

**Counter.** Direction and the existence of a stop value are fixed, everything
else may be set between any two edges. `value` is `count_with_carry`.

**Pid.** The signals are those of `MigenPid`, each with its width (`Signed`).
`recent` and `integral` are what an exact controller would need to know.

**ModuleTree.** `DefineClass` is `__init_subclass__`: the annotations, those of
the base classes included, are scanned first, and then the attributes, among
which the registers of base classes are found as instances. `Run` constructs a
design; `stack` holds the constructors that are running. `InitModule`,
`InitSubmodule` and `SkipInit` are `_init_module`, `CallInherited` and `RunBody`
the two things that a replaced constructor may do, `Return` assigns a submodule
to its attribute. `Rows` is the gateware's list of registers, built from the same
classes by `AutoMigenModule`. A name is a sequence of words, so that joining
names with the separator is concatenation.

**BuildCache.** A file is the design that it was made from, `None`, or
`Partial`. Vivado reads the sources at one time and writes bitstream and log at
a later one. Removing and making a result directory are separate steps, and so
are the beginning and the end of each copy. `Exclusive` restricts which designs
are run at the same time.

**BoardSession.** A session is named like its design. The program's steps
send commands to the session's shell; `KillAll`, `Cat`, `Rm` and `Serve` are
their execution. A running server is in the foreground of the shell that
started it and blocks it until it dies. `prompt` says whether the fixed delays
(`sshshell.py:91`, `server.py:98`) are long enough. `stop()` happens at the end
of a session and again whenever its object is deleted (`core/module.py:395-399`),
so `End` may be repeated. The second shell of `extra_shell` and the
`reboot`/`shutdown` helpers are left out.

**RegisterCodec.** A register is a record of its class attributes. `Set` and
`Get` are `__set__` and `__get__`, one conversion method each is an operator
(`NumberFromPython`, `FixedToPython`, ...), `Logic` gives values to a register
that the program only reads. Python's numbers are multiples of 1/`Den`, so that
truncation and rounding are exact. `LogicSeesValue` is the comment
`register.py:101`, "fpga value = Python value + offset_from_python", with the
limits; `Excepted` names the values for which the code does something else:

* a plain register's value beyond its width becomes zero, not the largest;
* a signed register with an offset takes values between zero and the offset for
  negative ones, and its lowest values become positive (no register of the
  package is set to such values, except for lengths of zero).

**SpiMachine.** Each state of the machine is an action, which runs together with
one step of `ClockGen` and of the shift register; `machine`, `cg` and `reg` are
the three sets of registers. The device samples at the edge its mode says and
appends to `got`. `start` and `data` are free at every edge, the settings are
free but fixed. `MigenSPI` adds inverters for the polarities and the selection of
one of several devices, which are left out.

**Daq, AxiWriter.** Every action is a step of `PulseTrain`, to which `PulseBurst`
is shown equivalent for whoever sees its outputs, together with `Logic`: the
`sync` statements of `daq.py`. Mode and `port` (one of the AXI ports, or none for
the array register) are arbitrary but fixed, the length changes at any time. `Period`
and `Factor` are two registers (`daq.py:56-73`): only the setter of
`sampling_period` changes both (`daq.py:91-93`), so the factor need not be that
of the period. Data are signed or not (`DataSigned`); `Cut` is what is left of a number in
a register. `bin` collects the inputs since the last pulse, and `before` has the
bin before it. `Missing` says how many of the last inputs have not come
through the pipeline when a value is stored, and `Passed` what has: the bin without them, or,
if it is not longer than that, the bin before or its beginning. The bus takes address and data
of an offer independently and pairs them in their order; `AxiWriter` withdraws
both after one cycle. `RamAddress` is the address that the gateware forms: areas of
ports are 2^20 samples apart (`AreaSpan`), and the mask leaves four times that.

## 3. Runs

| run | shows | bounds |
|---|---|---|
| `array` | a writable array implements `ArrayStore`; lists of two are stored whatever shorter ones did, reads return the array, each element a value its cell had between the element's two accesses | 2 cells of 4 values, gap 4, lists of 0, 1 and 2 |
| `link` | calls are atomic with two threads, short acknowledgements and a dying server; the lock is free only when the conversation is over | 2 threads, 2 registers (one changed by the logic), 2 values, 1 death |
| `link_faults` | with every fault, `stop()` included, a read never returns another register's value; the lock comes back, a stopped client's server ends | 1 thread, 2 registers, 2 faults |
| `link_stale` | violated: a late answer is returned to the next read of the same register | 1 fault |
| `blocks` | a pulse exactly every period + 2 cycles; the counter stops where whole steps lead to and its carry marks its wraps; the controller is exact up to its width; an SPI device receives one word bit by bit, data are steady around the sampling edge, a transfer takes its time | pulse generator: period 63 of 64, all switchings; counter: 8 values, six settings, both directions; controller: 2 bits; SPI: words of 3 bits, divisors 0, 1, 2 of a 2-bit counter, 0 to 2 half cycles of each kind |
| `burst` | the burst generator implements `PulseTrain`; a waveform is played in order and in time, and the next one follows when it is over | period 14 of 16, bursts of 1 to 4 pulses, trigger and reset at any cycle; 4 samples of 2 values, stores at any cycle |
| `burst_zero` | violated: with a period of zero the second pulse comes after the counter's whole range | period 0, bursts of 2 and 4 pulses |
| `cache` | no design is run with another's files; a built design is not built again | 2 processes, 2 classes, 3 designs of which one misses timing, 1 death |
| `cache_shared` | violated: two versions of a class built at the same time | 2 processes, no death |
| `registers` | the logic gets what the program sets, a read returns what the logic has; each register of each object is the gateware's, and constructors find their submodules | 20 registers of 3 bits (5 from RAM), lists of 2, 25 numbers from far below to far above; 3 classes with 3 members in all, 3 names of which one is the other two joined |
| `daq` | each cell, in a register or in RAM, holds what the mode makes of its bin; an acquisition takes its number of samples | period register 2 (bins of 3 and of 4 cycles), 1 and 4 samples, 2 cells, all modes, signed inputs below and above the threshold, 1 offer of which the bus takes one half, 1 port with an area of 2 samples |
| `session` | one client at most; a session that is alone runs its design and gets connected | 2 sessions, 2 versions of the server of which the first does not run |

Why the bounds suffice. Two cells tell a cell from its neighbour, and the copy
of one is at most one access away from the next; four values tell a value from
an index word and from zero. Two threads make every conflict about the lock and
about a stale answer; a third would only wait. Registers and values are
interchangeable in the link, so the threads are symmetric and two of each
suffice. One death, or two faults, are the longest chains of causes a single
call can meet before the next call meets their effect. The pulse generators are
checked with a counter that uses its whole range. Three classes are a module in a
module in a module, or a chain of inheritance of two steps, and three members are
enough for one that is inherited, overridden or used twice. Eight values and steps
of 0, 1, 2, 3, 6 and 7 let the counter meet its stop value, jump over it and wrap;
two bits let each of the controller's signals reach its limits. Two processes and three
designs, two of them of one class, give all pairs of same or different class
and design. The codec's registers have every kind, sign, offset, limit and
shape that the package uses, with numbers on both sides of every limit. Three
bits tell the first, a middle and the last bit of a word; the three divisors are
the one that wraps, the least, and one that is neither. With a
period register of 2 the first bin of an acquisition has three cycles, no more than the
pipeline of the average, and the others have four, so both cases of `Passed` occur;
four samples in two cells wrap the address, and do not fit into an area of two.
Two sessions give all overlaps of two startups; one may be dead,
ended or starting. What does not depend on such bounds is proved (section 5).

The three violated runs are disagreements between the code and what its docs
say; `findings` in `PROJECT.json` quotes them. Others, seen while modelling and,
where a module is named, reproduced with it by changing a constant or a property:

* `interface.py:33` says that each element of a list is written; a list of one
  element is written as a plain word (`CsrArray`, `BusPoke`);
* the header of `daq.py` promises averages; an average lacks the last three
  inputs of its bin (two in RAM), but is divided by all; maxima, minima and counts
  in a register lack the last one (`Daq`, `AveragesBin` is violated in mode 0).
  Of a bin of three cycles nothing but the bin before is in the average: with the
  register 1, which `daq.py:64` allows, that is every bin but the first, which has two cycles,
  and with the register 2 the first one.
  The factor that divides the sum is that of the period only if
  `sampling_period` was set, and not `sampling_period_cycles`.
  `daq.py:167` wonders which of the values has a glitch: it is the first, which
  has no bin;
* the DAQ's `length` is offset twice, so one sample less is taken, and of a length
  of one the count wraps (`Daq`, `TakesLength`); an input equal to the threshold
  hides an edge; the `data` register is declared with `reversed` where the option
  is `reverse`, so it comes last sample first; `get_data()` leaves out one sample;
* a sample that the AXI bus does not take at once is lost, and if it takes only
  one half, all later samples are at a wrong address (`Daq`, `RamHoldsBins`
  without `stalls = 0`);
* numbers in a reversed array, as in the AWG, can be written and not read, and
  with no decimals, the default of AWG and DAQ, all that is set becomes zero
  (`RegisterCodec`, `Unreadable` and `Scale`);
* `spi.py:26` accepts `lsb_first` and connects it to nothing; `spi.py:22` says
  that `cs_polarity = True` is active high, and the XOR makes it active low;
  `clock_div` is not the fraction of the clock rate but a half cycle less one, as
  `spimachine.py:122` knows, and zero means the whole range of the counter;
* an index that needs more bits than a cell is cut (`CsrArray` with four cells
  of two values);
* a write cut off by the timeout of `sendall` is completed with the next
  request's header, and stored (`RemoteLink` with the fault `torn`);
* a trigger in the cycle after a burst makes the next two pulses come one cycle
  early (`PulseBurst` with `EvenSpacing`), and shortens an AWG's first sample;
* `counter.py:18` and 28 promise a stop "at or beyond" the stop value, the counter
  stops only at it (`Counter`, `DoneBeyondStop`); `modules/counter.py` does not
  pass its width on, so that a counter with registers of another width than 32
  bits still wraps, and shows its carry, at 2^32;
* `pid.py:18` promises saturation; the output is the lower bits of the sum
  (`Pid`, `OutIsExact`);
* a subclass that gives an inherited register another type gets the base
  class's (`ModuleTree`, `OwnTypeCounts`), and a class that inherits a trigger
  register cannot be defined: to look at the attribute raises an error
  (`register.py:211-214`, `module.py:52`; `CanInherit`). `README.rst:7` says that
  modules can be inherited from;
* two registers have the same name in the list of addresses when a module `a`
  has a register `b_c` and a module `a_b` a register `c` (`ModuleTree`,
  `NamesDiffer`); a program then reaches only one of them;
* the hash of a design does not cover the SoC around it (`builder.py:47`), so a
  change of the SoC finds the old result;
* acquisitions longer than 2^20 samples write into the RAM of the next AXI port
  (`Daq`, `RamHoldsBins` without its condition on `Place`);
* `server.c:23` says that unknown messages are ignored; they end the process.

## 4. Fairness

`link_faults` assumes weak fairness of the server process and of the thread that
holds the lock: both are running programs, and each of their socket operations
ends by an answer, by the end of the stream or by the socket's timeout
(`client.py:22`). Nothing makes a thread call, makes a given thread win the
lock (`threading.Lock` is not fair), makes the program stop or the server die.
`session` assumes weak fairness of a session's startup, whose steps have fixed
delays and timeouts, and of its shell. Nothing makes a session begin or end.
All other runs check safety only. `CHECK_DEADLOCK FALSE` in `session.cfg`: when
all sessions are over, nothing is left to do.

## 5. Proofs

All theorems hold for every value of the constants that satisfies the named
assumptions and the hypothesis given here.

| theorem | statement | hypothesis |
|---|---|---|
| `CsrArrayProofs!TypeCorrect` | `Spec => []TypeOK` | `Proper` |
| `CsrArrayProofs!FetchesInWindow` | `FetchedValueWasHeld` | `Proper` |
| `CsrArrayProofs!StoresList` | `LongListStored` | `Proper` |
| `CsrArrayProofs!ReadsArray` | `ReadReturnsArray` | `Proper`, writable |
| `CsrArrayProofs!Implements` | `Spec => ImplementsStore` | `Proper`, writable |
| `BlocksProofs!PulseTypes`, `PulsesInTime` | `[]TypeOK`, `[]PulseEveryPeriod` | no offset of the first cycle |
| `AwgProofs!TypeCorrect`, `Implements` | `[]TypeOK`, `Spec => ImplementsTrain` | period of at least 1 |
| `AwgProofs!Plays`, `FollowsOn` | `AwgSpec => []PlaysList`, `[]Seamless` | period of at least 1 |
| `BlocksProofs!CounterTypes`, `CarryIsWrap`, `StopsThere` | `[]CounterTypeOK`, `CarryMarksWraps`, `[]StopsAtStop` | `CounterConstantsFit` |
| `RemoteLinkProofs!TypeCorrect` | `Spec => []TypeOK` | none: all faults |
| `RemoteLinkProofs!AnswersOwn` | `AnswersOwnRegister` | none: all faults |
| `RemoteLinkProofs!QuietBetweenCalls` | `[]QuietWhenUnlocked` | `Prompt` |
| `RemoteLinkProofs!FreshReads` | `ReadsFresh` | `Prompt`, no `stop()` |
| `RemoteLinkProofs!CallsAreAtomic` | `Spec => ImplementsAtomic` | `Prompt`, no `stop()` |
| `BuildCacheProofs!OwnFiles`, `NoSecondBuild` | `[]RunsOwnFiles`, `BuiltOnce` | `Exclusive` |
| `BoardSessionProofs!TypeCorrect` | `Spec => []TypeOK` | none |
| `BoardSessionProofs!OneClientAtATime`, `MeetsOwnDesign` | `[]OneClient`, `[]OwnDesign` | none |
| `BlocksProofs!SpiTypes` | `SpiSpec => []SpiTypeOK` | `SpiConstantsFit` |
| `BlocksProofs!TakesItsTime` | `SpiSpec => []InTime` | `SpiConstantsFit` |
| `BlocksProofs!DataAreSteady` | `SpiSpec => SetupAndHold` | `SpiConstantsFit` |
| `BlocksProofs!Implements` | `SpiSpec => ImplementsFrame` | `SpiConstantsFit` |
| `BlocksProofs!PidTypes`, `OutputIsExact` | `[]PidTypeOK`, `[]OutIsExact` | `PidConstantsFit` |
| `BlocksProofs!BlocksTypes` | `BlocksSpec => []BlocksTypeOK` | the three |
| `DaqProofs!TypeCorrect`, `TakesItsLength` | `[]TypeOK`, `TakesLength` | period register of at least 1 |
| `DaqProofs!RegisterStoresBins`, `RamStoresBins` | `[]RegisterHoldsBins`, `[]RamHoldsBins` | period register of at least 1, `BinsFit` |
| `RegisterProofs!TypeCorrect`, `ReadsWhatLogicHas` | `[]TypeOK`, `[]ReadsLogicValue` | `RegistersFit` |
| `RegisterProofs!LogicGetsWhatIsSet` | `[]LogicSeesValue` | `RegistersFit` |
| `RegisterProofs!ConstructorsFindSubmodules` | `TreeSpec => []BodiesFindSubmodules` | none |
| `RegisterProofs!AccessFindsOwn` | `TreeSpec => []AccessReachesOwn` | none |
| `RegisterProofs!TreeTypeCorrect` | `TreeSpec => []TreeTypeOK` | none |

`Proper` says that an index fits into a cell's width and that accesses are at
least four edges apart; both are needed, as the list above and the paragraph on
`CsrArray` in section 2 say. Lists of fewer than two elements are allowed: the
abstract array lets them change one cell (`Poke`), which is all that can be
promised of them.

`CounterConstantsFit`, `PidConstantsFit` and `SpiConstantsFit` say that settings fit
their registers. `BlocksTypes` is about the module of the run, in which one block is
clocked; that the settings of the blocks that rest are among the possible ones
(`RestsAssumption`) is needed only there. The assumptions of `Daq` say the same of inputs, threshold
and lengths, the length register being one bit narrower than the burst generator's count,
and that the period register is not zero, because the burst generator then makes no
train of pulses (`burst_zero`). Data may be signed or not, and the factor and the widths
are any. `BinsFit` says that a bin is short enough
for the counters that its mode depends on: 2^`max_samples_in_bits` for the sum of the average, the
largest number that the data can be for counts of edges and of samples. The code wraps where it is
not, and the theorems say nothing of such bins. Bins that are shorter than the pipeline are
not excluded: of these, the theorems say that the bin before is stored, and in RAM nothing is
said of a place beyond the port's area.

`RegistersFit` is about the attributes of register classes, which nothing in the
code checks: their types, lower limits that are not above upper ones, offsets
that leave zero within a number's range, words from the RAM that are at least as wide as
the register, Boolean and fixed point registers without an offset. Plain and Boolean registers are
unsigned and without limits, as those attributes only exist for numbers. The
registers of the package's modules are of this kind; `MC_Registers` has TLC
evaluate it for those of the run. The widths, depths, offsets, limits and numbers are any.

The theorems about `ModuleTree` assume of names only that they are finitely many
finite sequences (`NamesAssumption`), that no name is the mark of an object that has
none (`NoNameAssumption`), and that the bounds are numbers (`BoundsAssumption`).
Nothing is assumed of the classes but that `DefineClass` has made them.

*CsrArray.* The inductive invariant `IInv` adds four parts to the types.
`LoopInv`: position and phase agree with the operation and the length. `SelectInv`: in the data
phase the selected address is that of the current element, once the index
access has settled. `SettleInv`: how long ago the last access was determines
what is still under way in the pipeline, so that nothing is on its way when the
next access is allowed. `TransferInv`: what the word holds when it is fetched is
a value that the cell had since it was selected, and of a writable array the
value that it has. The refinement maps the abstract cells to the memory together
with a store that is still on its way (`Cells`), so that the store happens at
the bus access. Steps that are not accesses map to stuttering.

*PulseGen.* The counter and the carry are a function of the cycles since "on"
rose (`high`); the remainder arithmetic of the wrapped reload is lemma `SmallMod`.

*PulseBurst.* The invariant relates the inner generator to the burst: which
combinations of busy, on, carry and output occur, and that the counter is
`Countdown` minus two. The refinement has one step per case of the outputs
(`EdgeTrain`).

*Awg.* The proof does not look into the pulse generator again: `EdgeTrain` says
that every edge is a step of `PulseTrain`, and `AwgInv` is about the train. During
a waveform the time since its first sample is `Played(count)`, the time of the
samples that are over, plus what the countdown has counted (`PlayInv`), and the
latched address is the count, or one more at the moment of a pulse; at rest and
at the beginning it is the end of the time before (`RestInv`, `BeginInv`). With
`Mirror`, that memory and list are each other's reversal, the sample that is due
follows by a division with remainder (`DueFacts`).

*Counter.* That the count has not passed the stop value says too little of where
the next step leads. `StopInv` says that the stop value is a whole number of steps
ahead, as long as the settings are those with which the count was at the start
value, so that no step can jump over it.

`FetchesInWindow` also covers arrays that the logic writes (`Readonly`): the run `array`
is about a writable one, so for the others this property rests on its proof alone.

*RemoteLink.* There are two inductive invariants. `LinkInv` holds whatever goes
wrong. Besides the types it says that the thread that holds the lock is the one
in a conversation (`Locked`), and what the stream to the client looks like
(`Streams`): a control character that announces data, if an address follows it,
is followed by data of that address, in what the client has taken together with what is
in transit. Units are lost only at the end of the stream, when the server dies;
`clear` takes units from its beginning only when nobody waits for them. So a
header that matches the request stands before data of the requested register, even
if they are those of an earlier request: `AnswersOwn` needs no hypothesis.

`QuietInv` adds, as long as the client is not stopped, that the stage of the
conversation agrees on both sides (`Conversation`): the request is on its way
(`Requested`), the server is at it (`Serving`), or the answer is on its way
(`Responded`), and what has been sent is the beginning of the one answer that is
`Expected`; a server that was killed leaves such a beginning (`Broken`). `Fresh`
relates the history variables: the value that was served is among those that
the register has had since the call began. `QuietBetweenCalls` and `FreshReads`
follow. For the refinement, the server's steps at which it reads or writes the
logic (`FetchValues`, `SendRam`, `StoreValues`) are `Apply`, the check of a
matching header is `Return`, every other end of a call is `Fail`, and all other
steps, changes of registers by the logic apart, stutter.

`Prompt` excludes two faults that the code does not survive: an answer that
comes after the client has given up (the run `link_stale` shows the old value that is
then returned), and a request cut off by a timeout of `sendall`, which the next
header completes, so that a header is stored as a value. `stop()` is excluded for atomicity alone:
it ends a call whose request the server may still carry out. Short
acknowledgements and the death of the server are not excluded. `RegistersAssumption`,
that there is a register and a value, is what the history variables start from.

*BuildCache.* A process at work owns the build directory of its class and the
result directory of its design (`Apart`, kept by the hypothesis `Exclusive`).
`Stage` says for every step of the builder which of the files are of its own
design by then, and lemma `OthersKeepStage` that no other process disturbs that;
what a crash leaves in a build directory is replaced by a later build before it is used, and
what it leaves in a result directory is of this design, whole or in part (`Kept`): a
design that was killed while its results were copied is run with a part of its own file,
which `RunsOwnFiles` allows because the code does not notice. `Exclusive` is needed:
`cache_shared` shows what happens without it.

*BoardSession.* The commands that a session's shell has yet to execute come in a
fixed order, each of them once (`InOrder`). Which of them are left tells what the
board has: before `cat` has been executed, the session's bitfile and somebody else's server or none;
after it, its design (`Flashed`). A connected session has the one server that
listens (`Served`), which is why there is one client at most.

*SpiMachine.* `Clocked` says that the clock generator has been started or counts
exactly while the machine waits for the end of a half cycle, and rests otherwise: so it is never started in
vain, and no state is waited in for ever. Then the cycles that have passed and
those ahead add up to the length of the transfer (`Timed`): `Spent` cycles of
this half cycle are over, `Ahead` half cycles and some transitions are to come. Each edge is of one
of two kinds (`MachineEdge`): it waits, or it turns to another half cycle
(`TurnsFrom`). The data line is at least as old as the current half cycle
(`Steady`), and after k shifts the register holds the word shifted k times
(`Sent`), so that the bit on the line is the one that `SpiFrame` sends next.

*Pid.* A signal that keeps the lower bits differs from the exact number by a multiple
of its span, and all spans are multiples of 2^width. `Same` says that two numbers
differ by a multiple of 2^width; sums and products of numbers that are the same are the same
(`SameSum`, `SameTimes`), and numbers that are the same have the same signed value
(`SignedAlike`). `Passed` says of each stage of the pipeline that it is the same as the
exact value for the error that has come so far, which makes the output exact.

*Daq.* The proof has two layers. `TimeInv` is about the train of pulses: with the types, the
length of the bin and the countdown to the next pulse add up (`Paced`), and the samples
taken and the count to what was asked for (`Counted`), from which
`TakesLength` follows, the wrapped length of zero included. `DataInv` is about the
data: the sum, the extrema and the counts are those of the bin so far
(`Reduced`), each register of the pipeline has what the mode makes of what the bin was some
cycles ago, or of the bin before if it had not begun by then (`Ago` and `Piped`: what one register
holds is what the one before it held a cycle ago), and what is offered to the bus is an address and the value
that belongs to it, with nothing left from earlier offers as long as the bus took
both halves or neither (`OfferedTogether`). `Total`, the sum
of a sequence, is a recursive function, and what it does when an element is appended needs
an induction. There is one without a theorem that has an operator for a parameter: if
two functions differ somewhere, there is a least place where they do (`Least`), and
there they do not.

*RegisterCodec.* The prover knows nothing of 2^n. That an interval of n numbers has
2^n subsets, which is a fact of its library, gives that powers of two are positive, grow and
double. The invariant `CodecInv` says that every cell has been given what was set
(`CellsHoldSet`), with nothing of the other elements, and that a result is what
the cells hold (`ResultIsOfCells`). The rest is about one conversion. A read: the
signed value of a word is the number of its range that differs from it by a multiple
of 2^width, and dividing it by its scale and multiplying again loses
nothing (`ReadValue`). A write: `NumberSeen` has three cases of what the offset does to a number that has
been cut at the limits (nothing to its sign; it takes one that is not negative below
zero, where the code stops; it takes a negative one below the range, which
`Excepted` names), and the wrap of a negative number cancels the sign of the word; `FixedSeen` needs that cutting two numbers at the same limits brings them no
further apart (`LimitNear`), because the code rounds and then cuts.

*ModuleTree.* The property is about the instant at which a body runs; the invariant
is about all constructors that are under way. `Nested`: of two
constructors on the stack the inner one is of the same object, called from a body, or
of a younger one, called while submodules were made. So no object can be
below itself, and a body has nothing but its base classes' constructors above it. `WaitFits`: of
the submodules of a class each one is an attribute, still to be made, or the one
that the constructor waits for, and only one of these. `Known` and `Made`: an object with a
parent is its attribute or on the stack above it, and each attribute is such
an object; with `Once`, that one parent has not two of a name, children and
attributes are in a bijection. That a second `_init_module` is skipped is used in `FrameFits`: when an
initialised object's constructor starts, all of its submodules are there.

`AccessReachesOwn` is about two trees, that of the objects, which grows while the
constructors run, and that of the gateware, which follows from the classes. The
two meet in `Placed`: a name and a parent fit an object if the parent has a submodule
of that name in its class, of the class of the object, and the object's path is the
parent's and that name. `PlacesInv` says this of the name and the parent of each initialised
object (`ObjectPlaced`), and of those in each call for an object that is not
initialised yet (`CallPlaced`). The second part is what makes the first one
inductive: `_init_module` stores what its call has brought. Calls of an inherited
constructor bring the default name and no parent; they fit no object but the
top one, and do no harm because the object has been initialised by then
(lemma `AllMade`). The types agree because a register of a base class goes into the
list of registers and into the attributes alike (`AttributesFit`).

The rest is about one state, and about recursive functions. `Rows`, `Parents` and
the community modules' `FlattenSeq` are defined by CHOOSE, so that their equations
hold only if such functions exist. If there were none up to some number, there would be a
least such number, and one more value could be added to the function up to the
one before (`Least`, `RowsExist`, `ParentsExist`, `FlattenedExists`). The same argument
takes the place of the induction along the path: an object without its rows in
the top module's list, or whose parents are not those on its path, would have a
parent of the same kind, which is older (`RowsReach`, `ParentsReach`). `FlattenFirst`,
that the words of the first name come before those of the others, makes the two
full names equal.

Only model-checked: liveness (`LockReleased`, `ServerEnds`, `GetsConnected`),
because the prover has no support for fairness and ENABLED. Every other property of
a passing run is stated by one of the theorems, some under a hypothesis that the
table names and the run's constants satisfy.

## 6. Not modelled, and why

The SoC, the processing system and the platform are instantiations of vendor
primitives; the CSR bus is represented by how registers use it. GPIO, ADC, DAC,
multiplexer, adder and LED are wiring or one register stage, and so are the RAM
modules around memories and the AXI writer. The local interface is empty. Logic
functions are Python code that builds gateware: what they build is modelled with
each module, how they are called (`core/migen.py:65-75`) is not. Drawing and
simulation helpers and `idea_fpga.py` have no run-time state. Of what is modelled,
these parts are abstracted: the period of pulse generators and the mode of the
DAQ are fixed during a behaviour, and so are the factor of the DAQ's averages and
the gains of the PI controller; the
debug register `offset` is a constant; an AWG's `repetitions` are commented out
in the code. In some places the code does more, or something else, in cases that the models
leave out:

* `stop()` leaves the socket open if sending its message raises (`client.py:44-49`); in
  `RemoteLink` it then has done nothing, and may be called again;
* `_clear_socket` gives up after 100 calls of `recv` (`client.py:160`), `Drain` never
  does; a conversation would have to leave more than 100 pieces behind;
* the server maps any address and goes on (`server.c:303`, 327), `RemoteLink` ends it
  at an address that is no register;
* a list longer than the array is written past its end (`register.py:160-174`), and
  `CsrArray` has no such lists;
* a build whose directory another process removes (`builder.py:66`) goes on in a
  directory without a name, where `BuildCache` lets Vivado read the new sources; this can only
  happen without `Exclusive`, in `cache_shared`;
* some arrays are read as infinite or not a number where `RegisterCodec` says that
  reading raises an error (`register.py:306-309`), and registers start at zero,
  not at their `default`;
* a negative length is wrapped into a large one (`register.py:290-292`); `Daq` has
  lengths from zero on. A DAQ whose period register is zero is left out, as section 5 says.

## 7. Plan

All parts with a state of their own are modelled, and all safety properties
that the runs check are proved. What is left:

1. `BuildCache`: the SoC as a part of the design that the hash does not see.
2. Theorems: that names differ (`NamesDiffer`) where no name contains the separator.
