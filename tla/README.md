# Verification of webserver_ethercat

TLA+ models, TLC runs and TLAPS proofs for the program in `src/`: an EtherCAT
master that runs a Festo CMMT drive through a homing and positioning program
(`src/src/ethercat.c`, over the vendored master stack SOEM in
`src/libs/soem`), and in the same process an HTTP server that shows the drive's
inputs and lets a browser write its outputs (`src/src/main.c`, over
libmicrohttpd). Line numbers below are those of the repository.

    tlc -workers 2 -config NicPrompt.cfg MCNicPort     # any run of PROJECT.json
    tlapm SdoTransferProofs.tla                        # the proofs of one module
    for m in *Proofs.tla; do tlapm $m || echo $m; done # all of them

Contents: inventory, modules, runs and what they show, fairness, proofs,
disagreements found, what is not modelled, plan.

## 1. Inventory

Three threads run in one process: the **main thread** (start, listing, then
`ethercat_loop()`), the **monitor** `ecatcheck()`, started before the mapping,
and the **HTTP thread** of libmicrohttpd, started before everything else. They
share, without a lock of the program's own,

* `IOmap`, and in it the drive's outputs and inputs: written and read by the
  loop, written field by field by the POST handler, copied by
  `ec_send_processdata` / `ec_receive_processdata`;
* `ec_slave[]`, `ec_group[]`, `inOP`: the loop and the monitor;
* the raw socket, its index allocator and receive buffers (locked in
  `nicdrv.c`): the loop and the monitor;
* the error list and `EcatError`.

| component | state | operations | hard because | correct when |
|---|---|---|---|---|
| Ethernet port `oshw/linux/nicdrv.c`, `ethercatbase.c` | `rxbufstat`, `rxbuf`, `lastidx`, two mutexes, the frames on the wire | `getindex`, `outframe`, `inframe`, `waitinframe`, `srconfirm`, `setbufstat` | two threads receive each other's frames; loss, reordering, resend, timers | one owner per index, an answer answers this transaction, no buffer is lost, transactions end |
| control loop `ethercat_loop` | `step`, `loop_counter`, counter, `IOmap` | exchange, reconnection loop, step machine, time limit | most iterations send nothing; lost or refused frames; a second writer of the outputs | the drive takes the commands of the program in order, shuttles, and stops |
| recovery: reconnection loop, `ecatcheck`, `ec_reconfig_slave`, `ec_recover_slave` | `ec_slave[].state/.islost/.configadr`, `docheckstate` | read state, write state, reconfigure, recover | two threads drive one state machine through a shared field; power loss; a recovery broken off half way | slaves come back, requests are legal, one slave is renamed, no slave stays lost |
| HTTP POST `handle_post_request` | static `post_data`, `post_data_size` | collect, parse, answer | connections interleave over one buffer; realloc fails; clients go | an answer is for what was sent |
| connections `libmicrohttpd/connection.c` | state, read buffer, request, chunk | read, parse, call the handler, write, reset | reads, chunks and requests end anywhere with respect to one another; early responses; pipelining | the handler is called as it expects, no body is taken for a request, a body that was read is answered |
| error list `ethercatmain.c:153-208` | ring, `EcatError` | push, pop, drain | full ring, wrap, flag against contents | a bounded queue, nothing hidden, drains end |
| start `initialize_ethercat`, `main`, reopening in `slaveinfo` | state of all slaves, pointers to the drive's data | state sequence, mapping, `ec_close` | the state read is an OR of all slaves; slow or vanishing slaves; results ignored | what is reported is so; the loop has mapped slaves and the drive's data; the start ends |
| process data, index stack `ethercatmain.c:1640-1996` | `idxstack`, `IOsegment[]` | send with LRW or LRD and LWR, receive | many segments, lost ones, a full index stack | every byte is carried once, a full work counter means fresh data |
| mailbox and SDO `ethercatmain.c:912-1110`, `ethercatcoe.c` | mailbox counter, toggle | send, receive with repeat, segments | lost answers, unbounded retries | no message lost or taken twice |
| configuration `ethercatconfig.c` | slave list, SM and FMMU tables, segments | enumerate, map | bit layout at byte borders, segments cut where a slave does not fit | FMMUs of two slaves never overlap, no slave is cut in two |
| distributed clocks `ethercatdc.c`, topology in `ethercatconfig.c` | parent, ports, delay of each slave | parent search, `ec_configdc` | trees in which some slaves have no clock; 32 bit times | parents, ports and delays are those of the bus |
| slave information (EEPROM, PDO assignment) `ethercatmain.c:287-680, 1190-1650`, `ethercatconfig.c:260-730`, `ethercatcoe.c:673-990` | one byte cache `esibuf`, `esimap`; `eep_pdi`, `eep_8byte`; what is known of each slave | read cycle, section walks, reuse for an equal slave, control of the EEPROM, PDO walks with and without complete access | lost commands and answers, refusing chips, one cache for all slaves and all networks | the cache shows this slave's bytes, a description is that of the EEPROM, sizes are those of the assigned PDOs, control is given back, the walks end |
| listing, GET, EoE/FoE/SoE, texts | | | | see section 7 |

`PROJECT.json` lists every component with its status, and under "hazards"
every place where this code is hard to test, with the property that watches
it, or with the reason why none does yet.

## 2. Modules

| module | models |
|---|---|
| `NicPort` | the Ethernet port, from `ecx_getindex` to `ecx_setbufstat(EMPTY)` |
| `EthercatLoop` | `ethercat_loop()`: request for OPERATIONAL, cyclic exchange, reconnection loop as far as process data goes, step machine, time limit; the POST handler as a second writer; the drive (external) |
| `FestoProgram` | abstract: the sequence of commands the drive is promised; `EthercatLoop` implements it |
| `Startup` | `main()`, `initialize_ethercat()`, the second configuration in `slaveinfo()`, the request for OPERATIONAL; the slaves' states (external) |
| `Recovery` | the reconnection loop and `ecatcheck()` over shared `ec_slave[]`; the slaves (external) |
| `PostHandler` | `handle_post_request()`: the static buffer and what a call does to it |
| `HttpServer` | abstract: the calls of `PostHandler` that libmicrohttpd promises; `HttpConnection` implements it |
| `HttpConnection` | libmicrohttpd's connections (`connection.c`): reading, counted and chunked bodies, 100-continue, early responses, keep-alive, pipelining; the clients (external) |
| `SlaveInformation` | the EEPROM part of `ecx_config_init()` and of the mapping, `ecx_siigetbyte()` and its cache, `ecx_siifind()` and the walkers, the read cycle, who controls the EEPROM; `ecx_config_find_mappings()` as far as sizes go; the EEPROM chips and object dictionaries (external) |
| `PdoMapping` | `ecx_readPDOmap()`, `ecx_readPDOmapCA()` and the assignments they read, as steps of one record; used by `SlaveInformation` |
| `ProcessData` | `ecx_main_config_map_group()` (FMMUs, segments), `ecx_main_send_processdata()`, the index stack, `ecx_receive_processdata_group()` |
| `SdoTransfer` | `ecx_SDOread()`, `ecx_SDOwrite()` over `ecx_mbxsend()` and `ecx_mbxreceive()`; the slave's mailboxes and SDO server (external) |
| `DistributedClocks` | the parent search of `ecx_config_init()` and `ecx_configdc()`; the bus and its time registers (external) |
| `ErrorQueue` | abstract: a queue of the last `Capacity` errors; `ErrorList` implements it |
| `ErrorList` | the ring, `EcatError`, drain loops, `SDO2string` |
| `MC*` | instances for TLC |
| `*Proofs` | theorems about `NicPort` and `DistributedClocks` (`BusProofs`), `SdoTransfer` and `ErrorList` (`SdoTransferProofs`), and, each in a module named after it, `EthercatLoop`, `Recovery`, `Startup`, `HttpConnection`, `ProcessData`, `SlaveInformation`: see section 5 |

Operators named *Variant of X* are not part of a specification: each is what a
plausible slip would make of X, and stands beside it because the runs are
tested with it (the variant in the place of X must violate the property named
in `PROJECT.json`).

**NicPort.** `rxbufstat`, `rxbuf`, `lastidx` are the fields of `ecx_portt`.
`wire` holds the frames sent and not yet read, `hand` the foreign frame a
thread is storing while it holds `rx_mutex`. One round of `ecx_inframe` is cut
where another thread can come in between: look at the own buffer without the
mutex (`TakeStored`, `NotStored`), read the socket under the mutex
(`RecvNothing`, `RecvOwn`, `RecvOther`), and mark a foreign buffer after having
looked at it (`Store`), because its owner changes the status without that
mutex. `ecx_getindex` is one action: it is under its mutex, and the only writers it
can race with make buffers EMPTY. A frame carries its index and, as history,
the thread whose running transaction sent it. What a datagram says is left out.

**EthercatLoop.** One action per place where the loop can be interrupted: send,
receive, the test of the time, one step of the `switch`. Set-points are the
values the program uses (control words 0, 6, 15, 31, 63 and modes as names; two
targets); `"web"` is any value of a POST. A frame carries the outputs it was
sent with; `CopyBack` is the copy of a returning LRW frame over IOmap
(`ethercatmain.c:1950`), which LRD/LWR does not make. An exchange succeeds
(`Exchanged`), comes back with a lower work counter (`Refused`) or does not
come back, taken by the drive or not (`NotReceived`). `loops` keeps the parity
of `loop_counter`; `counter` is taken modulo `Period`.

**Recovery.** `al`, `adr` (the station address), `synced`, `mapped` are what a slave has
lost with its power; `present` is where the line is cut. Each read or write of
`ec_slave[i].state` and each datagram is an action of its own where the other
thread could see the difference. `low` is the outcome of
`wkc < expectedWKC` in `ecatcheck()`, two locals never assigned: either value,
for the whole run. A datagram to an address is taken by whoever has it
(`Holders`), by nobody or by several slaves; both threads address a slave by
`configadr`, which is EC_TEMPNODE (`TEMPNODE`) while `ec_recover_slave` works on it.
That function is a step per datagram: `RecoverLook` reads the address of the
slave at its place and goes on only if there is none, `RecoverClear` frees
EC_TEMPNODE, `RecoverTemp` puts the slave there, `RecoverIdent` compares alias and
identity of what is there, `RecoverName` or `RecoverDrop` ends the stage, and
`RecoverRestore` resets `configadr` and returns (`RecoverUndo`: the slave did not
answer `RecoverTemp`). Each of the datagrams may be lost, before it is taken or with its
answer, and the line may break between any two; `disturbed` counts both.
Other datagrams are lost with the line only: a break mended at once. What the slaves
behind a break have become - without power, with an expired watchdog, unchanged - is seen when
it is mended, so `Mend` chooses it. `calm` and `missed` are history: `calm`, that nothing was
lost, broken or mended since `RecoverLook` found no address; `missed`, that
the request the loop sent before found no slave (kept while the monitor sleeps).

**PostHandler, HttpServer, HttpConnection.** A body is a sequence of units;
`Behind` is what the parser may read after a buffer without a terminating
zero, `Hole` what a failed `realloc` leaves when the size is not reset.
`PostHandler` has the operators of `handle_post_request` that the other two
share. `HttpServer` states what the handler is written for: one call with the
head, the parts of the body in order, final calls until there is a response.
`HttpConnection` is what libmicrohttpd does: `state`, `rq`, `remaining`,
`chunk` and `discard` are fields of `struct MHD_Connection`; a client's bytes
are the tokens of `Stream` (heads, units of a body, the size lines, line ends and
footers of chunks), put together by `Chunk`, `Tokens` and `Requested` from what it
asks for; `EndOf` is where a request ends. `received - used` of them are in the
read buffer. A read brings any number of tokens. The actions with `running = c`
are the turns of the `while` of `MHD_connection_handle_idle` and of the loop in
`process_request_body`; only between two runs of it does another connection move,
since the server has one thread. `st`, in the refinement, is the stage of a POST
read off `state`, or how it ended. GETs are there because they are answered by
their first call; what they return is left out.

**SlaveInformation.** `net` are the EEPROMs, as words; `loaded` and `pending`
are the chip's data register and the command it is busy with. One action per
datagram whose loss makes a difference, and per byte a walker asks for.
`esibuf` is a function on the words that `esimap` has. `Open` begins again with
another network. The history variables keep apart what the code cannot know:
`doubt` has the cached words that came from a read that failed and was taken
for one that did not, `sure` the slaves with nothing doubtful in their
description, `withheld` those whose EEPROM was to be given back by a write that
got lost. The mapping asks the mailboxes of all slaves first. In `PdoMapping`
the loops of `ecx_readPDOmap` and `ecx_readPDOmapCA` are one record with the
counters of both; `After` is what a read that was answered does to it, `AfterFailure`
what one that was not (its variable was cleared before). An SDO read as a
whole is a step here; what is inside is `SdoTransfer`. Complete access
differs in which steps ask the slave (`IsRead`) and in the corrections of wrong
types (`Corrected`). Sizes found go where `ecx_siiPDO` puts its own, by
manager: inputs in `txpdo`, outputs in `rxpdo`. `untold` are slaves whose
mailbox told nothing because a read failed; an equal slave makes that good,
the EEPROM does not. Not modelled: sizes by SoE, the defaults of the sync managers
that follow from the protocols, types of managers without a size.

**SdoTransfer.** A call is a `job`; `phase` is the exchange it is in (`drain`,
the mailbox emptied before the request; `init`; `segment`), `pc` where it is in
the mailbox functions: `empty` is `ecx_mbxempty`, `write` the FPWR of
`ecx_mbxsend`, `avail`, `fetch` and `repeat` the loops of `ecx_mbxreceive`.
A datagram is lost on its way there (`NotWritten`, `FetchLost` with the
mailbox unchanged) or on its way back, when the slave has acted on it
(`WriteAnswerLost`, `FetchLost` with the mailbox emptied); then
`ecx_srconfirm` sends it again, or the call gives up. `Fails` is what an
exchange that came to nothing does to the call. A value is the sequence of its
parts, a part is told from another by object, number and value. `fails` and
`smooth` are history: the exchanges that failed so far, and that none of this
call did and no message was overtaken (`Overtakes`: a message whose reading
was lost on its way back gives way to the slave's next one).

**ProcessData.** A slave is one of `Kinds`: its bits, and the bytes of the runs
of adjacent sync managers they are in (each run has an FMMU of its own);
`DataAssumption` says that the runs of a kind have room for its bits, both
coming from the same PDOs (`ethercatconfig.c:700-727`). A
place is `8 * LogAddr + BitPos`. `MapOutputs` and `MapInputs` map one slave,
`OutputsMapped` and `InputsMapped` are what follows the loops; `closed` and
`segmentsize` are `IOsegment[]`. A send is one action, then the frames that are
on the index stack come back one by one (`ReceiveFrame`, with any set of slaves
having taken part) or do not (`NoFrame`). `stale` is history: a slave missed a
datagram that is meant for it. What the exchanged data are, and the
datagram that reads the DC time, are left out.

**Startup.** `at` is the place in `main()` and what it calls, `round` which of
the three calls of `ec_config_init` runs (two in `initialize_ethercat`, one in
the listing). A broadcast puts a request before each slave that is there, and
the slave acts on it when it comes to it, or is overtaken by the next request.
`ec_statecheck(0, ..)` reads the OR of what all answer (`BusState`); since it
polls, it is one action that may read any state up to its time limit. A break
cuts off the slaves behind it with their power; they come back in INIT, without
address and FMMUs. `trouble` is history: a slave was too late. What
`ec_config_init` finds out about a slave, and the loss of the last answer
before a time limit, are left out.

**DistributedClocks.** Every tree of slaves, numbered in the order in which a
frame passes them, with any choice of ports, of slaves that have a clock, and of
delays, is an initial state; `FindParent` is one step per slave, in the order of
`ecx_config_init`, then `WithClock` and `WithoutClock` walk through the slaves as
`ecx_configdc` does. `Latched` is what the time register of a port holds after the
broadcast: the time at which the frame came in there. `Balance` is `topoc` of the
search, link by link back from the slave. The properties of ports and delays are
about buses where a slave without a clock has one branch (`Plain`), since the
code forgets by which branch it came, and where no port time passes the end of
its 32 bits while the broadcast is under way (`Unwrapped`).

**ErrorList.** `elist` is `ec_ering`, `at` is where its user is.

Specifications have the names `Init`, `Next`, `Spec` and `TypeOK`; in
`DistributedClocks` (`BusInit`, `BusSpec`, ...) and `ErrorList` (`ListInit`, ...)
they have names of their own, because one module of proofs extends them together
with another component.

## 3. Runs

| run | module | bounds | shows |
|---|---|---|---|
| NicPrompt | MCNicPort | 2 threads, 4 buffers, 3 frames under way; answers prompt, sends do not fail | types; one owner per index; the answer copied out answers this transaction; no buffer is lost - with frames lost, reversed, and received by the wrong thread |
| NicLive | MCNicPort | 2 threads, 2 buffers, 1 frame; late frames, failing sends | every transaction ends |
| Start | MCStartup | 2 slaves, 2 checks for OPERATIONAL after the first (40 in the code), 1 break | success and `inOP` are reported only if all slaves that answer are in that state; the loop is entered with mapped slaves and, after a good start, with the drive's data; a good bus is started; the start ends |
| LoopSteps | MCEthercatLoop | `Period` 3 (200 in the code), 3 checks for OPERATIONAL (41), LRW, no POST | what a step wrote was taken by the drive before the next step; a loop is counted at the target only; the drive's commands follow `FestoProgram`; it shuttles; the time limit ends the loop |
| LoopPostLost (violation) | MCEthercatLoop | `Period` 3, LRW, POSTs at any time (`WebSpec`) | a receive undoes a write |
| RecThreads | MCRecovery | 2 slaves; 1 break with any power losses and expired watchdogs behind it; 1 call of `ec_recover_slave` disturbed by a second break or by a lost datagram | the loop alone brings back slaves that kept their power, and asks for legal transitions; a call that nothing disturbs renames the slave at its place and no other; no slave stays lost unless it was stranded at an address that is not its own |
| HttpConn | MCHttpConnection | 2 connections with 1 or 2 requests each, bodies of 0 to 3 units, chunks of 2 and 1, 1 failing `realloc`; reads of any size, connections lost anywhere | the handler is called as `HttpServer` says; units are parsed at most once and in order; requests that do not meet are answered for exactly what they sent; no part of a body is taken for a head; a body that was read is answered |
| Sii | MCSlaveInformation | 3 networks of 2 slaves from 4 images (4 and 8 byte chips; with complete access, with types 0 1 2 3, with types left out), buffer of 80 words (2048), 4 managers, 3 events: openings, lost datagrams, failed SDO reads, refusals, waits that time out | the cache is this slave's; a description made of reads that succeeded is that of the EEPROM, sizes are those of the assigned PDOs even when a failed walk was repeated singly or replaced by an equal slave's; the EEPROM is given back; the configuration ends |
| Sdo | MCSdoTransfer | a short and a long object of one index; 3 messages, 2 values, counts to 3 (7), 2 failed exchanges, 1 emergency | segments are put together in order, whatever is lost, repeated or left over, unless a message is overtaken after failures; until an exchange has failed, reads are exact and whole and writes arrive |
| ProcData | MCProcessData | 3 slaves of 5 kinds in any order (4 to 16 bits, one or two runs), segments of 2 bytes (1466), 3 segments (64), index stack of 3 (16), LRW or LRD/LWR | FMMUs are disjoint and hold every bit; every byte is carried by one datagram; byte oriented slaves are not cut; the expected work counter means that all took part |
| Clocks | MCDistributedClocks | all trees of 5 slaves, any ports, any set of clocks; delays that are powers of two | parents, ports and delays are those of the bus |
| ErrList | MCErrorList | ring of 4 slots (65), 2 errors | the ring is a queue of the last 3 errors; drains that follow the flag end with every error read |

Why these bounds: two threads is what the program has on the port (the HTTP
thread uses no datagrams), and with 4 buffers and 3 frames each thread can have
a resent frame under way next to another's while the allocator wraps. Two
buffers in NicLive make the allocator run dry, and exercise shared indices.
`Period` 3 has an iteration before, with and after the send; a larger one only
adds iterations like the first. Two slaves give a slave before and a slave behind
the break, and the broadcast path of `ec_readstate`; with one slave only the
broadcast path is left. `RequestsAreLegal` needs no such bound: it was checked
with two breaks by hand and is proved for any number. With a second break in the
middle of the three requests the loop alone can fail (a slave that missed SAFE_OP is asked for OPERATIONAL,
answers with an error the loop never acknowledges), so `ReconnectsAlone` is a
statement about one break at a time. The second break of RecThreads is where it matters for the monitor, inside
`ec_recover_slave`: a break that strands a slave, or cuts it off before an answer, is
followed by later calls, by the mending, by state requests of the other
thread. With two disturbed calls (by hand) two slaves can come to share one
address, which is `Stranded` for one of them; `RenamesOne` is proved for any number of them. Two connections, one of them with two
requests, allow a request to be broken off, one to meet it and one after both;
a chunk of two units can be split by a read and followed by another. In Sii the
network is opened once and there are two events left, for example a
lost command and a second opening; the networks have pairs of one kind, and a
pair that differs in the revision alone. Two failed
exchanges leave every kind of remainder (a request not taken, an answer not
fetched, a session half way) for the calls that follow, and two requests waiting
behind one another - with one failure an overtaken message does no harm, with two a
segment is read twice; three messages have a
first, a middle and a last. A second long object, of another index, was added once
by hand (20 million states), and a third failure with one object. Segments of two bytes are passed by every mix of two
slaves, so that there are layouts of one to three segments, with the outputs ending
inside one, and layouts that need a fourth; with three slaves
a bit oriented one has one of either orientation on each side. Four slots let head and tail wrap and
overtake each other in every position. In Start two slaves are enough for every
pair of states to be ORed, and for a break before, between or behind what was
already asked of them; more checks only repeat. Five slaves have a branch of
two next to a branch of one, and chains through slaves without a clock (six
were checked once, by hand); with powers of two any sum
of delays tells which ones it is made of.

The type invariants of `Startup`, `Recovery`, `SdoTransfer`, `ErrorList`,
`EthercatLoop`, `ProcessData`, `HttpServer` and `DistributedClocks` hold on the
same instances and are not part of these runs: those of all components are proved
(section 5), that of `HttpServer` for the calls `HttpConnection` makes.

Deadlock is checked except where the system ends: the loop closes the port, all
connections are closed or have nothing more to read, the start is over, the slaves are configured. In
Sdo the bound on failures leaves a call that may not fail again waiting.
`RecThreads` and the port's runs never stop.

## 4. Fairness

* **NicPort**: a thread that can step does (weak fairness: preemptive
  threads); a mutex asked for again and again is granted (strong fairness of
  `Recv`; `pthread_mutex` promises no more than that in practice); a timer
  that is looked at again and again is once found expired (strong fairness of
  `GiveUp`; `osal_timer_is_expired` compares with a clock). Nothing is assumed of frames:
  all may be lost.
* **EthercatLoop**: the loop's thread runs; an exchange tried again and again
  succeeds once (strong fairness of a receive with the full work counter) - without
  that the reconnection loop has no end and the time limit is not looked at,
  which is a property of the code; the drive finishes homing and reaches its
  target.
* **Recovery**: both threads run and the line is mended. No fairness is put on
  breaks or power losses, nor on the answer to any datagram: how often they are
  lost is bounded.
* **Startup**: the main thread runs, slaves act on a request in the end, and the
  line is mended - without that the wait at `ethercat.c:106` has no end.
* **HttpConnection**: what the server's thread has begun for a connection it
  ends; clients owe nothing, neither the rest of a request nor the reading of
  an answer.
* **SlaveInformation**: the one thread that configures runs. Nothing is assumed
  of datagrams beyond the bound on events: loops that repeat one until it is
  answered are a step.
* **ErrorList**: the user's loops run.
* **SdoTransfer, ProcessData, DistributedClocks**: none; only safety is stated.

## 5. Proofs

TLAPS proves the following for every value of the constants that satisfies the
named assumptions. Each inductive invariant was checked by TLC on the instances
of section 3 before it was proved. The proofs of a module have a lemma per part
of the invariant, in which each action that can disturb the part has a step;
the theorems at the end put them together with PTL.
A leaf that takes its prover about a second or more names that prover and allows it
30 seconds or more, so that the proofs also pass on a slow or busy machine.

**BusProofs**, on the port (`PortAssumption`: no more threads than buffers).

* `TypeCorrect`.
* `UniqueTillExhausted`: two transactions share an index only
  after the allocator found no EMPTY buffer, however late frames are. Inductive
  invariant `OwnInv`: as long as sends do not fail, the buffer of a running
  transaction is not EMPTY and has one owner until the scan fails once.
* `IndexHasOneOwner`, `AnswersMatch`, `BuffersComeBack`: with
  prompt answers and sends that do not fail, the three safety invariants of
  NicPrompt. They are not inductive: the step that breaks each is the arrival
  of a frame nobody waits for. `PromptInv` adds what a prompt port
  guarantees: every frame on the wire or in a hand belongs to a transaction that
  still waits for it (`WireExpected`, `HandExpected`), there is one copy of it
  (`OneCopy`), one thread holds the mutex (`OneHolder`), and the status of a
  waiting buffer tells where its frame is (`StatusOfWaiting`). That the allocator
  always finds a buffer follows by counting: fewer other owners than buffers
  (`FreeBuffer`).

**BusProofs**, on topology and clocks (`ClocksAssumption`; any number of slaves in
any tree, any ports, delays and clocks, registers of any even range).

* `BusTypesAreRight` (`BusTypeOK`).
* `ParentsAreFound` (`ParentIsUp`). Slaves are numbered in the order in which a
  frame passes them, so links nest like parentheses (`LinksNest`). Going back from
  a slave, `topoc` is the number of slaves linked to them less the number passed
  (`BalanceCounts`): it is negative until the search is at the parent, where the
  slave itself is one more (`ParentIsFound`). `TopologyInv` adds that the slaves
  before this one have their parents and all their ports.
* `PortsAreTrue` (`PortIsTrue`), by `ClockInv`. `OpenPorts` says that the ports
  left of a clock are those of its branches that are not finished (with a single
  branch perhaps more: it is not looked at again), `HoldAt` that `parenthold` is
  the clock whose branch is being walked; a slave without a clock is passed
  straight through (`NextSlave`, `NextPort`), for which `Plain` is needed.
* `DelaysAreTrue` (`DelayIsTrue`). Behind a port are the slaves numbered before the
  branch (`BehindBranch`), so the difference of two port times is the time the frame
  spent there (`ArrivalAdds`), and the delays of a slave's branches are what is left
  when all are taken off (`DelayAdds`). `SignedAdds` and `SignedSmall` take the
  sums through signed numbers of limited width, for which `Unwrapped` is needed.

**EthercatLoopProofs** (`LoopAssumption`; every `Period`, every number of checks,
LRW or LRD/LWR).

* `TypeCorrect`, of `WebSpec`: with POSTs at any time.
* `KeepsInStep`: `Spec => []IInv`, the invariant the others rest on.
  `FrameIsCurrent`: a frame that is out carries what `outputs` holds (which is why
  the copy of a returning frame does nothing, and why a POST breaks it);
  `Progress`: what the step and the parity of `loops` say of the drive and the
  last receive; `TakenBeforeStep`: when the step machine runs, the drive has taken
  `outputs`.
* `NoStepIsSkipped` (`StepsReachDrive`), `OutputsAreNotUndone`
  (`ReceiveKeepsOutputs`), `CountsRoundsMade` (`CountedAtTarget`): from that.
* `DriveFollowsProgram`: `Spec => RunsProgram`, the refinement of `FestoProgram`.
  Only a step at which the drive takes a frame moves the program; every other
  step is a stutter, and `Progress` says which command comes next.

**RecoveryProofs** (`RecoveryAssumption`; any number of slaves, breaks and disturbed
calls).

* `TypeCorrect`. That the state read from an address with several holders is a state
  needs a last one among them (`LastOf`).
* `CallsRenameOne` (`RenamesOne`), from `Undisturbed`: in a call that nothing has disturbed,
  EC_TEMPNODE is free once it was cleared, and has this slave alone from `RecoverTemp` on.
  It holds whatever earlier calls left there, since only these steps and a mended line
  change addresses.
* `LoopAsksInOrder` (`RequestsAreLegal`), an action property. `Requested`: the
  shared field has the state the loop is about to send, as long as the monitor
  sleeps (`Asleep`); `Above`: no slave with an address is below PRE_OP, and one
  that heard the request for SAFE_OP has left PRE_OP.

**StartupProofs** (`StartAssumption`; any number of slaves, checks and breaks).

* `TypeCorrect`.
* `LoopHasTheData` (`DataWhenStarted`), `ReportsAreSo` (`ReportsAreTrue`),
  `LoopFindsSlavesMapped` (`NeverUnmapped`). The invariant: requests that a
  slave has still to act on are behind the place of the program (`Behind`), who is in
  SAFE_OP or above was mapped in this round (`HighAreMapped`), slaves counted are
  those found (`Counted`), the socket (`Open`) and the way to the loop (`Entered`,
  `Started`, `ChecksLeft`). `OneState` is the lemma on `ec_statecheck(0, ..)`: if the
  OR of the states is a single one, every slave that answers has it.

**HttpConnectionProofs** (`PlansAssumption`: requests are well formed, bodies have a
bound; `MaxFailsAssumption`; any clients, plans and sizes of chunks).

* `TypeCorrect`: the connections (`ConnectionTypes`) and what they make of the
  handler's state (`TypeOK` of `HttpServer`).
* `FramingHolds` (`FramesAreTrue`). `CInv` says for each `state` where in the
  client's stream the parser is (`Parsed`): at the beginning of a request, so many
  units into its body or into which chunk, before a line end, before the footers.
  Each step of `MHD_connection_handle_idle` takes it to the next of these places;
  the lemmas on the stream (of sequences put together piece by piece: `Joined`,
  `Placed`) say which token is at each.
* `HandlerIsCalledRight`: `Spec => CallsAreLegal`, the refinement of `HttpServer`. A
  step that calls the handler is the step of `HttpServer` with that call; `Parsed`
  says that what is handed over is the next part of the body, and how many units are
  left. All others are stutters, except that a connection that ends during a POST
  breaks it off.
* `BodiesAreParsedOnce` (`UnitsKept`): a unit that is in the buffer or parsed was
  given to the handler, and in its order, however calls meet. An invariant of
  `HttpServer`, brought here through the refinement.
* `SequentialIsExact` (`ExactIfSequential`): while no two requests meet and none
  is broken off, a POST is answered for the whole of its own body. `HttpServer`
  gives that it is answered for what was given; that this was all comes from
  `AnsweredWhole`: a POST is answered after its last unit.

**ProcessDataProofs** (`DataAssumption`; any number of slaves of any kinds, any size
of segments, number of segments and of slots of the index stack).

* `TypeCorrect`, with `Offset`: the inputs begin inside segment `Isegment`.
* `LayoutIsSound` (`FmmusFit`). What is mapped lies below `pos` (`Behind`), FMMUs of
  any two slaves are disjoint because each begins at or behind the `pos` of its
  time (`Ahead`), and together they hold each bit (`Covered`).
* `BytesAreCarriedOnce` (`CarriedOnce`), `BytesAreUnbroken` (`BytesUnbroken`): the
  segments tile the bytes mapped (`Tiled`, `BytesCounted`), so those of the
  datagrams do.
* `FullCounterIsFresh` (`FullWkcIsFresh`). The work counter is at most what slaves
  could have added in the frames that were taken, and less once one missed its
  datagram or a datagram was dropped. For that datagrams must concern different
  slaves, which holds when no slave is cut (`Unbroken`).

The sums over runs and segments are recursive functions, and so are the streams of
`HttpConnection`, `topoc` and the sums of delays of `DistributedClocks`. What is
needed of them by induction is derived from the least element of a set (`LeastOf`,
`SetInduction`, `RecursionExists`): a property of the first k terms that fails
somewhere has a least k where it fails.

**SdoTransferProofs**, on transfers (`SdoAssumption`; any objects, any number of
parts, of emergencies and of failed exchanges).

* `TypeCorrect`.
* `SegmentsComeInOrder` (`PartsInOrder`). `SessionFollows`: an upload goes on behind
  the last message the slave made; `NextFollows`: in a call in which nothing
  failed or was overtaken, the segment that is waiting, or the next one that will be
  made, is the next part. It holds for whatever earlier calls left: an answer of
  theirs in between is not a segment and ends the call.
* `SuccessIsExact` (`ExactTillFailure`). Until an exchange fails there is one request
  at a time (`OneRequest`): not sent, in the mailbox, in work or answered, and its
  copies have the count that the slave has seen; the session of the slave is
  where the call is (`InSession`), and the answer is the one to this request
  (`Answers`).

The attempt to prove `PartsInOrder` as it was first stated, of every call without
a failed exchange, showed that it is false: see "a segment read twice" in section 6.

**SdoTransferProofs**, on the error list (`ListAssumption`: at least one slot and one
error).

* `ListTypeCorrect`, `NoErrorHidden` (`NoneHidden`, while an error waits the flag is up; it
  is what `DrainsAll` needs, and held in ErrList): both inductive with the types.
* `ImplementsQueue`, `ListSpec => IsQueue`: the refinement, for
  every length of the ring. `PushAppends` and `PopTakes` compare the contents
  before and after slot by slot: with n = EC_MAXELIST + 1 slots a push onto a
  full list moves the tail, so the contents lose their first element and gain
  one.

**SlaveInformationProofs** (`SiiAssumption`: networks have slaves, words are in
0 .. 0xffff, images are shorter than the buffer; any networks and any number of
events).

* `TypeCorrect`, in parts (`ListTypes`, `ChipTypes`, `CacheTypes`, `CycleTypes`,
  `JobTypes`).
* `CacheShowsItsSlave` (`CacheIsTrue`). `FetchIsRight`: the command the chip is
  busy with and what its data register holds are of the address that is read,
  unless a datagram was lost, which makes the words `doubt`ful; `Places` says
  which slave and which words a read cycle is for at each place of the program.
* `EepromIsGivenBack` (`EepromIsReturned`). `FlagsUp`: `eep_pdi` of a slave that was
  asked for PRE_OP is up unless a section of it is being read, and `Remembered`: the
  walk that took it down will put it up again; `Given`: who has the flag up has the
  EEPROM, unless the write that was to give it back was lost (`withheld`).

**Only model-checked.** All liveness (`TransactionEnds`, `StartSucceeds`, `StartEnds`,
`Shuttles`, `TimeLimitEnds`, `ReconnectsAlone`, `LostIsFound`,
`AnsweredIfSequential`, `ConfigurationEnds`, `DrainsAll`): fairness and
ENABLED are beyond the prover. Of the safety properties, `DescriptionIsTrue` of
`SlaveInformation`: what the walks compute over the words of an EEPROM, compared
with what the EEPROM was made from, is induction over both.

## 6. Where the code and its words part

One has a violating run, listed under "findings":

* **A lost POST** (LoopPostLost, `ethercatmain.c:1950`): the returning LRW
   frame overwrites what the HTTP thread wrote since it was sent.

Seen while modelling, present in the models, and not given a run of their own:

* a lost buffer (`nicdrv.c:431`): between the test for TX and the store of RCVD
  the owner may give up and set EMPTY; the buffer is RCVD for ever, and after
  EC_MAXBUF of them `ecx_getindex` hands out buffers in use. NicPrompt with
  `LateFrames = TRUE` and 3 buffers has the behaviour: `NoBufferLeak` fails;
* a read with a gap (`ethercatcoe.c:276`): an exchange that fails inside the
  segment loop is passed over; the toggle flips and the read ends with success,
  although the function "will combine all segments". Sdo states `PartsInOrder`
  of calls without such an exchange (`smooth`) for that reason;
* a segment read twice (`ethercatmain.c:1043`): a mailbox read whose answer is lost
  is sent again before any repeat is asked for, and may find the slave's next
  message. When calls gave up two exchanges before, that can be the answer to a
  request of theirs: the message that would have ended the read is never seen,
  and the segment behind it comes a second time, in a read that reports
  success. `PartsInOrder` without `Overtakes` in `smooth` fails with `MaxFails = 2`;
* a stranded slave (`ethercatconfig.c:1568`): a break or a lost datagram in the stage at
  EC_TEMPNODE leaves the slave there, and since its address is then neither its
  own nor 0 each later call returns 0. It comes back only if another slave needs
  to be recovered, whose call clears EC_TEMPNODE. `LostIsFound` without `Stranded`
  fails in RecThreads. The datagram that clears it (`ethercatconfig.c:1571`) is sent
  with no time to wait and is not checked: when it is lost, two slaves are at
  EC_TEMPNODE and both get the address of one;
* recovered without an address (`ethercat.c:569`): when the frame that gives a slave
  its address back is lost (`ethercatconfig.c:1592`), the result is -1; `ecatcheck` takes
  it for true, clears `islost` and says "recovered", although `ethercatconfig.c:1548` has
  "@return >0 if successful". The slave is at EC_TEMPNODE (`RecoverName` with an answer that
  does not come);
* a hole (`main.c:228`): after a `realloc` that failed the size is still that of the
  body before, and the next body is copied behind as many undefined bytes
  (`Hole` of `PostHandler`), which are parsed with it;
* mixed bodies (`main.c:220`): one static buffer for all connections, so that a
  POST that meets another is answered "Data updated successfully" for a body
  that was not parsed as it was sent. `ExactIfSequential` without
  `~ overlapped` fails;
* a slave that refuses BOOT shows INIT with the error bit, which
  `ec_statecheck` masks (`ethercatmain.c:895`): the wait of `ethercat.c:88` is
  over before the slave has acknowledged, and if it is slow the request for
  PRE_OP without ACK (`ethercat.c:121`) overtakes the acknowledgement and is refused
  (`Late` of Startup);
* a start that failed is followed by a listing that opens the socket again and
  may succeed; `festo_motor_outputs_ptr` was taken before it and stays NULL,
  and the loop uses it (Startup: `inOP /\ ~ pointer` is reachable). A POST
  before `main.c:687` finds the same;
* slaves that were counted and are gone are not noticed by the start: the state
  is the OR of those that answer;
* `ec_close()` at the end of the loop leaves `inOP` TRUE (`ethercat.c:503`);
* port times are compared as 32 bit signed numbers (`ethercatdc.c:339`): a clock
  that wraps during the broadcast spoils entry port and delay
  (`Unwrapped` of DistributedClocks is the assumption); and behind a slave
  without a clock that has two branches the ports and delays are wrong (`Plain`);
* `ecx_configdc` ignores whether its reads were answered (`ethercatdc.c:275-300`):
  a lost one leaves the value of the slave before in `ht`;
* the commented-out `printf` made the send the body of the `if`
  (`ethercat.c:283`): the loop sends in one iteration of 200, and the other 199
  enter the reconnection loop with the cable in place;
* the monitor's condition reads locals never assigned (`ethercat.c:519`): with
  such a stack it never starts, and the reconnection loop alone cannot give a
  slave that lost its power its address back;
* the count of an answer is never compared, although it is called the session
  handle (`ethercatcoe.c:142`): a late answer of the same index is taken for
  the answer of the next read whatever its subindex, a late confirmation of a
  write for a value of no bytes, a late value for the confirmation of a write;
* a segmented read from a slave that has died never ends (`ethercatcoe.c:213`);
* with late frames an answer of an earlier transaction under the same index is
  taken for the answer (`nicdrv.c:417`), and a failed send frees the buffer
  while its owner waits (`nicdrv.c:288`);
* the monitor may find a slave that is not there, because the loop has just put
  the state it will request into `ec_slave[i].state` (`ethercat.c:577`);
* `ec_writestate(i)` sends whatever the other thread left in that field
  (`ethercat.c:310`); with both threads active a slave may end OPERATIONAL
  without FMMUs, and under an unkind schedule the two need never come to rest;
* `EcatError` stays up after the last error was read (`ethercatmain.c:195`,
  against `ethercatmain.c:92` "Global variable TRUE if error available in error
  stack"), so `SDO2string` hides the value of the next object it reads;
* a bit oriented slave may be cut in two by the end of a segment, because the byte
  it begins is counted when it is full, with the next slave
  (`ethercatconfig.c:1223`), against `ethercatmain.h:271` "Datagrams must not
  break SM in two": it then counts twice, while `inputsWKC` has it once
  (`ethercatconfig.c:1007`), and a lost segment can be made up for
  (`FullWkcIsFresh` says `Unbroken` for that);
* with three or more runs of sync managers the FMMUs of a slave do not fit
  its runs, because `ByteCount` is never reset (`ethercatconfig.c:933`);
* with LRW blocked the first LRD has length zero when the outputs fill a segment
  (`ethercatmain.c:1760`);
* a POST with an empty body is never answered (`main.c:258`), nor is a method
  other than GET and POST. The connection stays in FULL_REQ_RECEIVED, for which
  libmicrohttpd asks for no read: a client that closes is not noticed, the
  server's loop runs without waiting, calling the handler each time, and such
  a final call may answer with the data of the next POST that comes;
* what a broken-off POST left in the buffer is the answer to the first call of the
  next one, so that its own body is refused and its connection closed
  (`main.c:243`, `connection.c:8072`); GETs are answered in the first call as
  well, so every GET closes its connection;
* a lost answer to the command of an EEPROM read passes `if (wkc)`
  (`ethercatmain.c:1479`: -1 is true), and what the register still had goes into the
  cache as if it had been read; a read that timed out is cached as zeros.
  `ecx_readeeprom2` does not look at the NACK at all (`ethercatmain.c:1633`). A
  refusal followed by a command nobody answers (work counter 0) repeats for ever,
  because the count of refusals no longer changes (`ethercatmain.c:1516`):
  `AgainOrEnd` has the count, and `ConfigurationEnds` holds because events are bounded;
* an SDO read that fails inside the walk through the PDOs is counted as zero
  bits, and the sizes that come out are used (`ethercatcoe.c:703`); only a walk with
  complete access that found nothing at all is repeated singly. A failed type read of the
  third manager also loses the correction of the fourth (`ethercatcoe.c:841`);
* "This is safe because SII mapping is constant for same slave ID"
  (`ethercatconfig.c:607`) is said of sizes from the EEPROM; those an equal slave told
  by mailbox are copied too (`ethercatconfig.c:704`). The networks of Sii have slaves that
  assign the same PDOs when they are equal;
* a fill of the cache near the end of EC_MAXEEPBUF writes past `esibuf` and
  `esimap` (`ethercatmain.c:367-392`), and `ecx_siiPDO` reads a PDO from an empty
  section (`ethercatmain.c:634`, a do-while): the images of the model are well
  formed and shorter;
* the one-broadcast path of `ec_readstate` gives a state to slaves that have
  lost their address (`ethercatmain.c:764`): one slave, or several that lost
  power together, show INIT and are not marked as lost; `ec_reconfig_slave` then
  gets no answer from them, and they are recovered only after a read in which the
  states differ.

## 7. Not modelled

* The other CoE services: object lists are read for the listing only, RxPDO and
  TxPDO are never called. `ec_close()` against a monitor
  that is about to send: the send fails, which NicPort has, and nothing follows.
* Of the slave information: writing the EEPROM (`eepromtool` only), sizes by
  SoE, the defaults of sync managers and FMMUs.
* Overlapping and byte-aligned layouts, groups other than 0: not used by the
  program.
* `ec_dcsync0`, `ec_dcsync01` (never called) and the list of clocks `DCnext`.
* GET requests, the listing and its files: reads and formatting; no state of
  theirs is read back by the program.
* Splitting and conversion in the form parser: the models say which fields may
  be written and what the parser may read, not how a number is parsed.
* EoE, FoE, SoE, error texts: linked, not used. Other ports of SOEM: not
  built.
* libmicrohttpd beyond the life of a connection: most of the repository's lines are
  this library (digest authentication, post processor, web sockets, a second
  API, tests), and the program uses none of it. Parsing of heads, limits of the read
  buffer, rejected requests, timeouts (none is set), TLS, upgrade, suspended
  connections and the other threading modes are outside of `HttpConnection`.

## 8. Plan

In this order; the most important behaviour first.

1. An abstract specification of object access (a call returns the object, or
   fails) that `SdoTransfer` implements as long as exchanges succeed
   (`OneRequest` of `SdoTransferProofs` is most of the refinement).
2. The defaults of the sync managers and FMMUs, and with them the step from
   `SlaveInformation` to the `Kinds` of `ProcessData`.
3. Proofs: `DescriptionIsTrue` of `SlaveInformation`, one section at a time, if a section
   that was walked half can be compared with the words it was made from.
4. Runs: the instances of one module that answer neighbouring questions are
   merged as new modules come.
