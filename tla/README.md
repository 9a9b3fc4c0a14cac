# The TR-069 agent in TLA+

This directory specifies, model-checks and proves properties of the TR-069
agent of a set-top box: the `tr069` process that informs an auto-configuration
server (ACS) of events and carries out its RPCs. Paths below are relative to
`src/tr069_sample/libtr069/tr069/` unless they start with `config/`
(`src/config_sample/libtr069/config/`) or `httpd/`.

Contents: [the system](#the-system), [what is hard in it](#what-is-hard-in-it),
[modules](#modules), [state and actions](#state-and-actions), [runs](#runs),
[findings](#findings), [what the properties excuse](#what-the-properties-excuse),
[fairness](#fairness), [proofs](#proofs), [abstractions](#abstractions),
[not modelled](#not-modelled), [plan](#plan).

## The system

| component | state it keeps | operations | talks to | modelled in |
|---|---|---|---|---|
| Task and request queues (`tr069_control.c`) | two rings of 16 slots: `queue`, `head`, `tail` | `put_task`, `pick_task`, `clear_task`, the same for requests | control manager, session, RPC handlers | `TaskRing`, `Fifo` |
| Control manager (`tr069_control.c`, `tr069_service.c`, `tr069.c`, `tr069_main.c`) | `status`, `finish_flag`, `call_flag`, event flags, inform parameters, command key, transfer slots; `tr069_status_ini` and the file `tr069.ini` | IPC commands, the 500 ms timer `picktask_proc`, boot, stop, `dump_environment`, `save_status` | everything | `Tr069Control`, `Transfers` |
| Session manager (`tr069_session.c`) | `status`, `req_to_acs`, `recv_buff`, `set_param_flag` | `tr069_session_main`, called from the pick timer, blocks the process until the session is over | RPC layer, ACS, queues | `Tr069Session` |
| RPC layer (`tr069_rpc.c`) | buffers, fault lists | reads and builds SOAP messages, one handler per RPC | tree, queues, libcurl | `ParamRpc`, `Transfers`, `Tr069Session` |
| File transfers (`tr069_rpc.c`, `tr069_control.c`, `tr069_service.c`) | one command key, one argument slot per kind, one result slot | Download, Upload, Reboot; report of the program that transfers; TransferComplete | ACS, upgrade program | `Transfers` |
| IPC dispatch (`tr069_dispatch_fvipc.c`) | none | 12 commands, each a call of `tr069_service.c` or of a notification | CGI, upgrade, player and config processes | `Tr069Control`, `Transfers` |
| Timers (`tr069_timer.c`) | a timer id per kind, `logmsg_duration_i`, `g_packetlost_flag` | first and periodic heartbeat, log messages, packet loss test: start, stop, fire | control manager, config process | `Timers` |
| STUN client (`tr111_control.c`) | status, transaction, addresses, retry count | binding requests and answers every 5 s, UDP connection requests | STUN server, control manager, config process | `Tr111Control` |
| Parameter tree (`tr069_parameter.c`) | `param_table`, children lists, the stack of free ids | init, add, remove, find, list, uninit | RPC layer | `ParamTree`, `ParamIds` |
| Parameter access (`tr069_parameter.c`, `tr069_interface.c`) | diagnosis parameters in memory, notification types | get and set a value or an attribute, effects of a change, save | config process | `ParamRpc` |
| Config process (`config/cfg.c`, `config/cfg_service.c`) | values in memory, six ini files, modify flags, notification marks, a timer | get, set, save, sync, attributes, notify, USB values, factory reset, reload | every process | `ConfigStore`, `DurableStore` |
| Cookies (`tr069_cookie.c`), USB configuration of CU, speed test, ping, traceroute, statistics, dump, the HTTP server (`httpd/`) | small or none | one call each | control manager | see [not modelled](#not-modelled) |

How they interact. The process has one thread. Its event loop runs IPC
commands and timers one after the other. A report of an event is `set_event`
(which takes a *token*, `call_flag`++), any number of `put_inform_parameter`,
then `start` (which queues a SESSION task). A client makes these as separate
IPC calls, so clients interleave; the process's own reports (timers, STUN,
value changes) make them inside one handler. The pick timer takes one task per
tick; for SESSION it lowers `call_flag`, and only when that reaches zero does it
take events and parameters out and run a session. While the session runs
nothing else in this process does: the ACS's RPCs queue tasks, set values and
arguments, and the session's EXECUTE state drains the queue, whoever put the
task. At its end a session saves three ini files in the config process with
three IPC calls, between which the other clients of that process go on.
A stop (`SIGQUIT`, at any moment, or the IPC command) resets `call_flag` and sets
`finish_flag`; the pick timer then dumps what is pending into the status
dictionary, which is written to `tr069.ini` and loaded at the next boot.

What makes each component correct:

* queues: first in, first out, nothing overwritten, forgotten or repeated.
* control manager: `call_flag` counts the reports under way and queued; a
  report's event and parameters go into the same session; an accepted event
  is informed once, over restarts too; every event is informed in the end.
* session: an RPC is answered before it is executed, each is dealt with once
  and in order, both sides keep their turns, values are saved, the session ends,
  and it leaves behind only what the control manager is prepared for.
* RPC layer: a list of parameters is set wholly or not at all; a reply says what
  was done; what was set holds, is saved, is watched as the ACS asked.
* transfers: TransferComplete carries the key of the transfer it reports; a
  transfer is done with its own arguments; no request is lost by a stop.
* timers: never two of a kind; what is enabled runs, with the period in force;
  what is to end ends.
* STUN client: the published address and `NATDetected` are what it learnt, an
  answer moves the address only within the transaction it belongs to, and in the
  end the ACS knows the address.
* tree: the pointers stay a tree and the names unique, lookups agree, lists are
  complete, no id is given twice, nothing is left at the end.
* config process: a change that must be notified is notified; what the ACS set is
  on disk after its session; files are whole after a power loss.

## What is hard in it

The hazards are listed with their lines in `PROJECT.json`. The main ones:
clients interleave between `set_event` and `start`, and may die there; the limit
of `set_event` (16) and the capacity of the ring (15) differ; some reports ignore
the result of `set_event`; SIGQUIT cuts into the pick timer between the test and
the use of `call_flag`; the session drains tasks that the control manager
counted; events, requests and the command key survive a stop by way of a dump, a
save and a load, any of which a power loss may precede; an exchange with the ACS
may fail at every turn; all transfers share one key; the first heartbeat
replaces its own timer; a binding answer may be late, doubled or unsigned; one
array of marks serves six files that are saved in one second; the tree compares
names in four different ways; its id stack is shorter than its table; two
parameters may stand for the same configuration key; the config process refuses a
value that its buffer has no room for, and nobody looks at the result.

## Modules

| module | models |
|---|---|
| `Fifo` | the abstract promise of a queue: a bounded list, each call reports what it did |
| `TaskRing` | the ring of `tr069_control.c`. `Contents` reads it from head to tail and is the refinement mapping to `Fifo` |
| `SessionOutcome` | the contract between session and control manager: what a session may leave in the queues (`Outcomes`), and `put_task` on a list |
| `SessionPromise` | the abstract session: one step from open to one of the outcomes |
| `Tr069Session` | `tr069_session_main`, one action per turn of its loop and per result of the exchange in it |
| `Tr069Control` | the control manager with its clients, its own reports, boot, stop, dump, save, crash; a session is one step with one of the `Outcomes` |
| `Transfers` | command key, argument and result slots over Download, Upload, Reboot, the tasks, the report of the program that transfers, TransferComplete, stop, dump, load and power loss |
| `ParamIds` | the stack of free ids as functions (what a pop leaves, when a push is refused, how far `uninit` looks) and what makes ids, counters and `param_table` right (`IdsRight`) |
| `ParamTree` | the tree over these ids: `init_params`, `add_param`, `remove_param`, `find_node`, `get_param`, the lookup of `set_value`, with their four comparisons of names, and `uninit` |
| `ParamRpc` | the RPCs that read and write parameters and attributes, from the arguments of the ACS to the configuration keys, within sessions that save |
| `DurableStore` | the abstract promise of the config process: values over a durable copy, written a file at a time |
| `ConfigStore` | the config process with its clients, its notifications, and the session that sets and saves; refines `DurableStore` |
| `Timers` | `tr069_timer.c`: start, stop and fire for each kind of timer |
| `Tr111Control` | the STUN client with server, network, NAT and ACS around it |
| `MC...` | TLC instances (`TaskRing` needs none: its constants are given in `TaskRing.cfg`) |
| `..._proofs` | theorems and their proofs; `Tables_proofs` is about both tables of fixed size, `TaskRing` and `ParamTree` |

The composition. `Tr069Control` uses a queue as a list, which `TaskRing` is
proved to implement. It runs a session in one step, `SessionEnd(o)` for some
`o \in Outcomes(requests)`, and `Tr069Session` is proved to implement
`SessionPromise`, which has the same `Outcomes`: the detail of a session is
treated once and its consequences for the tokens are proved of the control
manager for every outcome. `ParamTree` takes and gives back ids with the functions of `ParamIds`, several in
one call, and its invariant includes `IdsRight`. `ParamRpc` takes a session that
saves at its end as given and says what is in memory and in the files; `ConfigStore`
takes that a session sets values as given and says what three saves with other
clients in between make of them. `Timers` and `Tr111Control` end in reports, whose
way into a session is `Tr069Control`.

## State and actions

Variables have the names of the code where it has one. What needs a word:

`Tr069Control`

| variable | code |
|---|---|
| `status` | `control_handle->status` (DUMP is inside one handler and never seen) |
| `task_queue`, `requests` | the rings as a list and as a count (all requests are TransferComplete) |
| `event`, `inform_parameters` | the event flags that are 1, the parameter list |
| `session` | `current_event` and `current_inform_parameters` of `picktask_proc` |
| `ini`, `disk` | `tr069_status_ini` and `tr069.ini`: EventFlag, InformParameters, RequestQueue, FirstBoot |
| `pc` | between which two of its IPC calls a client is |
| `owed`, `overrun`, `leak` | history: events accepted and not yet in a session; a SESSION task queued without a token; a token left without a task |

`Tr069Session`: `recv` is what `recv_buff` holds (an RPC with its number and the
tasks it asks for; `OK`, `RETRY` or `BAD` as the reply to a request; empty);
`unsaved` says that the config process holds a value that is not on disk; the
rest is history.

`Transfers`: an RPC is its number, and a slot holds the number of the RPC that
wrote it: `command_key`, `argument[k].url`, `argument[k].login` (each argument is
stored as it is read, so a refused RPC may have written the first of them),
`result`. `running` are the transfers that other programs are doing; `client` is
how far such a program is with `set_transfer_complete`, `put_request`, `start`.

`ParamRpc`: `box` is the values of the config process, the diagnosis parameters of
this process, `set_param_flag` and the restarts a value causes; `disk` is the files;
`attr.notif` is `notif_type` in the tree, `attr.flag` the attribute in the config
process; `reply` is the last RPC with its arguments, faults and answers. `Fits[k]`
are the values shorter than the buffer of key `k` (`cfg_get_ini_bufsize`): the config
process drops any other (`CfgSetConfig`), which `tr069_set_config` does not look at
(`SetConfig`). `Cut` is what the 256 bytes of a diagnosis parameter hold of a text. One
action per RPC (`SetParameterValues`: all values are checked, then all are set,
keys behind a parameter found through `tr069_index_map`), the session's end,
restart.

`ParamTree`: a name is the sequence of its components; two components are either
unrelated or the text of one begins with the other's (`Longer`), which is all
that `memcmp` can tell. `nodes` is `param_table`; `calls` are the calls of
`tr069_parameter_init_params` still to be made. What is in the tree is what the pointers
lead to from the root (`Linked`, the least set with the children of its members); a node
that `recursive_remove` could not free is in `nodes` and not in `Linked`. The walks of
the code are recursive functions: over the components of a name (`Lookup`, `Added`),
over a list (`Concat`), over the levels that are left below a node (`GetAll`,
`FreeOrder`).

`ConfigStore`: `memory` is `g_cfg_params`, `file` the six ini files by parameter,
`notify` is `g_tr069_notify`; `saving` is how far `tr069_save_config` is; `acs`
and `unreported` are history. One action per IPC command, one per save of a
session's end, the timer, power loss within a save or a reset. `Cut[p]` is what the
buffer of `p` holds of a value: a value that is cut does not fit (`Fits`) and is refused
by a set or a sync (`Set`, `SyncConfig`), while a load cuts it (`Loaded`). `acs` is the
last value of the ACS that was taken; `set_param_flag` is raised for a refused one too.

`Timers`: `live[i]` is what runs under the id `i` of `f_timer`, `id[k]` what the
variable of kind `k` holds; `f_timer_add` fails or gives any id not in use, which
may have been another timer's before. `lost` and `stale` are history: a timer is
gone that was not to be, or values were changed by another process, which does not
make `tr069_timer.c` read them.

`Tr111Control`: `handle`, `config`, `enable`, `ip` are the client's; `mapping`,
`answers`, `acs` are the world's. One tick receives one datagram and makes one step
of the status, as the 5 s timer does; the handlers in it (`Recvfrom`,
`ParseMessage`, `ApplyNewAddress`, `Setup`, `NewTransaction`, `TaskProc`) are
functions from state to state.

## Runs

| run | configuration | shows |
|---|---|---|
| `ring` | 4 slots, 2 tasks | the ring implements `Fifo` at every position of head and tail, full, empty, after several wraps (`ImplementsFifo`) |
| `tokens` | 3 clients that may die, own reports that ignore a refusal, ping diagnoses, 4 tokens over 3 places; fairness | `TypeOK`, `TokenCover`; when reports cease every event is taken by a session (`EventTaken`) |
| `status` | 2 clients and own reports, more parameters than there is room for, crashes, sessions that reset, reboot or diagnose | `ParametersTravelTogether`, `TokenMeansEvent`, `OwedPending`, `StoredIsOwed` |
| `session` | 3 RPCs with any of the task lists, 2 requests, queues empty to full, every exchange may fail; fairness | `SessionInv` (types, turns, values saved), `ExecutedWasAnswered`, `DealtOnceInOrder`, `EndsAsPromised` (refinement of `SessionPromise`), `Ends` |
| `transfers` | 3 RPCs of either kind or Reboot, overlapping or not, refused or not, answers lost, stops and power losses | `TransfersInv` (no request lost or made up), `ReportNamesTransfer`, `OwnArguments` |
| `param_rpc` | 14 parameters, one of each sort; 2 RPCs with lists of up to two entries, good, bad and too long for their keys; a restart | `AnswersInv`, `ChangedIsSaved`, `NotifMatchesFlag`, `SetAllOrNothing`, `LastValueHolds`, `ChangesAsAsked` |
| `tree` | 5 names of up to two components, one text a beginning of another; 8 entries, a stack of 3; init of each standard and 5 calls after it, `uninit` and a new start among them | `TreeInv`, `LookupsAgree`, `ListsComplete`, `RemovesBelow`, `GivenAndFreed` |
| `config` | 4 parameters in 3 files and in none, 2 values and one that is too long | `StoreInv`, `ChangeKept`, `AcsValueKept`, `ImplementsStore` (refinement of `DurableStore`) |
| `timers` | 4 ids, 3 changes of values, one call of `f_timer_add` that fails; fairness | `TimersInv`, `AsConfigured`, `HeartbeatLostLate`, `TestsEnd` |
| `stun` | one address inside and one outside, 2 transaction ids, 1 retry, 1 answer under way; fairness | `AddressInv`, `AcsKnows`, `AnswerIsCurrent`, `Converges` |
| `diagnosis`, `rpc` | see [findings](#findings) | violated |

Bounds, and why they are enough.

* The code's 16 tasks, 16 requests and its parameter list become 2 to 4: every
  property speaks of empty, part-filled, full and one-off, all of which are
  reached. All safety properties are also [proved](#proofs), for all sizes.
* Three clients are enough for one that finishes, one that is half way and one that
  dies or is refused. Three RPCs give a first, a middle and a last, with a task of
  an earlier RPC still queued; three transfers give one that overlaps and one after
  it, and every slot has one value that is too old.
* `param_rpc`: two RPCs are enough for one that leaves something behind and one that
  meets it (`SetParameterValues` then an attribute, a refused list then a good one);
  lists of two entries give an order and a bad entry before and after a good one. 300
  zeros and 60 is an integer that the RPC accepts and no key has room for: it comes
  before, after and instead of a value that fits, under one key and as one of two
  addresses. Which keys have which room is a constant of the module and of the proofs.
* `tree`: table and stack are small enough for init and five calls to fill them, so
  that leaks and failures half-way through a name happen; two
  components (`MaxDepth`) are enough for a parent, a sibling and a longer sibling at
  each level. That the walks are right for longer names is proved.
* `config`: a behaviour touches either the two files that a session saves or one of
  them with the volume (which saves its own file at once) and a parameter of no file
  (`touched` in `MCConfigStore`): the marks of two files interact, and each sort
  of parameter meets them. The value that is too long is set by every client and comes
  to one file from a USB stick; that the others hold it is left to the proofs.
* `timers`: four ids are one more than there are kinds, so that an id is used
  again, by another kind too. Values are below and above each limit.
* `stun`: two addresses are enough to go and come back; with two ids an answer is of
  the running transaction or an older one. Its safety properties are proved
  for any number of all of these.

Deadlock is checked in every run except those whose system really stops: a session
ends (`session`, `rpc`), the bounds on RPCs or calls are used up (`transfers`,
`param_rpc`, `tree`), no timer is left (`timers`).

## Findings

Two runs check a claim that the code makes of itself and that does not hold.

* `diagnosis`: a ping or traceroute executed inside a session "should trigger
  diagnostics complete event" (`tr069_session.c:413`). It sets the event without
  a token and puts a SESSION task that the same EXECUTE loop drains: nothing
  informs the event until some other report opens a session. (The same task
  picked by the timer, `tr069_control.c:868-898`, takes a token and works.)
* `rpc`: "receive rpc request and send rpc response" (`tr069_session.h:26`):
  the RPC that arrives in the exchange of a response is never dealt with, since
  EXECUTE goes back to REQUEST and sends an empty request over it.

## What the properties excuse

The models do what the code does, and where that is surprising but the repository
promises no better, a property names the case and excuses it, and nothing more.

* The config process refuses a value that is not shorter than the buffer of its key and
  keeps the old one (`config/cfg_service.c:623-626`), the dispatcher answers `FV_OK`
  (`config/cfg_dispatch_fvipc.c:25-37`), and `tr069_set_config` looks at neither
  (`tr069_interface.c:602`). `SetParameterValues` compares a value only with its own
  buffer. So an accepted value that is too long does not hold, although the ACS was told
  Status 0; the session saves, and what depends on the value restarts, all the same. A
  diagnosis parameter keeps the first 255 characters (`tr069_interface.c:544-556`, `583-596`). The
  properties say what is true then: `LastValueHolds`, that a parameter has the last value
  of the list *that its key had room for* and that no key has a value the list did not
  give it; `AcsValueKept`, that the last value *that was taken* is on disk. A refused
  value thus disturbs none that came before or after it.
* `set_event` refuses when `call_flag` is 16 (`tr069_service.c:215`), but the ring
  holds 15 tasks: the sixteenth report is admitted, its task dropped, its token kept
  (`leak`). The same for a client that dies half way and for the second event of a
  log message that is refused (`tr069_timer.c:59`). A refused report of the process
  itself that starts anyway is `overrun`.
* `OwedPending` assumes `StopWaits`, that the loop runs the pick timer once more
  before it ends; without it what was not dumped is lost.
* The reply to TransferComplete is not looked at (`tr069_session.c:254`), and events
  and parameters are cleared before the Inform is delivered (`tr069_control.c:747`):
  a session that fails loses what it carried.
* One command key for all transfers (`tr069_rpc.c:1303`): with overlapping transfers
  the later key replaces the earlier (`overlapped`); a power loss may lose the key
  (`crashed`). A task whose answer was lost waits while its arguments are replaced
  (`lost`).
* Parameters without a key have index 0 in `tr069_index_map`, which is the first key
  of the configuration (`tr069_parameter.c:280`): setting one writes that key. A
  LocalManageServerUrl hides the URL that the ACS sets.
* `MultiAbendNumbers` is added under the name of the parameter after it
  (`tr069_parameter.c:1110`), so one of the two is not in the tree. A parameter behind
  a sibling whose name begins with its own is not found by the RPCs that read
  (`Shadowed`); a parameter that took the place of an object keeps what is below it
  from being found (`Displaced`).
* A comment, `tr069_rpc.c:2943`, says that `set_value` cannot find a wrong type; it does,
  and the RPC is answered with fault 9006, as its list of faults has it.
* A factory reset inside a session replaces `config.ini`, and if the session set a
  value its end writes the values in memory over it (`tr069_session.c:354`):
  `AcsValueKept` says nothing of a file that was reset. A second save of one file
  within a second resets the marks of that file (`SaveLoses`).
* A binding request with the change of the address marked is never sent:
  `tr111_control.c:632` overwrites the status that asks for it. The setup replaces
  the published address without a report (`excused`).
* Log messages whose dump is missing leave the id of their timer behind, and the next
  stop removes whatever timer has that id (`lost`); a packet loss test whose timer
  could not be added leaves its flag up, and no test starts any more.
* Notifications are presets again after a restart; both sides are lost together.

## Fairness

* `Tr069Session`: weak fairness of the next turn: a send returns, because libcurl is
  given a time-out (`tr069_rpc_set_libcurl`). `Ends` assumes that the ACS does not ask
  for a retry of the Inform for ever; the code has no limit for that.
* `Tr069Control`: the pick timer keeps firing (`WF(PickTask)`; it is added in
  `tr069_control_main_task` and removed only by the dump), a session ends
  (`WF(SomeSessionEnd)`, which is `Ends`), and a client that was accepted goes on to
  `start` unless it dies (`WF(Start(c))`, as `tr069cgi.c:18-23` does). `EventTaken`
  assumes that reports cease: while new ones keep coming, `call_flag` need not reach
  zero, and the code promises nothing then.
* `Timers`: a timer that runs fires again and again. That the dump of the player is
  missing is not fair: it need never happen.
* `Tr111Control`: the process starts, its 5 s timer fires and time-outs expire,
  reports are informed; and the network, however lossy, now and then lets a binding
  request and its answer through (strong fairness of `Asked` and `Heard`, since each is
  enabled only for a while). `Converges` assumes that the mapping comes to rest with
  STUN on.

## Proofs

All proofs are checked by TLAPS; the assumptions are the named ASSUMEs of the
modules (sizes positive, clients finite, reports are primary events, initial queues
fit and hold only diagnoses and resets that some RPC asks for), which TLC evaluates
in the runs. An invariant that had to be strengthened was given to TLC in its stronger
form before it was proved.

* `Tables_proofs`, the ring. `RingTypeCorrect` is inductive as it stands.
  `RingIsFifo` shows, for each action, that `Contents` changes as the list does
  (`PutAppends`, `PickTakesFirst`, `EmptyContents`), with `FullAndEmpty` relating
  the two tests on head and tail to the list's length. `%` is replaced by
  the case distinction of `SuccIs`, since the SMT backend knows little of it.
* `Tables_proofs`, the tree, for every table of names, every list of calls, and every size
  of the table and the stack. The inductive invariant is `TreeOK`: types, ids (`IdsInv`) and
  `Shape`, which is all of `TreeInv` but `NamesOnce`. The ids: the bottom of the
  stack is the least id never used, what is above it are freed ids, each once, none in
  the table (`TopIsFree`, `TakenRight`, `GivenBackRight`, `UninitTakesAll`).
  The shape: that names are unique is not inductive, since `add_param` looks for
  a twin only where its own walk leads. `Routed` says that every walk for a name leads
  there (a node hangs below the first sibling that begins with its name), `Levels` that
  walks of equal length end on one level; then nodes of one name have one parent
  (`SameParent`, by induction on the level) and `Twinless` makes them one (`NamesOnceIs`).
  A new node goes to the end of a list, behind all that a walk could find before
  (`HungTree`), and a removal takes a node out with everything that was routed to it,
  so what stays is still found first (`UnlinkedTree`, `TrimmedTree`).
  A recursive function of the model is taken apart once (`Recursion`: a walk of n steps
  exists, from the well-founded order of the naturals; `Induction` comes from there too);
  `AddWay`, `LookupIs`, `ConcatIs`, `FreesWayIs`, `BelowWayIs` and `GetWayIs` give the
  equations, and `AddedSound`, `RemovedSound`, `BelowIs` and `GetIs` go along them. So
  `TreeCorrect`, and `GivenAndFreedCorrect`: the id that is given is not in the table,
  and the bound of `uninit`'s loop, `param_number + idstack_top`, takes in every id of
  the table, leaked ones too. Where no node is displaced, the nodes above a node have the
  beginnings of its name (`Chain`), so what hangs below an object is what its name is a
  beginning of (`UnderPaths`): `LookupsCorrect` follows one lookup down level by level
  (`WayDown`), `ListsCorrect` and `RemovesCorrect` compare the walk with what is below.
* `Tr069Control_proofs`. `ControlTypeCorrect`: types and capacities, one lemma
  per group of actions. `TokensCover`: `TokenCover` is not inductive. When a
  session ends it has drained the queue, so any SESSION task in it would be
  missing; the strengthening `TokenInv` adds `SessionSpent` (a session opens with
  the last token spent, so by `TokenCover` no SESSION task is queued and no client
  is half way) and `StoppedQuiet` (no client is half way while the process is
  down, so a boot starts from zero). The counting lemmas say what a put, a pick
  and the tasks of an RPC do to the number of SESSION tasks in a list.
  The events, in the same module: `NothingComesBack` and `NothingIsLost`: `StoredInv` adds that
  while events are in memory the dictionary holds none and all that are pending are
  owed; `OwedInv` adds that once the dump is made the dictionary has all that is owed.
  `NothingIsLost` needs `StopWaits`. `ParametersWait`: a client's parameter stays in the
  list until its token is spent; it uses `TokensHold` for the session that opens while
  another client is half way, which `TokenCover` excludes. `TokensHaveEvents`:
  `TokenMeansEvent` is inductive, for a step that gives a token sets a primary event
  and the step that clears events leaves no token. Its hypothesis, that `set_event` is
  not called with the value 0, is what every caller does (the run `status` has it too).
* `Tr069Session_proofs`. `SessionCorrect`, `AnsweredBeforeExecuted` and `InOrder` from one
  invariant: a value that is not saved has raised `set_param_flag` (`FlagTells`), what
  is queued while the session goes on was answered (`QueueAnswered`), and what was
  dealt with is older than the RPC in `recv_buff` (`DealtBefore`). The steps are
  grouped by what they share: asking, dealing with a fault, dealing with success,
  executing. `PromiseKept`, that a session implements `SessionPromise`, needs what the
  promise cannot see while the session is open (`Progress`): outside EXECUTE the queue
  is either as it was at the beginning with nothing executed (`Undrained`), or empty
  with all requests sent (`Drained`), and what is queued or done was asked for by an
  RPC. `EndsWell` then names the outcome of each end; `PutUntagged` says that
  queueing and forgetting the history's numbers commute.
* `Timers_proofs`. `TimersCorrect`: `TimersInv` with `LossFlagged` (a packet loss test
  that runs holds its flag, or a second one could start) is inductive, though a stop
  may hit a timer of another kind. `RunsAsConfigured` and `HeartbeatNotLost` follow
  each kind of timer through the steps of the others. `FirstBeatInPhase`: the
  arithmetic of `get_1st_heartbeat_time` for all times and periods.
* `Tr111Control_proofs`. `AddressCorrect`: each handler, as a function from state to
  state, keeps `Sound` (flag and published address follow the public address) and
  `Tells` (a change of the published address is reported), except the setup, which is
  `excused`; a tick composes them (`TellsTransitive`). `AcsIsTold` follows from `Tells`.
  `CurrentAnswers`: an answer that is taken has the id of the running transaction, and
  every answer with that id holds an address seen since it began.
* `ConfigStore_proofs`. `StoreIsDurable`: each action is a load, a set, a save of whole
  files or no step of `DurableStore` (`StepKeepsPromise`); a refused set is none. Memory
  holds only values that fit (`MemoryFits`), which `BufferAssumption` gives for a load:
  what was cut is not cut again. `ChangesKept`: `NewsInv` adds
  that a flagged parameter has changed and was not told (`FlagsAreNews`), which is what
  a save marks. `AcsValuesKept`: `AcsInv` follows the saves at the end of a session:
  what the ACS set is in memory (`AcsInMemory`), and it is in the file or a save of that
  file is still ahead (`AcsSafe`); when the session is over none is (`SessionOver`).
  A refused set leaves all of this as it was (`RefusedSafe`).
* `ParamRpc_proofs`. Every list of an RPC, of any length. What the second pass does is a
  fold of the community modules, which is taken apart here once: a function that
  obeys its equation exists (`FoldSteps`), any such function goes through the list
  entry by entry (`FoldTrace`), so `SetAllSteps` and `SetAttributesSteps` give the
  boxes and the attributes before and after each entry; both and what follows are
  inductions by the least natural number that fails (`Induction`). Along the steps a
  box grows: what changed has raised `set_param_flag` and restarted what depends on
  it (`SetAllGrows`), what an entry set is held until an entry for the same place that is
  taken (`LastIsHeld`), a key that changed has a value that an entry gave it and that
  fits (`CfgSets`, `ChangedIsGiven`), a notification is one that an entry meant (`NotificationGiven`) and
  the flags stay like the notifications (`SetAttributesWatched`). `RpcInv`, types with
  `ChangedIsSaved` and `NotifMatchesFlag`, is inductive (`RpcInvariant`), and
  `ChangesSaved`, `FlagsMatch`, `AllOrNothing`, `LastValues` and `AsAsked` follow.
  `BufferAssumption` says that the values in the files at first fit, nothing about which
  others do. `KeyAssumption` says what `tr069_index_map` makes of parameters with one key:
  ProductClass, ModelName and ModelID, and SoftwareVersion, FsVersion and AppVersion
  are read-only, BrowserURL2 and AuthURLBackup are not both named; and that the two
  lists of presets (`tr069_parameter.c:1176-1200`) agree. `EffectAssumption`: a value
  that restarts something has a key of its own.
  The replies: the fault list and the answers are folds too, so the same induction gives
  them entry by entry. The faults name the entries that cannot be done, all of them and
  no other (`FaultsListed`, and `CheckedExplains` for the reply); a reading RPC answers
  every name it was given (`AnswerAllWhole`). A reply is good when it is made and a
  step that makes none keeps it (`LastReplyGood`), hence `AnswersCorrect`.
* `Transfers_proofs`. `TransfersCorrect`: no transfer is in two places, be it queue,
  program or result (`Once`), so no more requests are put than RPCs were asked
  (`Counted`); dictionary and file are empty while memory has the data (`Filed`).
  `OwnArgumentsAlways`: while no answer was lost, what is queued is executed before the
  next RPC is read, on its own arguments (`QueueOwns`). `ReportsAgree`: an ACS that
  waits has only its last RPC live or pending, and key and result, in memory or in the
  dictionary, are that one's (`Named`).

Only model-checked, and why:

* liveness (`EventTaken`, `Ends`, `TestsEnd`, `Converges`): the prover has no ENABLED.
* what the two runs of [findings](#findings) refute.

## Abstractions

* Handlers are atomic, as the loop makes them, except for SIGQUIT, which is
  `ServiceStop` between handlers and `PickSessionInterrupted` inside the one
  handler that reads `call_flag` twice.
* `Tr069Control`: several `put_inform_parameter` of one report are one parameter; names
  and values of parameters are left out. `stop` of the IPC library is external:
  `StopWaits` says if the loop runs the pick timer once more before it returns. When the
  process ends (`Ended`) its clients start from the beginning: they are other processes,
  whose next call finds the service gone. The
  `kill -3` inside the REBOOT task reaches the process or not (`PickReboot(quit)`).
* `Tr069Session`: a failed exchange (`SendFails`) stands for a time-out, a refused
  connection and a partial transfer alike: in each the code ends the session.
* `Transfers`: `MaxRequest > MaxRpc`, so the queue of requests is never full;
  `put_request` would drop one more (`tr069_control.c:314-317`), which takes 16 transfers
  that end before a session delivers a request. Other programs' reports come one at a time (`OtherReport`). A message that
  cannot be allocated after its task was queued is not modelled, nor is a NULL or
  overlong command key.
* `ParamRpc`: the tree is fixed, as it is after init, so a lookup is a look into the
  names. A text matters by its kind (boolean, integer, negative, time, other).
  The codes of value changes are left out; of the
  computed parameters (statistics, fixed values) only that they are not the
  configuration's. A notification has one digit: of a longer text the code tests the
  first character and keeps what `atoi` makes of all (`tr069_parameter.c:1917-1930`).
  An empty name, which reads before the buffer, is not an input, nor is a `%` in a value
  of a diagnosis parameter, which `tr069_set_config` takes as a format
  (`tr069_interface.c:546-548`). When the response cannot be allocated after the second pass
  (`tr069_rpc.c:3042-3060`) the ACS gets a fault although the values are set: failures of
  `malloc` are not modelled, so `SetAllOrNothing` does not speak of them. Values that the
  program sets itself (`NATDetected`, the published address) fit their buffers, and so do
  those of the encoded passwords; the size of an IPC message is external.
* `ParamTree`: in the run the list of calls of `init_params` is scaled down to one of each
  sort; a call is a name and an index, so that two calls may have the same name. Names
  have at most `MaxDepth` components, as long as those of the table. Freed memory
  is not modelled: a leaked node is an entry that nothing leads to.
* `ConfigStore`: a set of one value stands for the command of that parameter; the upgrade of
  a version 1 file, `copy_ini_file`, the values computed from network interfaces and the
  board settings behind HdmiMode, VideoMode and HardwareVersion are left out. `PowerLoss`
  cuts the saves and the factory reset. `ini_dump`, by which USB values come to a file
  through `/var/change.ini` and a `mv` (`config/cfg_service.c:799-821`), and
  `cfg_params_sync` and `cfg_tr069_sync`, which move without a `sync` before
  (`config/cfg.c:766-772`, `809-815`), are taken as atomic: `ImplementsStore` says nothing
  of a power loss inside them.
* `Timers`: times are counted in firings; what a beat reports is in `Tr069Control`.
* `Tr111Control`: the layout of a STUN message and its signature are one bit each; a
  datagram that does not parse is `Silence`; `recvfrom` waits up to 5 s
  (`tr111_control.c:623`) within its tick, so all of the process waits with it. An id of
  a transaction is not used again while an answer with it is under way, as the code
  draws them at random. `tr111_control_setup` reads `IPAddressReal` twice
  (`tr111_control.c:505`, `525`), the model once: the interface keeps its address
  between the two.

## Not modelled

* Cookies of a connection request (`tr069_cookie.c`, `tr069_session.c:164-186`): one slot in
  shared memory that the CGI fills and an Inform empties, and libcurl's cookie store;
  what a cookie leads to is decided outside the process.
* USB configuration of CU (`cu_usb_config.c`): a file copied once into parameters.
* Ping, traceroute and packet loss probes, speed test: one call of an external program or
  library; what they queue and report is in `Tr069Control` and `Timers`.
* `tr069_dump.c`, `tr069_statistics.c`, `tr069_test.c`: counters for display that nothing
  reads, and manual tests.
* `httpd/` (`mongoose.c`, `cgic.c`) and the SOAP and HTTP headers: vendored.
* Formatting and parsing of messages, names and times, the lists of fault texts,
  the options of libcurl.

## Plan

The parts of the plan that are done: the queues, the control manager, the session and
their proofs; transfers; the tree, its ids and the RPCs on parameters; the config process;
timers; the STUN client; proofs of all their safety properties. What would add most next:

1. The session of `ParamRpc` and the saves of `ConfigStore` in one module, so that a
   reset, a save and a notification are seen from the RPC to the disk.
2. `ParamRpc` over `ParamTree`, so that a name that is displaced or shadowed is followed
   into the reply.
