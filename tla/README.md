# ION: a verification project

ION is JPL's implementation of delay-tolerant networking: the Bundle Protocol
and its companions (LTP, BSSP, CFDP, DTPC, AMS ...) for nodes with long delays,
interrupted links and no operator at hand. A node is a set of Unix processes
with no supervisor: what they share is a heap in shared memory with
transactions, the Simple Data Recorder (SDR), and semaphores. Whatever a
protocol must not forget is in the SDR; whatever two daemons do to each other
goes through it.

This directory holds TLA+ models of ION's core, TLC configurations that check
them on small instances, and TLAPS proofs of the results that matter most.
Every definition is translated from the C code under `src/`; PROJECT.json names
the lines of each.

Six parts are done: **the SDR** (transactions, log, recovery, mutex), the **LTP
session** (reliable transfer of the red part of one block), the **LTP span**
(what is between client services and the link), the **Bundle Protocol agent**
(the life of a bundle in its lists), the **space of zero-copy objects** and
**CFDP** (unacknowledged file delivery). The plan at the end says what follows.

    tlc -config SdrXn_cancel.cfg MCSdrXn      model-check one run
    tlapm SdrXnProofs.tla                     check the proofs of one module

## 1. Inventory

### 1.1 How the parts of a node interact

* Tasks are processes. Each attaches to working memory (a PSM partition), to
  the SDR and to semaphores by key. Nearly every handler of every protocol is
  `sdr_begin_xn ... sdr_end_xn`: one handler excludes all others on the node,
  and its effects on the heap are to be atomic. Working memory is *not*
  restored when a transaction is reversed; that is why ionrestart exists.
* Work goes from task to task as an entry in an SDR list and a `sm_SemGive`.
* Time is a list of events in the SDR, scanned every second by a clock daemon
  (`ltpclock`, `bpclock`, `rfxclock`, `cfdpclock`, `dtpcclock`), which calls the
  handler of the event in a transaction of its own.
* Clients get notices from an SDR list per client service, or call-backs.
* Engines on different nodes exchange segments over link services that lose,
  duplicate and reorder.

### 1.2 Components

For each component: its state (S), operations (O), what makes it hard (H) and
what would make it correct (C).

**SDR transactions** (`ici/sdr/sdrxn.c`, `ici/utils/ionunlock.c`) - partly modelled.
S: profile flags, mutex and its owner, nesting depth, `modified`, `xnCanceled`,
log (file or memory) with the list of its entries, heap in memory, heap in file.
O: begin, write, end, cancel, exit, crashXn; reload of a profile; ionunlock.
H: death of a task or of the node between any two writes; a log in memory that
fills; nested levels whose callers do not know of a cancellation.
C: a transaction is all or nothing; only its owner touches heap and log; a
reversal restores the heap of before; the mutex always comes back.

**SDR mutex and ionrestart** (`sdrxn.c` takeSdr/unlockSdr, `platform_sm.c`,
`restart/utils/ionrestart.c`) - partly modelled.
S: an SVR4 semaphore, its "ended" flag, the two words of the owner, depth.
O: take with nesting, give, end / unend / unwedge, take-over by ionrestart.
H: the words of the owner are compared without the semaphore; ionrestart
becomes the owner of a transaction whose task is still running.
C: two threads are never in a transaction at once; depth is the nesting of the
one inside; the restarter keeps the transaction it took.

**LTP sessions** (`ltp/library/libltpP.c`, `ltpP.h`, `ltp/daemon/ltpdeliv.c`,
`ltpclock.c`) - red part modelled.
S: export session (claims, checkpoints, reports applied, timer of the
cancellation), import session (segments, reports, serial numbers), list of
deliverables, notices.
O: one handler for each type of segment, four retransmission timers, dequeueing
by the link service output, delivery by ltpdeliv.
H: loss, duplication and reordering; answers racing timers; limits on reports,
checkpoints and retransmissions; ltpdeliv waits between two transactions.
C: the source is told "complete" only if all of it arrived; a block is
delivered once and whole; the source always ends.

**LTP span management** (`libltp.c`, `ltpmeter.c`, `libltpP.c`, `ltpclock.c`) -
partly modelled. S: the block that is aggregated, the window of export sessions,
the queue of segments, four semaphores. O: ltp_send, ltpmeter's segmentation,
the dequeueing by the link service output, report and cancellation, start and
stop of transmission. H: clients that wait for the buffer are woken by the close
of any session. C: no SDU is lost between the buffer and a session; the window
is respected; a waiting client is served.

**SDR heap and containers** (`sdrmgt.c`, `sdrlist.c`, `sdrhash.c` ...) - not
modelled. S: pools of free blocks, lists, hash tables. O: sequential, all inside
transactions. C: no block is both free and in use.

**Platform** (`platform.c`) - not modelled but for the semaphores: operating
system services.

**Working memory** (`psm.c`, `smlist.c`, `smrbt.c`, `sptrace.c`) - not modelled.
S: shared partitions, lists and red-black trees. H: nothing restores them when a
task dies in the middle. C: structure of list and tree.

**Zero-copy objects and their space** (`zco.c`, the requisitions of `ion.c`,
`bptransit.c`) - partly modelled. S: occupancy per account, files with their
liens, queue of requisitions, a semaphore per attendant. O: request, provide,
award, shred; create, append, copy, destroy. H: an award may fall anywhere
between the request and the wait. C: the books balance; occupancy and promises
never exceed the limit; a task that asks gets its space.

**Contact plan** (`rfx.c`, `rfxclock.c`) - not modelled. S: contacts, ranges, a
timeline of their starts and ends. C: current rates are those of the contacts in
force; no event outlives its contact.

**Node control** (`ion.c`, `ionsec.c`) - not modelled but for the requisitions of
ZCO space: set-up of databases.

**Containers and codecs** (`llcv.c`, `lyst.c`, `radix.c`, `cbor.c`, `crc.c`) -
not modelled; llcv, a mutex with a condition, is the one with concurrency.

**BSSP** (`libbsspP.c`) - not modelled. Shares LTP's structure: one segment per
block, acknowledged or retransmitted on a reliable link.

**Bundle Protocol agent** (`bpv7/library/libbpP.c`, `libbp.c`, `bptransit.c`,
`ipnfw.c`, `bpclm.c`, `bpclock.c`) - partly modelled. S: bundles, the lists they
are in, the hash table of their keys. O: send, acquire, forward, allocate,
dequeue, report of success or failure, suspend, cancel, release, receive,
expiration, limbo, plans and outducts. H: adapters report on serialized copies
by key, long after; the same bundle is moved back by several parties. C: lists
and bundles agree; a bundle always has one party responsible for it.

**Convergence-layer adapters** (`tcpcli.c`, `ltpcli.c` ...) - not modelled.
Threads over sockets; tcpcl negotiates sessions.

**Routing** (`libcgr.c`) - not modelled: a search over the contact plan.

**Bundle security** (`ext/bpsec`) - not modelled: blocks and policy data.

**BPv6** (`bpv6/`) - not modelled: the legacy twin of bpv7.

**CFDP** (`libcfdpP.c`, `libcfdp.c`, `cfdpclock.c`, `bputa.c`) - partly modelled.
S: outbound FDUs, inbound FDUs with extents, files, Finished PDUs and pending
closures. O: put, cancel, suspend, resume, dequeueing, one handler per PDU,
three scans of the clock, faults. H: PDUs in any order and again, also after the
end of the transaction. C: what is counted is in the file, where it belongs; a
delivered file is whole and stays so; a transaction ends on both sides.

**CFDP user operations** (`libcfdpops.c`, `bpcp.c`, `bpcpd.c`) - not modelled:
messages to users over CFDP.

**DTPC** (`libdtpcP.c`) - not modelled. S: aggregators, sequence numbers, gap
lists. C: items are delivered in order, each once.

**DGR, BSS, AMS, network management, trusted collective, contributions, demos,
tests** - not modelled; PROJECT.json gives the reason of each.

## 2. The SDR

### 2.1 Modules

| module | what it is |
|---|---|
| SdrStore | the promise: a heap whose updates become permanent together or not at all |
| SdrXn | the implementation: `sdrxn.c` with its log, its two images and its recovery |
| MCSdrXn | profiles and values for TLC |
| SdrLock | the mutex, read by read, with ionrestart and sm_SemUnwedge |
| MCSdrLock | sets of threads for TLC |
| SdrXnProofs, SdrLockProofs | theorems |

SdrXn takes the mutex in one step; SdrLock says when that is right. SdrXn
implements SdrStore through the refinement `Store`, whose committed heap is
*what a cancellation at this moment would restore* (`Undone`): the heap with
every cell that has a log entry set back to the oldest one. So the abstract
commit is the step that empties the log, and the step that adds an entry must
not change the abstract heap at all. That is the write-ahead discipline.

### 2.2 State and actions

A `Cell` is the extent of one `_sdrput`. A log entry is two words, the control
word (address, length) and the old data, kept apart because a crash falls
between them; `logEntries` is the list in memory, `log` the words that survive.
`pc` is where a task is in the library:

| pc | the task is about to | code |
|---|---|---|
| idle, run | call the SDR, outside or inside a transaction | |
| old, file, dram, mod | log the old data, write the file, copy to memory, set `modified` | `_sdrput` 2073-2147 |
| rev | process an entry of the log, newest first | `reverseTransaction` |
| trunc, clear | truncate the log file, empty the list and disown | `clearTransaction`, `unlockSdr` |
| give | give the semaphore | `unlockSdr` 450-454 |
| dead | nothing: killed or aborted | |

A user keeps its own count of levels (`level`), apart from `depth`, because
`crashXn` closes the transaction under callers that do not know. Actions are the
calls; a call that changes shared state several times is cut at those changes.

Faults are bounded by `MaxFaults` and chosen by `Faults`: `kill` (a task dies
where it stands), `power` (shared memory is lost, files stay), `short`
(a write to the heap file that is cut short); power failures during a recovery
are not counted. Other bounds: `MaxDepth`, nesting;
`MaxLog`, words in the log, which bounds the writes of a transaction.

A power failure keeps every write() that was made before it, in order. The code
asks nothing of the file system for that (there is no fsync or O_SYNC in
`sdrxn.c`), so what is shown of power failures is shown of storage that writes
through: with a cache that reorders writes, the log entry of an update may be
lost when the update is not, and nothing said here of recovery would follow.

SdrLock cuts takeSdr at every read of shared memory and lockSdr at every write.
`forced` records that somebody gave a semaphore it had not taken, which
`sm_SemEnd`, `sm_SemEnded` and the timeout of `sm_SemUnwedge` do on purpose.

### 2.3 Runs

| run | instance | shows |
|---|---|---|
| SdrXn_cancel | 2 tasks, 2 cells, depth 2; a log file, a log in memory of 3 words, no log; no faults | AllOrNothing (the refinement), ImagesAgree, ReversalRestores, ReversalNeverStuck, NoStaleCancel, OnlyOwnerInside and, under FairSpec, MutexReleased |
| SdrXn_power | 2 tasks, 2 cells, log file, one power failure and any number of them during the recovery | PowerKeepsStore, NeverWrecked, ImagesAgree: power may fail at any step of a transaction, and again at any step of the reload |
| SdrXn_kill | 2 tasks, 2 cells, two of: kill, short write; ionunlock | ReversalRestores survives (and is proved for any number of kills; OnlyOwnerInside for every fault) |
| SdrLock_owner | 2 threads of one task, depth 2, ionrestart, unwedge | ExclusiveUntilForced, DepthIsLevel, MutexReleased: whether ionrestart writes the owner before or after the task that launched it has gone on |

Why the bounds are enough. Two tasks are all that exclusion distinguishes; two
cells let a reversal be right for one and wrong for the other; two values tell
old data from new; six words of log let a cell be written twice and another in
between, so that the order of the reversal matters; three words of log memory
make the log overflow in the middle of an entry, two levels make an inner
cancellation, and a third adds no new branch (`depth > 1` is the only test).
The theorems have no such bounds.

Deadlock is checked in SdrXn_cancel, SdrXn_power and SdrLock_owner. In SdrXn_kill
the node may really stop: after the listed faults and the reversal by ionunlock,
or with a mutex that nobody can give back (2.5). The other parts end: LTP when
both engines have closed the session, the span when the clients have sent all
they have, the agent when its bundles are gone, ZCO space when the tasks have
made their objects, CFDP when the transactions are over. SdrLock has the binary
semaphores of SVR4.

### 2.4 Fairness

`FairSpec` of SdrXn says that library code in progress goes on, and that a user
ends the levels it begins: strong fairness of EndInner and EndOuter/CancelOuter,
because a user may begin another level or write in between, but not for ever.
`sdr.pod` asks this of its users and all daemons do it (begin and end are in one
handler). Nothing is assumed of a user that ends by crashing. In SdrLock the
alarm of sm_SemUnwedge fires and ionrestart goes on. Of time nothing is assumed:
a canceling task that has launched ionrestart sleeps two seconds and looks whether
it still owns the transaction (`Halted`), and ionrestart may have written none,
one or both words of the owner by then.

### 2.5 What the code does and its documents do not say

The first six have counterexamples (section 8).

* `sdr_exit_xn` ignores `xnCanceled` (SdrXn_exit): the next transaction of any
  task is reversed without an error.
* A torn log entry stays in the log file after the reload (SdrXn_wreck).
* `modified` is set after the heap is written, so ionunlock does not reverse the
  update that was being made (SdrXn_unlock).
* restartION lets the waiting tasks into the mutex it holds (SdrLock_restart).
* takeSdr can mix two owners if pthread ids are not unique (SdrLock_ids).
* A canceling task goes on after two seconds as the owner, and clears the owner,
  if ionrestart has not taken over by then (SdrLock_hijack): ionrestart then
  writes itself into a transaction that is over, or into another's.

Others were met while modelling, and need a fault or a limit of their own:

* The log and `logEntries` outlive the reversal that a reload makes
  (`sdrxn.c:1409`): until the first transaction ends, a cancellation reverses
  the old entries as well. `sdr.pod:109-111` promises the updates of "the
  transaction".
* `clearTransaction` truncates the file before it empties the list
  (`sdrxn.c:754`): a task killed between the two leaves a list that ionunlock
  cannot read, and it aborts with the mutex taken. In the model, SdrXn_kill with
  ReversalNeverStuck shows it.
* `sdr_end_xn` of a doomed transaction reverses it and returns 0
  (`sdrxn.c:1908`; `sdr.pod:187-188` says -1 on any error).
* A short write in the first update of a transaction is not reversed, as
  `modified` is still 0 (`sdrxn.c:2131`): the file and the memory differ. This
  is why ImagesAgree is not claimed under `short`. What a short write may leave
  behind is covered by SdrXn_kill: ReversalRestores holds with it.
* After `crashXn` within nested levels a nested `sdr_begin_xn` starts a
  transaction of its own, which commits though the outer one was reversed
  (`sdrxn.c:882`; `sdr.pod:182-184`).
* After a forced give two threads share the words of the owner, and the last
  give can be lost: TLC finds the node deadlocked. MutexReleased is therefore
  claimed up to the forced give only.
* A task killed between `owner = -1` and the give leaves a mutex that nobody
  owns; ionunlock then says it is "unnecessary" (`ionunlock.c:44-49`).
* The comment at `ionrestart.c:341-348` has `sdr_start_using` give the semaphore;
  the code does not.

## 3. LTP: the red part of a block

### 3.1 Modules

| module | what it is |
|---|---|
| LtpBlock | the promise: a block is accepted unit by unit, complete only if whole, delivered once |
| LtpSegments | segments, the network, the timer of a segment |
| LtpExport | the source: handleRS, handleCAS, handleCR, two resend handlers, dequeueing |
| LtpImport | the destination: data, reports, handleRA, handleCS, handleCAR, two resend handlers, and ltpdeliv |
| LtpSession | both engines over one network; the properties |
| LtpSessionProofs | theorems |

LtpSession refines LtpBlock (`BlockSpec`): `accepted` and `blocks` are history
variables of the destination, `outcome` is the notice the source's client got.

### 3.2 Correspondence

The red part is `RedLength` units, one data segment each, so extents, claims and
gaps are sets of units, a claim is a run of units, and `PartialReports` cuts the
runs into reports of `MaxClaims` claims as the loop of sendReport does.

* `net` never shrinks. A segment that is never received is lost, one that is
  received twice is duplicated, any order is possible; whatever a handler may do
  with a segment that it discards is covered by not receiving it.
* Plain data segments are in `net` from the moment they are issued: the engine
  forgets them once dequeued. Checkpoints, reports and cancellations wait in a
  queue until the link service output takes them, which starts their timer.
* A timer is `queued`, `timed` or `acked`. Expiry is a step that may happen
  whenever the timer runs: early (the answer is still on its way) or late. An
  answer to a segment that waits to be sent again is undone when it is dequeued,
  since setTimer writes `segArrivalTime` again; so `Deactivate` has no effect on
  a `queued` timer.
* Serial numbers start at 1 and are never exhausted; only their equality and
  order matter.
* `session.rsSegments` keeps acknowledged reports too: a checkpoint that cites a
  report takes the lower bound of its scope from it.
* `redSegments` is emptied and `cleared` when ltpdeliv has delivered: the
  session then waits for the acknowledgment of its final report only.
* ltpdeliv is two steps. `PickDeliverable` reads the first deliverable and the
  session; `Deliver` comes after the wait for ZCO space and uses the address it
  remembered. If the session is not open any more the notice is "stale".
* The note of a closed session is taken to outlive its segments, as the comment
  at `libltpP.c:2935-2942` argues; sessions are not resurrected in the model.
* Heap that is low (`sdr_heap_depleted`) is the parameter `heapLeft`: the data
  are not stored but the checkpoint is answered.

### 3.3 Runs

LtpSession_block: two units, one retransmission of each segment, two
checkpoints, two reports, backlog of two. About 194,000 states. The block is
sent, a unit is lost, reported, repaired with a second checkpoint, reported
again; every segment can be lost, duplicated or late; each limit can be hit and
both engines can cancel.

| property | says |
|---|---|
| BlockSpec | "complete" only after all units were accepted; the client gets the whole block at most once |
| ClaimsAreTrue | no report in the network, nor the union kept by the source, claims a unit that was not received |
| QuietClosing | an import session that closes without a cancellation has delivered, and its source was told "complete" |
| ReceivedIsDelivered | a red part that is all there is delivered, unless the session is canceled |
| ExportEnds | the source always ends its session |

NoticeHasBlock and DeliversOwnSession are what the code does not keep; section 8
has their counterexamples.

Bounds. Two units give a lost first unit, a lost last unit (the checkpoint), and
a repair checkpoint that is not the end of the red part; one retransmission
gives each timer both of its branches. `RedLength = 3` with a backlog of one
also passes (about 362,000 states); it lets a report have two claims.
`MaxClaims = 20` is the code's constant and puts all claims in one report.

### 3.4 Fairness

Links come back and ltpclock runs, so that queued segments are dequeued and
timers that run expire (`ExportTimers`, `ImportTimers`); ltpdeliv is scheduled
and is awarded space (`Delivery`). Receptions are **not** fair: nothing that is
sent need arrive, and ExportEnds holds all the same because every timer is
bounded. A span whose link never returns has suspended timers; then nothing is
promised, which is what ION intends.

### 3.5 Limits of the protocol that the model makes visible

* A partial report that needs more than 20 claims is split into reports that
  answer the same checkpoint. Any of them whose scope has no gap stops the timer
  of the checkpoint; if the others and the cancellation by the destination are
  lost for good, the source waits for ever. To see it: FairSpec, RedLength = 3,
  MaxTimeouts = 0, MaxCheckpoints = 2, MaxReports = 2, MaxClaims = 1,
  MaxBacklog = 1, property ExportEnds.
* An import session has no timer before its first report: if the checkpoint and
  the CS segment are lost, it stays.
* Every duplicate of a checkpoint uses up a report (`libltpP.c:4613`), so enough
  duplicates make the destination cancel a session that makes progress.
* If the acknowledgment of the final report is lost often enough the destination
  cancels a session that it has delivered, and the client gets
  ImportSessionCanceled after RecvRedPart. The comment in handleRS expects this
  of resurrected sessions only.
* A source that has canceled ignores CR without acknowledging it, so the
  destination resends it until it gives up.

## 4. LTP: the span

LtpSpan is the part of a span between the tasks that call `ltp_send` and the link
service output. Its state is the list of export sessions with their checkpoint
timers, the block that is being filled, the queue of references to data
segments, the four semaphores of the span (`bufOpenRed`, `bufOpenGreen`,
`bufClosed`, `segSemaphore`; binary, so a give that finds the semaphore free is
lost), whether transmission is on, and where each task is between two
transactions. Its actions:

| action | code |
|---|---|
| SendSdu, TakeBufOpen, Retry | ltp_send: try; wait for the buffer; try again |
| MeterOpen, MeterTop, MeterTake, MeterWork | ltpmeter: start a session, wait for the block to be closed, segment it |
| LsoTake, Dequeue | ltpDequeueOutboundSegment, with the early return for a closed session |
| HandleRS, HandleCR, ResendCheckpoint | the ends of a session, in transactions of others |
| Tick, StopXmit, StartXmit | manageLinks of ltpclock |

A colour of a block is one segment, and a report says "all" or "less";
LtpSession has the claims. Control segments share the queue in the code and are
left out of it. `xn = "lso"` is a transaction that a task has left open.

LtpSpan_flow: a client of one service that sends red and mixed units, another of
a second service that sends red or green ones, two units and one; a window of
one session, blocks of two units, two checkpoints, one timeout, one stop of
transmission that purges the sessions. 456,963 states. With one session the
window is full at once and the session beyond it is used; two services close
each other's block; the mixed unit gives the checkpoint that is queued again
behind the green end of block.

| property | says |
|---|---|
| SdusAccounted | every unit handed over is in one session, or was given back once |
| RedWindow | no more sessions with red data than the window allows |
| ClientsServed | a client that waits for the buffer gets its unit in |

LtpSpan_eob violates NoTransactionLeftOpen: the session of a dequeued segment is
closed, `ltpDequeueOutboundSegment` returns 0 within its transaction, and the
link service output comes back with the mutex of the SDR taken. ClientsServed is
claimed up to that point.

FairSpec: the tasks run, timers expire, a stopped link comes back. Reports need
not come, and nobody need send.

## 5. The Bundle Protocol agent

| module | what it is |
|---|---|
| BpCustody | the promise: one party is responsible for a bundle until it is done |
| BpStore | bundles, lists, hash table, and the agent's functions as operators on a database |
| BpAgent | the tasks, one transaction at a time |
| MCBpAgent | bundles for TLC |
| BpAgentProofs, BpCustodyProofs | theorems |

A bundle says which list elements it holds (`in`); the lists say which bundles
they refer to. The two are kept apart because the code keeps them apart:
`Destroy` looks at the first, everybody else at the second. The lists are sets,
as no property is about their order. The order of a plan's three queues, and
rates, are left out with it. Dequeueing puts a serialized copy into `xmit`; an
adapter reports on it later and only by key, so `Success` and `Failure` find
whatever bundle has that key by then. Adapters report on copies that were not
accepted too, as their contract asks; unaccepted copies of one key are one element.

Routing is a choice of ipnfw's among the plans that are not blocked. For an
ordinary bundle (`ForwardOrdinary`) it has the steps of tryCGR and enqueueBundle:

* `Routed`: the bundle goes to the plan of the route's first node, with an alarm.
* `Bumped` (manageOverbooking): bundles that are in the way are taken from that
  plan and routed again. Which ones depends on volumes, so any set of them may be
  chosen; it is chosen before the new bundle is put there. Those that are critical
  are in no list afterwards, because bpReforwardBundle does nothing for them.
* The clone in limbo: if delivery is not sure enough and another route may open,
  tryCGR clones the bundle and puts the clone in limbo, so that the node has two
  bundles of one key, the table of all bundles leads to neither, and no adapter is
  given stewardship. The clone is made by bpClone, which keeps `transitElt`; the
  model leaves out a clone of a bundle that is still in transit, which bptransit
  never forwards.
* `Unrouted`: CGR has put it nowhere (no route, or it has been sent
  MAX_XMIT_COPIES times, which is a choice here): a plan, an exit, limbo, or the end.

Keys may come back to the node: a neighbor sends a bundle of ours back, or sends one
twice (`Arrivals`). A report of an adapter then finds the wrong bundle.
The properties therefore say what is true all the same, and claim the rest of the
keys that have not come back (`Returned`): of those alone HashTrue says that an
adapter's report finds its bundle, and OneCustodian that one party has it. That
lists and bundles agree is claimed of all, but for a list of transit that refers to
a destroyed bundle, which only a key that has come back can cause; BpAgent_return
shows it.

What else is worth knowing of the model:
* a critical bundle is cloned for every route; the clone "for limbo" is in no
  list, because `enqueueToLimbo` refuses critical bundles;
* `bp_resume` is not an action: it passes an element of the wrong list to
  `releaseFromLimbo` and always fails;
* bptransit's wait for space, after which it starts over if the first bundle has
  changed, is one step; flushLimbo's batches are one;
* a bundle that is released after its transmission stays until it expires, and a
  clone of a detained bundle is detained until it expires, as no application has its
  address (BpAgent_orphan);
* when a bundle goes by an exit ipnfw writes `&bundle` in place of the bundle's bytes
  (ipnfw.c:1187-1193) before forwardBundle writes the object anew; the model has
  the second write only;
* bptransit, when it finds a bundle that is gone, works on freed space; what comes
  of that is not modelled;
* `RemoveOutduct` is flushOutduct of `removeOutduct`. The clock has a flushOutducts
  of its own for stuck outducts (bpclock.c:334-415), which never flushes anything:
  it copies the protocol's name twice (370-373) and never the duct's, so that
  findOutduct is asked for a duct with an empty name, which addOutduct refuses to
  make (libbpP.c:5004-5008).

BpAgent_custody: one bundle of an application here, one for a group that comes
in (and is delivered and forwarded), one critical bundle that comes in; each comes
in once, also the one that is sent from here, so that its key returns; two
neighbors, three Bundle objects, symmetry of neighbors. 932,840 states. Three
objects let a bundle be cloned in limbo, for a group or for a second route while
another is in the node, or meet the one that has come back.

| property | says |
|---|---|
| ListsAgree | a list refers to exactly the bundles that hold an element of it; to one that was destroyed only that of transit, once a key has come back |
| HashTrue | the table counts the bundles of a key and leads to the only one or to none; and it finds the one an adapter is steward of, unless its key has come back |
| OneCustodian | BpCustody: no ordinary bundle whose key has not come back is dropped, is with the node and an adapter at once, or comes back when done |

No liveness is claimed: without an end of contacts and of applications' wishes a
bundle leaves only by its expiration, which is a step of its own.

## 6. The space of zero-copy objects

ZcoBooks has the accounts as operators on a record: files with their counts of
liens, objects with their extents, occupancy per account. An object's extents
are pieces of files; each extent has a lien of its own, so a set will do; objects
are copied whole. The accounts of heap and bulk are left out: requisitions are made
for them in the same queue and by the same rules, but the heap that objects, their
extents and bundles take themselves (`ZCO_FILE_OVERHEAD`, headers and trailers) is
charged without being requisitioned, so that NoOvercommit says nothing of heap.

ZcoSpace has the tasks that want space, step by step as their locks are taken
and given back (`ion.c:2088-2480`, `bptransit.c`):

    Request -> TryNow -> Check -> Ready -> SpaceAwarded -> Take -> Create -> Shred

`Request` lodges the requisition; `TryNow` provides for whoever is next; `Check`
looks at the own ticket; `Ready` gives and takes the semaphore of the attendant
to clear it; `SpaceAwarded` looks again; `Take` waits. Everything may happen
between any two of them. A maker fills an object piece by piece (ionCreateZco,
ionAppendZcoExtent, bpContinueAcq), a mover copies an inbound object to the
outbound account (bptransit), an impatient task has no attendant, a mortal one
may be told to quit (ionPauseAttendant). `Clone` and `Destroy` are everybody
else, and meddle with nothing a maker is still working on (`Released`); nor does a
mover, as a bundle is in transit only when its object is complete. `Total` is a
sum, stated as the number of the units it sums, so that it can be reasoned about. `Rank` is coarse and fine priority. `Counting` tells POSIX semaphores, the
default on Linux (`platform.h:656`), from the binary ones of SVR4.

ZcoSpace_share: binary semaphores, equal ranks, two units in each account; an
adapter that acquires two pieces, an application that makes two units in one, a
task without an attendant, bptransit; one clone. 425,256 states. The outbound
account is full with any one of its users. `MaxAddr` bounds the addresses of
liens and objects (`Addressable`): six are enough for all that four tasks and a
clone can make at once.

| property | says |
|---|---|
| BooksBalance | occupancy and liens are what the objects make them, and a file is unlinked when the last lien goes |
| NoOvercommit | what is occupied and what is promised do not exceed the limit |
| SpaceInTheEnd | who asks for space gets it, as long as nobody gives back what was reserved for him |

NoOvercommit is for semaphores of SVR4 and equal ranks. What is left of it for any
semaphores and ranks is LimitHolds: an account comes over its limit only by a task
that creates unserved (ZcoSpace_counting) or after a requisition has overtaken one
that was served (ZcoSpace_priority). It is proved (section 9), and TLC agrees on the
instances of all three configurations.

SpaceInTheEnd has its exception because `ionShred` gives space back without
offering it to others. ZcoSpace_counting violates CreatesServed: with counting
semaphores an award that is found at once leaves the semaphore one too high, and
a later wait returns without an award.

FairSpec is one weak fairness of all work that is under way, and not of new
requests, clones or pauses. Requests are finite in number, so work goes on as
long as there is some; which task works is open, as the code has no other
guarantee.

## 7. CFDP

### 7.1 Modules

| module | what it is |
|---|---|
| CfdpExtents | the extents of a file that is being received and what a segment adds to them |
| Cfdp | source, destination, clocks and adapters over a BP that loses, reorders and repeats |
| MCCfdp | transactions for TLC |
| CfdpProofs | theorems |

### 7.2 Correspondence

Every action is one transaction. `out` and `outbound` are the FDUs of the source;
`bp` the bundles that wait for transmission, `net` and `back` PDUs under way;
`sink[t]` the inbound FDU of a transaction with its destination file and its
temporary file, each a function from places to the units written there;
`finishPdus` the Finished PDUs to be sent; `told` counts Transaction-Finished
indications; `delivered` is history; `spent` keeps the bounds. The list of the
extents of a file is sorted by offset, and they never touch, so that the model
has them as a set.

* `xmit` is `xmitProgress` of the file reference: the highest place a link
  service has read. The source infers the end of a transaction from it.
* A death of bputa between dequeueing and bp_send, and a bundle that expires
  before it is transmitted, are the same: `Expire`.
* Deadlines may pass at any time; each scan takes a set of FDUs that are due.
* `fduSemaphore` is abstracted to the guard of SendPdu. Space for the PDU is
  section 6's matter.
* The checksum is computed over units as they come: a CRC fits if they came in
  order, a modular sum if every unit counted once, and when data come before the
  metadata the type is "null", which always fits.
* The source is right about the size of the file, and a bundle arrives as it was
  sent.
* `Foreign` transactions are those of another implementation, whose segments may
  overlap; createFDU's never do.

### 7.3 Runs

Cfdp_deliver: one transaction with closure, three units in segments of two, CRC,
default handlers of `cfdpInit` but for checksum failure; one cancellation (on
either side), one suspension, one PDU that comes twice, one file that cannot be
opened. 122,540 states. Two segments give every order, one after the other or
the wrong way round, and a loss of either; transactions meet only in the lists,
so a second one adds states and no behaviour but the order of the lists.

| property | says |
|---|---|
| ReceivedIsWritten | what is counted as received is in the file, where it belongs, counted once; extents never touch |
| DeliveredFileStays | a file that was reported complete is whole, whatever arrives of its transaction later |
| ClosureInStep | the list of pending closures is the FDUs that wait; none goes without an indication |
| TransactionsEnd | a transaction ends at the source and at the destination |

`ExtentsAgree`, an assumption of MCCfdp that TLC evaluates in every run of it,
compares merging with a reference definition for all sets of received units and
all segments of a file of five.

Cfdp_overlap violates ReceivedIsWritten: the middle unit of a file comes first,
then the whole file in one segment; the last unit is written over the middle one.

### 7.4 Fairness and exceptions

FairSpec: the adapters run, link services transmit or bundles expire, the clocks
run, deadlines pass. Nothing need arrive. TransactionsEnd leaves out what the
code never ends: a suspended FDU; a canceled one whose EOF was not sent (section
8); one whose last segment expired before a link service read it; and an inbound
FDU whose EOF is lost while its handlers ignore inactivity, as the defaults do.

### 7.5 Met while modelling

* `createFDU` inserts one PDU object several times if a record is longer than a
  segment (`libcfdp.c:1394-1514`).
* `currentFile` is a file descriptor of one process kept in shared memory
  (`libcfdpP.c:1718-1727`).
* Two puts to one destination file can both pass the check that it does not exist.
* A cancellation tells "complete" when all PDUs were handed to BP.
* The queue of events drops its oldest entries, Transaction-Finished included.

## 8. Further counterexamples

These configurations each check one property that a document or a comment of the
code states and the code does not keep. TLC finds each violated in seconds
(`tlc -config <cfg> <module>`); PROJECT.json lists three more as runs.

| cfg, module | property | what happens |
|---|---|---|
| SdrXn_exit, MCSdrXn | NoStaleCancel | `sdr_exit_xn` ignores `xnCanceled`; the next transaction of any task is reversed without an error |
| SdrXn_wreck, MCSdrXn | NeverWrecked | two power failures: a torn log entry stays, and its words are taken for data |
| SdrXn_unlock, MCSdrXn | AllOrNothing | a task dies before `modified` is set, and ionunlock keeps half a transaction |
| SdrLock_restart, MCSdrLock | Exclusive | restartION lets waiting tasks into the mutex it holds |
| SdrLock_ids, MCSdrLock | Exclusive | takeSdr mixes the words of two owners when tasks share a pthread id |
| SdrLock_hijack, MCSdrLock | HijackHolds | ionrestart is slow: the task that launched it still owns the transaction after its two seconds, ends it, and a thread is in a transaction when ionrestart has written both words. sdrxn.c:853-864 relies on the sleep; ionrestart.c:337-348 says new transactions "must be prevented" |
| LtpSession_twice, LtpSession | NoticeHasBlock | a red segment between completion and delivery queues the block again; the client gets an empty object |
| LtpSession_stale, LtpSession | DeliversOwnSession | the session that ltpdeliv remembers is canceled while it waits for space |
| BpAgent_return, MCBpAgent | NoneDangling | a late report finds a bundle of the same key that has just come in and destroys it; the transit list still refers to it, as bpDestroyBundle does not look at `transitElt` |
| BpAgent_suspend, MCBpAgent | SuspendedInLimbo | for a bundle in the queue of a plan `bp_suspend` loses its mark, and the next flush of limbo lets it go |
| BpAgent_orphan, MCBpAgent | Releasable | the clone that tryCGR makes of a detained bundle is detained; no application knows its address, and it stays until it expires, whoever has transmitted it |
| ZcoSpace_priority, MCZcoSpace | NoOvercommit | a requisition of higher priority is inserted before those that were served and is awarded their space |
| Cfdp_late, MCCfdp | DeliveredFileStays | with bpcp's handlers, Metadata that arrive again after delivery start an FDU whose silence unlinks the delivered file |
| Cfdp_cancel, MCCfdp | CanceledFdusGo | `transmitted` is not set for canceled FDUs and only transmitted ones are destroyed |

## 9. Proofs

Each theorem holds for all values of the constants that satisfy the module's
ASSUMEs and the hypothesis in the third column; "none" means all of them.

| theorem | states | under |
|---|---|---|
| **SdrXnProofs** | | |
| OneOwner | OnlyOwnerInside: heap, log and end of a transaction belong to one task at a time | none: every fault |
| TypeCorrect | TypeOK, lengths and offsets of the log included | none: every fault |
| CancelIsOver | NoStaleCancel: the mutex is never free with a cancellation pending | no level ends by `sdr_exit_xn` |
| SameImages | ImagesAgree: file and memory hold one heap outside transactions, after power failures too | no kill, no short write |
| CancelRestores | ReversalRestores: a reversal, that of ionunlock included, ends with the heap of before | no power failure; tasks may be killed anywhere |
| ReversalGoesOn | ReversalNeverStuck: a reversal never meets an unreadable entry | no kill, no power failure |
| Atomicity | AllOrNothing: SdrXn implements SdrStore | the same, and no `sdr_exit_xn` |
| PowerRecovers | PowerKeepsStore: what the log would restore is what recovery restores | images and log in files; one power failure, and any number during the recovery |
| NothingWrecked | NeverWrecked: recovery leaves data of users in every cell | the same, and nobody cancels |
| **SdrLockProofs** | | |
| TypeCorrect | TypeOK | none |
| OneTransaction | ExclusiveUntilForced: exclusion until a semaphore is forced, whenever ionrestart writes the owner | UniqueIds |
| DepthCounts | DepthIsLevel: depth is the nesting of the thread that the owner words name, until ionrestart writes them | UniqueIds |
| **LtpSessionProofs** | | |
| TypeCorrect | TypeOK of both engines, the network and the client | none |
| ClaimsTrue | ClaimsAreTrue: no report claims what was not received | none |
| ClosedQuietly | QuietClosing: closed without a cancellation means delivered and told | none |
| Implementation | BlockSpec: the session implements LtpBlock | none |
| **LtpSpanProofs** | | |
| TypeCorrect | TypeOK | none |
| EachUnitAccounted | SdusAccounted: each unit is in one session or was given back once | none |
| WithinWindow | RedWindow: red sessions do not exceed the window | none |
| **BpAgentProofs** | | |
| TypeCorrect | TypeOK: no bundle is in two queues of plans, or in one and limbo | none |
| ListsTrue | ListsAgree: lists and bundles agree, but for what a key that comes back does to the list of transit | none |
| **BpCustodyProofs** | | |
| CustodyKept | OneCustodian: BpAgent implements BpCustody, for keys that have not come back | none |
| KeysLead | HashTrue: the table counts and finds the bundles; stewards are found while their key has not come back | none |
| **CfdpProofs** | | |
| ClosuresInStep | ClosureInStep: pending closures are the FDUs that wait for a Finished PDU | none |
| TypeCorrect | TypeOK of both sides, the lists and what is under way | none |
| ReceivedWritten | ReceivedIsWritten: what is counted is in the file, at its place, once | foreign segments of a file do not overlap (`Apart`); files can be opened, or rejections cancel |
| DeliveredStays | each delivered file that may not be replaced (`Refuses`) and whose segments do not overlap stays whole, whatever others do | none |
| LostAtEnd | LostOnlyAtEnd: a file is whole when it is reported complete, and lost only if it may be replaced, when an FDU started again for it ends | none |
| **ZcoProofs** | | |
| TypeCorrect | TypeOK: a task has one requisition exactly while it is at it | none |
| Balance | BooksBalance: occupancy, liens and files are what the objects make them | none |
| ServedBeforeCreate | CreatesServed: who creates was served | binary semaphores |
| LimitKept | LimitHolds: an account comes over its limit only by a task that creates unserved, or after an overtaking | none |

### 9.1 The SDR

**OneOwner.** OnlyOwnerInside is not inductive: nothing in it says that a task
that has disowned the transaction and not given the semaphore yet is alone.
`ControlInv` adds that: at most one task is at "give", then nobody owns the
transaction and the semaphore is taken; an owner implies a taken semaphore.

**TypeCorrect.** `logLength` is decremented by a reversal and is an offset, so
its type depends on the control state. `DataInv` says that the log in memory is
as long as `logLength`, that `logLength` is not negative where words are
appended, and that `rev` does not exceed the list. The proof goes one group of
variables at a time (control, flags, log, heap) because each needs other facts.

**CancelIsOver.** `CancelInv`: a pending cancellation has an owner that is still
inside the library or its own code, and therefore will end its level. The
hypothesis is the point: `sdr_exit_xn` breaks it (SdrXn_exit).

**SameImages.** `AgreeInv`: between the write of the file and the copy to memory
the two heaps differ in the cell that is being written, and nowhere else.

**CancelRestores, ReversalGoesOn.** `LogInv`: the i-th entry of the list is at
offset 2(i-1), the log ends with the last entry or with the control word of the
one being written, and the words below `logLength` are those of entries. Where
a task dies, or stops between the reversal and the emptied list, the log is
`Whole` (it has every entry of the list, and at most a control word more) or, if
the task was killed between the truncation and the emptied list, `Emptied`: then
the reversal that ionunlock starts cannot read its first entry and never ends,
which is why ReversalGoesOn excludes kills and CancelRestores does not. `RevInv`: while a reversal runs, every cell whose *oldest* entry has been
processed holds that entry's datum. The step needs that entries processed later
are older, which is why the order is newest first. `OldestExists` (a
well-founded minimum) turns this into equality with `Undone`.

**Atomicity.** The refinement maps the committed heap to `Undone`, so each step
has to leave `Undone` alone or be the step that empties the log. `StoreInv` adds
two facts to the invariants above: `PutLogged` (the cell that is being written
has an entry) and `Unmodified` (until `modified` is set the log has at most the
entry of the first write, whose datum is still in memory; so a transaction that
is not reversed has changed nothing). Short writes of the file stay allowed.

**PowerRecovers, NothingWrecked.** `PowerOnce` is the profile with both images
and log in files and at most one power failure outside recoveries. When power
fails the log is cut anywhere; `RecoveryInv` says that the words of whole
entries keep their places, that every control word among them is an address (a
torn entry is the last), and that what the recovery has processed is restored in
the file, so that a recovery that is itself cut short starts over with the same
result. `WreckInv` adds that heap and logged words are data of users.
SdrXn_wreck shows that a second failure after a recovery breaks it.

**Mutex.** Assumption `UniqueIds`: pthread ids are distinct over the node, that of
ionrestart included. SdrLock_ids shows that it is needed. `IInv` has the types and,
until a semaphore is forced: OneHolder (one thread or sm_SemUnwedge holds the
semaphore), RestartInv (ionrestart has not got as far as forcing it), Outside (who is
not inside has no level), WritesOwn and Written (what the holder has written, and
where ionrestart may have written over it). Who holds the mutex is the heart:
`Holder` counts a thread that the two words name, and one that has matched the task
word and would match the thread word too (`Named`). The thread word keeps the id of an
*earlier* owner, and that is harmless because lockSdr writes the thread before the
task. ionrestart may write its two words at any moment, between those of lockSdr
as well: it takes a thread's name away and gives it to nobody else who would go in,
which is why exclusion survives when the hijacking itself does not (SdrLock_hijack).

### 9.2 LTP

**Sessions.** One invariant carries all four theorems. `NetOK`: a report in the
network claims only accepted units and has a serial number the session has
issued; the one that is final claims the whole block; an acknowledgment of the
final one proves that the source has been told "complete". `ExportOK`: the
source's union of claims is of accepted units, and no applied report is the
final one, because the final one closes the session. `ImportOK`: until delivery
the stored units are the accepted ones, a deliverable is there only if they are
all, and a block is out only if the session is cleared. `Told`: if the final
report was acknowledged, the source was told "complete". The network never shrinks and `accepted` never does, so what a handler
adds is all there is to show; the long part is `SessionOK` for each of the
destination's handlers. The step simulation of LtpBlock follows handler by
handler: acceptance is a step of the abstract block, completion and delivery are
each one step, everything else stutters.

**The span.** `Accounted(u)` has the three states of a unit (with its client, in
one session, given back), which makes SdusAccounted inductive. Closing,
canceling and purging must not meet the session that is being filled, or its
block would be left behind: `CurrentOK` says that no segment in the queue and no
checkpoint is of that session, and `BlockOK` that without a session the block is
empty. RedWindow is then kept because a block becomes red only while all
sessions together, its own included, are within the window.

### 9.3 The agent

A key may come to the node any number of times, and a late report of an adapter then
strikes a bundle it was not about. So the invariant is stated for a set `F` of keys of
which more is known, and holds of `Once`, the keys that have not come back. When a
key comes in a second time it leaves `Once`: the step lemmas let `F` shrink.

`Sound(d, F)` is the invariant of the database: on its way out a bundle is in one
place (`Placed`), and one of `F` in transit is nowhere else and has no alarm; the
lists are what the bundles say, and what they name beyond the living (`Dangling`) is
in transit's list and only if some key has left `F`; the table counts and leads right.
The hard part is a report: it destroys or re-forwards the bundle its key leads to,
and for keys of `F` that must not be one in transit, which the constraints of
bpDestroyBundle do not look at. `Carried` says so of every copy at an adapter, and
`Known` that a key at an adapter or in the table was sent or has come in: a new
bundle of a key that has not been here is therefore nobody's.

The operators of BpStore each get a lemma. Most steps are `Quiet`: bundles move
or go, keys stay, nothing comes into transit, the table leads to fewer. Quiet
steps compose, and keep the invariant whoever takes them (QuietStep). Those
that make bundles (bp_send, acquisition, its copy for a group, tryCGR's clone for
limbo, the copies of a critical bundle) are `Leads`: the same up to new bundles
of one key, which the table leads to only if it is alone.

**CustodyKept, KeysLead.** The refinement maps a bundle to its custodian, so the step
simulation has to exclude "nobody, or both". `Custodial` is the invariant that
does (`InCustody`), for every bundle of `Once` that is not critical: while a copy at an
adapter leads to it, it is in no list, and that copy is the only one; in no list and
with no adapter it is detained, or an application knows of it; one that is being
delivered is in no other list (what a group's bundle is forwarded in is a copy);
an alarm is set only in the queue of a plan or an outduct or in limbo (`Fit`).
The last is what makes the alarm safe: bpReforwardBundle puts an overdue bundle into
the forwarding queue wherever it finds it, and would take one an adapter has.
`Stewards` says that a living bundle of `Once` whose stewardship an adapter accepted is
the one its key leads to. That survives tryCGR's clone because only a bundle in the
forwarding queue is cloned, and one an adapter is the steward of is in no list: hence
KeysLead rests on `Custodial`. TLC has checked both on the run BpAgent_custody, too.

A step is judged by each bundle on its own: `Shifted` lists what may become of one
that was there (it stays or leaves for good, an adapter takes it, an adapter gives it
back or up), `Arrived` what a new one is like, and CustodyStep shows that such a step
keeps InCustody and is one of BpCustody. `Upheld` is what the lemma of each action
proves: the two invariants and the step of BpCustody. Whom the copies lead to changes
only in bpDequeue, the two reports and where bundles are made; all other operations
are `Follows`, a statement about places, and each operator of BpStore has a lemma for
it.

### 9.4 CFDP

**ClosuresInStep.** `ClosureInv` adds to ClosureInStep that a closure is pending
exactly if the FDU was transmitted, asked for it and has not finished, and that an
FDU that is gone was reported. It needs the types of the outbound side only.

**TypeCorrect.** That no transaction is reported three times is part of TypeOK
and not inductive: `ToldInv` compares what was told with what the state of the
FDU has deserved so far (`Notices`). `ListInv` says that the list of outbound FDUs
names each once, which the scan keeps as it takes some out (`Kept`). `Good` is the
inbound FDU with its files: extents within the size and apart from each other,
files that have no places beyond the size.

**ReceivedWritten.** `Held`: the extents that have arrived (`Arrived`) are in the
working file, no more than that is counted, and each segment the source may send is
covered as a whole or not at all. The last is where `Apart` comes in: segments of one
file are the same or have no unit in common. createFDU's are like that, which is
proved (`PartsApart`); those of another implementation need not be, and Cfdp_overlap
is what happens then. With it a new segment lies between two extents, the position
of the file is right, and nothing is skipped (`MergedCovers`, `WrittenInPlace`).
The second hypothesis is about a file that cannot be opened after its extents
were changed (`Exact`): count and extents agree only if the rejection ends the FDU.

**DeliveredStays, LostAtEnd.** `Intact` is per transaction: what is in its files is in
its place, a file that has been reported complete is whole, and an FDU that
findInFdu has started again for it has no metadata, because they are rejected while
the file exists, so that its working file is the temporary one and what becomes of it
does not concern the file. That needs this transaction's own handler for rejections
(`Refuses`) and nobody else's. bpcp asks to ignore rejections: then the new FDU's
working file is the delivered file. LostAtEnd says what is left in that case: the
units that are written over it are the same ones, so the file stays whole until that
FDU ends and completeInFdu unlinks it or moves another over it. Both theorems have no
hypothesis on handlers; LostAtEnd none on failing opens either. TLC has checked
LostOnlyAtEnd on the instances of all four configurations, and on that of Cfdp_late
with both ways of ending, two repeated PDUs and a failed open.

### 9.5 The space of zero-copy objects

**Sums.** `Total` counts units, so that what a sum needs comes from the library's
facts about cardinality: it adds up over disjoint sets (`TotalAdds`), does not
grow by leaving out a part (`TotalPart`), and is at most another that has a place
for each of its summands (`TotalInjects`).

**Balance.** `BooksOK` has BooksBalance in parts: `TypedBooks`; `Charged` (what is
occupied, and what a file counts, are the liens the account cites); `Counted` (a
lien counts the objects that cite it); `AllNeeded` (no file is kept that nothing
needs). Citing (`Cite`) is where all counts change, once for a lien that becomes
cited; each operator of ZcoBooks has a lemma that it keeps BooksOK and says what
it costs: an extent its length, a copy in the same account nothing, one in another
at most its length, and a destruction never anything.

**TypeCorrect** needs BooksOK: an object is made of files that are there.
`BookInv` says so of every maker that is not done, and that its object is its own.

**ServedBeforeCreate.** `ServeInv`: a task at "create" was served; and while a task
is between the last look at its requisition and its wait, a semaphore that is up
means that it was served or told to quit. `Ready` establishes this, and only if
giving and taking leaves a semaphore at 0 (`~Counting`); ZcoSpace_counting is the
other case.

**LimitKept.** The code keeps the limit neither with counting semaphores nor with
requisitions of different rank, so the theorem says what it does keep: a step
takes an account over its limit only if, before it, some task that was not served is
about to create in it, or the queue is not in turn (`InTurn`: what was served
comes before what was not). `Owes` is the limit in terms of who was granted
(`Promised`: it is NoOvercommit's `Fits`), and `NeedInv` that a maker asks for its
piece. Serving goes down the queue and compares the sum up to each requisition
with the room; since all that was served before is ahead of it, that sum includes
every promise (`ProvidedWithin`). Creating spends what was promised (`OverSpent`), and
every other step owes no more than before (`OverLess`).

The proof found a flaw in the model: a mover whose object was destroyed could
find a maker's unfinished one at the same address. No bundle is in transit before
its object is complete, so `Intact` asks for `Released` as well.

### 9.6 What is only model-checked

* Liveness (MutexReleased, ReceivedIsDelivered, ExportEnds, ClientsServed,
  SpaceInTheEnd, TransactionsEnd): the provers have neither fairness with
  ENABLED nor induction over data.
* `ExtentsAgree`, an assumption of MCCfdp that compares the merging of extents
  with a reference definition for all inputs up to its bound, overlaps included.

## 10. What is left out

* SDR: creation, abort and destruction of an SDR, `sdr_eject_xn`, tracing, a
  heap that is only in a file, restart commands other than ionrestart. A write is
  one cell: the length of an extent does not matter to the log's logic.
* SDR: a storage that loses or reorders writes at a power failure (2.2).
* A second power failure after a recovery is in SdrXn_wreck only (section 8),
  where it finds what the first one tore.
* LTP session: green data, miscolored segments, unknown clients, suspension of
  timers while a link is down, forgetting of closed sessions, resurrection after
  a restart, bursts, extensions, authentication, ltp_cancel by the client.
* LTP span: control segments in the queue, ltp_cancel, starting and stopping a
  span (`resetSpan`), more than one segment per colour of a block.
* BP agent: fragments and their reassembly, status reports and admin records,
  extension blocks, rates and the order of queues, how a route is found, how much of
  a plan is overbooked, proactive fragmentation of a bundle that does not fit a
  contact, the tasks of several outducts of a plan, what bptransit does to a bundle
  that is gone.
* ZCO: extents that are pieces of objects, the accounts of bulk and heap and what is
  charged to heap without a requisition (headers, overhead of objects and bundles),
  the clock's shredding of requisitions after three seconds.
* CFDP: the handlers abandon and suspend, filestore requests and messages to
  users, the queue of events, records, misdirected and malformed PDUs, more than
  one transaction in a run.
* Everything section 1.2 marks as not modelled.

## 11. Plan

In the order in which they are to be done, each with what it composes and what is
to be proved.

1. *Done:* SdrStore, SdrXn, SdrLock and their proofs; LtpBlock, LtpSegments,
   LtpExport, LtpImport, LtpSession; LtpSpan; BpStore, BpCustody, BpAgent;
   ZcoBooks, ZcoSpace; CfdpExtents, Cfdp; the theorems of section 9.
2. *Done:* ZcoProofs (balance, promises and limits), CfdpProofs (types of both
   sides, files).
3. Overlapping segments of another implementation: which of them do no harm, as a
   hypothesis of ReceivedWritten that is weaker than `Apart`.
4. Power failures with `kill`: which of section 2.5's divergences are all there is.
5. The agent's custody of bundles whose key has come back: what a late report can do at
   most, as LimitKept and LostAtEnd say it of space and files.
6. Further components, if ever: Rfx (contacts on a timeline), Bssp, Dtpc, llcv and
   smlist as monitors, tcpcl sessions, the route search of libcgr.
