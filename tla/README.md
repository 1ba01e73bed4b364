# dis-kverbs in TLA+

A model of the RoPCIe kernel driver in this repository: TLA+ modules, TLC
configurations that check them on small instances, and theorems that the TLAPS
proof system checks for every value of the constants. Source paths below are
relative to `src/src/` of the checkout (`driver/dis_qp.c` and so on).

## 1. The system

dis-kverbs registers a virtual RDMA adapter with the kernel's RDMA core and
translates verbs into calls of Dolphin's SCI message queue library.

| Part | State | Operations | Source |
| --- | --- | --- | --- |
| Ring buffers | `head`, `tail`, `buf` of a `struct circ_buf`; size a power of two | CIRC_CNT, CIRC_SPACE, masked increment | used all over `dis_qp.c`, `dis_verbs.c` |
| Completion queue | ring of `dis_cqe`, `cqe_lock` | `dis_create_cq`, `dis_wq_post_sqe_cqe`, `dis_wq_post_rqe_cqe`, `dis_poll_cq`, `dis_destroy_cq` | `dis_qp.c:8-74`, `dis_verbs.c:266-340` |
| Work queue and worker thread | ring of `dis_wqe`, `wq_state`, `wq_flag`, `wait_queue`, `sci_msq`, the thread, page maps on the heap | posting (`dis_qp_post_one_sqe`, `_rqe`, `dis_qp_notify`), the thread (`dis_wq_thread`, `_init`, `_consume_*`, `_exit`), `dis_qp_init`, `dis_qp_exit` | `dis_qp.c:76-562` |
| Queue pair | two work queues, `state`, numbers | `dis_create_qp`, `dis_modify_qp`, `dis_destroy_qp`, `dis_post_send`, `dis_post_recv` | `dis_verbs.c:342-578` |
| Message queue interface | `is_initiator`, `use_l_qpn` and node numbers, the library's message queues | create, connect, send, receive, remove, disconnect; init and exit of the module | `dis_sci_if.c` |
| Protection domain | `mr_list`, `qp_list`, `mr_c`, `qp_c`, the memory of regions and queue pairs | `dis_alloc_pd`, `dis_dealloc_pd`, `dis_get_dma_mr`, `dis_reg_user_mr`, `dis_dereg_mr`, the allocations of `dis_create_qp` | `dis_verbs.c:115-264`, `342-427`, `513-526` |
| Segment mapping | `sge_map`, `page_map_static`, `page_map_dynamic` | the loops in `dis_qp_post_one_*` | `dis_qp.c:339-411`, `449-521` |
| Shared receive queue | a ring nobody consumes | create, modify, query, post, destroy | `dis_verbs.c:580-675` |
| Bus, driver, device modules | what is registered with the kernel, `disdev` | probe, remove, init, exit | `bus/dis_bus.c`, `driver/dis_driver.c`, `device/dis_device.c` |
| Queries | none | device, port, pkey, ucontext | `dis_verbs.c:9-113` |

How they interact:

- An application thread calls `dis_post_send` or `dis_post_recv`. The request is
  written into the slot at `head` of the work queue's ring, `head` is stored
  with release semantics, `wq_flag` is set and the worker is woken.
- The queue's worker thread loads `head` with acquire semantics, hands the entry
  at `tail` to the SCI library until the library has taken or filled it, posts a
  completion to the completion queue under `cqe_lock`, frees the page map and
  stores `tail`.
- Several workers may share one completion queue. `dis_poll_cq` empties it
  without taking the lock.
- The verbs thread starts the workers when the queue pair moves to RTR, and
  stops and joins them before it frees the rings.
- The worker of a receive queue creates a message queue under a number made of
  its queue pair's number and its node's role; the worker of a send queue on the
  other node computes the same number and connects to it. Each tries until it
  succeeds or is stopped.
- A request's segments are looked up in `mr_list` of the protection domain by
  their key and cut into iovecs when it is posted.
- The kernel calls `dis_driver_probe` and `dis_driver_remove` when the modules
  `dis_driver` and `dis_device` come and go; verbs are called in between.

What is hard here is concurrency: posting thread, worker, verbs thread, poller
and peer share two rings and four words (`wq_flag`, `wq_state`, the stop bit,
the wait queue), mostly without locks; two nodes bring up four workers for a
pair of queue pairs in any order and tear them down in any other. After that come
the error paths: every allocation, registration and library call may fail. The
hazards are listed, each at its line, in `PROJECT.json`. What makes each part
correct:

- *completion queue*: completions are handed out once and in the order they were
  posted; one is dropped only if the ring is full; posting never blocks for good;
- *work queue*: no accepted request is lost, overwritten or completed twice;
  the completion tells the truth; the worker does not sleep while there is work;
  destruction ends and leaves nobody using freed memory; page maps are freed,
  and freed once;
- *message queue interface*: the send queue of one node meets the receive queue
  of its peer on the other, and no other; messages arrive once and in order;
- *queue pair*: destroying it ends its workers, its message queue and its
  connection, and others are left alone;
- *protection domain*: the key of a live region, the number of a live queue pair,
  leads to it; nothing leaks on any failure path;
- *segment mapping*: the iovecs cover the segments exactly and in order, and fit
  into the page map;
- *modules*: nothing registered outlives its module, no device its driver, no
  user the device.

## 2. The modules

| Module | What it is |
| --- | --- |
| `CircBuf` | the ring arithmetic, external macros included |
| `CircBufLemmas` | lemmas about it, proved for every ring size |
| `BoundedFifo` | abstract specification: what a completion queue promises |
| `WorkQueue` | abstract specification: what a work queue promises |
| `WorkerLife` | abstract specification: what the life of a worker thread is for the rest of the driver |
| `DisCq` | a completion queue with its workers and pollers |
| `MCDisCq` | its instances for TLC; rings are sized `roundup_pow_of_two(n + 1)` as the driver does, and `RingFits`, evaluated by TLC for 1 to 64 entries, says that such a ring has room for the `n` entries asked for |
| `DisWq` | a work queue with posting threads, worker, verbs thread, page maps |
| `MCDisWq` | its instances for TLC |
| `DisSge` | how a posted request is cut into iovecs |
| `MCDisSge` | its instance: pages of two bytes |
| `Channel` | abstract specification: what two connected queue pairs promise each other |
| `DisLink` | queue pairs on two nodes, their workers and the messages between them |
| `MCDisLink` | its instances: a requester and a responder |
| `DisPd` | a protection domain: regions, queue pairs, numbers, memory |
| `DisDriver` | the four kernel modules and what they register |
| `DisNode` | `DisDriver` and `DisPd` composed: applications use the device while it is there |
| `MCDisNode` | its instances: tables of two regions and one queue pair |
| `DisCqProofs`, `DisSgeProofs`, `DisLinkProofs`, `DisNodeProofs` | theorems about `DisCq`, `DisSge`, `DisLink` and `DisNode` |
| `DisWqProofs`, `DisWqStopProofs`, `DisWqCompletionProofs` | theorems about `DisWq`: types, wake-up and ring; the end of the worker; completions, page maps and the refinement |

Each module looks at one layer and takes from the next what that is shown to
promise. `DisWq` sees its completion queue as the bounded queue that `DisCq`
refines, a request's page map as allocated or not (`DisSge` has what is in it)
and the peer as a library call that succeeds at some time. `DisLink` sees a
worker as starting, connecting, running or gone, and has what `DisWq` leaves
out: two queues per queue pair, two nodes, and workers that meet. That the two agree
about the worker is not taken for granted: each is shown to implement `WorkerLife`,
`DisWq` for its worker with all its steps (`IsWorker`), `DisLink` for each of its many
(`AreWorkers`). `DisPd` has the
memory of a queue pair, which is freed when `DisLink` says its workers are gone.

Operators called *slips* in comments are not used by the specifications: each is
an action with a plausible mistake in it, and substituting it for the right
action must break the property it is listed with in `PROJECT.json`.

### DisCq

A step is one access to shared state. `Complete` is a worker that calls
`dis_wq_post_*_cqe`; `PostLock` takes `cqe_lock`, reads both indices and finds
room; `PostFull` finds none and returns -42, which no caller looks at; `PostFill`
writes the entry; `PostPublish` stores `head` and unlocks. `PollLoad`, `PollRead`
and `PollStore` are one iteration of the loop of `dis_poll_cq`, `PollCall` and
`PollReturn` its ends. An entry is abstracted to the queue it comes from and that
queue's running number. `polled` and `dropped` are histories.

The module refines `BoundedFifo` (`IsFifo`): the abstract queue is the contents
of the ring from `tail` to `head`, so a put is `PostPublish`, a take `PollStore`,
a rejection `PostFull`, and every other step a stutter.

### DisWq

| Actions | Code |
| --- | --- |
| `PostCheck`, `FillStatic`, `FillDynamic`, `FillFail`, `Publish` | `dis_qp_post_one_sqe`, `dis_qp_post_one_rqe` |
| `NotifyTooEarly`, `NotifyFlag`, `NotifyWake` | `dis_qp_notify` |
| `ThreadNeverRuns` | the kernel's kthread wrapper |
| `ThreadStart`, `LoopReset`, `LoopStopped`, `ThreadExit` | `dis_wq_thread`, `dis_wq_exit` |
| `InitConnects`, `InitStopped` | `dis_wq_init` |
| `ScanStopped`, `ScanEmpty`, `ScanTake`, `Retire` | `dis_wq_consume_all` |
| `SendMsg`, `ReceiveMsg`, `OpStopped`, `PostCqe` | `dis_wq_consume_one_sqe`, `_rqe`, and `dis_wq_post_*_cqe` |
| `WaitFirst`, `WaitQueue`, `WaitCheck`, `WaitAwake` | `wait_event_killable` |
| `QpInitState`, `QpInitFlag`, `QpInitThread` | `dis_qp_init` |
| `QpExit`, `QpExitStop`, `QpExitJoin`, `QpExitSpin` | `dis_qp_exit`, then the `kfree`s of `dis_destroy_qp` |
| `DrainFlag`, `Kill`, `PollCq` | the processor's store buffer, a fatal signal, the poller |

Abstractions:

- A request is its number and its total length; a request list is a series of
  single posts. A request needs either few iovecs (stored in the entry) or many
  (`page_map_dynamic`); `Larges` says which of the two are posted.
- The SCI library is external. A call fails and changes nothing, which takes the
  caller round its loop (a stuttering step), or succeeds. A successful receive
  delivers at least one of the bytes asked for, or none if none was asked for.
- The completion queue is the bounded queue that `DisCq` is shown to be:
  `PostCqe` appends or drops in one step, `PollCq` takes.
- `wait_event_killable` is split where the kernel's macro can be interrupted:
  the first look, queueing under the lock, the second look, sleeping.
- With `Tso = TRUE` the worker's store to `wq_flag` may wait in a store buffer
  while it goes on to read the ring. The buffer drains at any time and before
  every locked operation. The posting threads' stores need no buffer: they
  become visible in order, and `wake_up` takes a lock.
- With `Killable = TRUE` the thread may receive a fatal signal, which the code
  handles at `dis_qp.c:266`. Kernel threads ignore signals unless they ask for
  them, so both settings are checked. If the thread has ended by itself before
  `kthread_stop` is called, its task structure may be gone; the model then only
  goes on as if it were not, and `StopsLiveThread` says when this cannot happen.
- The application posts only before it destroys the queue pair, and the RDMA core
  destroys a queue pair only when no call on it is running.
- The queue pair is moved to RTR at most once. What a second move does is in
  `DisLink`.
- `wq_state` is set to `DIS_WQ_EXITED` by the thread and read by `dis_qp_exit`;
  an error pointer from `kthread_create`, which the code takes for a thread, is
  not modelled.

The module refines `WorkQueue` (`IsWorkQueue`): what is pending are the requests
accepted whose completion has not been posted. `Publish` accepts a request;
`PostCqe` completes the oldest one, with success or, if `OpStopped` gave it up,
with an error; `QpExitStop` stops the queue and `PollCq` polls. Everything else,
`Retire` included, is a stutter, so that the application cannot tell when `tail`
advances except by a refused post. The length in a failed completion means
nothing and is taken out of the comparison.

The driver has no lock around posting or polling. One thread posts to a queue and
one polls a completion queue in all the runs: that is what the code supports
(`Posters` and `Pollers` are parameters, and the theorems name the assumption).

### DisSge

| Actions | Code |
| --- | --- |
| `NoRegion`, `CountDma`, `CountUser` | the first loop of `dis_qp_post_one_sqe` and `_rqe`, one segment each |
| `TooLong`, `ChooseStatic`, `ChooseDynamic`, `NoMemory` | the checks and the choice of the page map after it |
| `MapChunk`, `MapNext`, `MapDone` | the second loop, one iovec each, and the store to `head` |

Memory is bytes at addresses, the pages of a region are numbered through, and a page
map that has not been written holds anything. What is compared in the end is the
sequence of bytes the request names and the one the iovecs give. `WithinMap` says
that the second loop stays in the map although the number of pages was computed by
another formula, `Covers` that the iovecs give the bytes of the request, all of them
and in order, and `WithinPages` that none reaches over the end of a page, where the
memory goes on elsewhere.

Assumed of the application (`Segments`): a segment lies within its region, and an
`lkey` is an index into the domain's table. The driver checks neither: it indexes
`mr_list` with the `lkey` (`dis_qp.c:345`), and the pages of the region with what it
computes from the address and the length (`dis_qp.c:366-369`, `400-409`).

The formula for the number of pages counts one too many for a segment that ends on a
page bound. So a message that ends there is refused when it has `DIS_MAX_IOVLEN`
pages (`dis_qp.c:376`), although a message of that size, `DIS_MSG_SIZE_MAX`, is what
`dis_query_port` reports as the largest (`max_msg_sz`, `dis_verbs.c:64`) and
`dis_query_device` as the largest region (`dis_verbs.c:30`). The model has the formula as it is; no
property says which lengths are accepted.

### DisLink

| Actions | Code |
| --- | --- |
| `CreateQp` | `dis_create_qp`: the number is `pd->qp_c` |
| `ModifyQp`, `ModifyRtr`, then `QpInit` twice | `dis_modify_qp`; its move to RTR calls `dis_qp_init` for the receive queue and for the send queue |
| `DestroyQp`, then `QpExitNothing`, `QpExitStop`, `QpExitJoin` for each queue | `dis_destroy_qp`, `dis_qp_exit` |
| `ThreadNeverRuns`, `ThreadStart`, `InitStopped`, `ThreadStops` | the thread's life; `dis_wq_exit` with `dis_sci_if_remove_msq` or `_disconnect_msq` |
| `CreateMsq`, `ConnectMsq` | the loop of `dis_wq_init` around `dis_sci_if_create_msq`, `_connect_msq`, with `CreateId` and `ConnectId` for the queue numbers |
| `SendMsg`, `ReceiveMsg` | `dis_sci_if_send_v_msg`, `dis_sci_if_receive_v_msg` |

The library is external: a message queue can be created if its node has none of
that number, connected to while it exists, holds `MsgMax` messages, delivers in
order, and takes messages and connections with it when it is removed. A call that
fails is made again, a stuttering step. `dest_qp_num` is not in the model because
`dis_modify_qp` does not pass it on: the work queues get the pair's own number for
both (hence `use_l_qpn=N` makes no difference and is left out), and the
application can only connect queue pairs whose numbers agree. They get it only if
`IB_QP_DEST_QPN` is among the attributes of the move to RTR (`dis_verbs.c:465`).
`Lqpn` assumes that it is, as the standard demands of a move from INIT to RTR. With
`DIS_USE_DMA` the same calls are made in the same order with other functions of the library.

`dis_modify_qp` accepts any move from any state, and so do `ModifyQp` and
`ModifyRtr`: a move to RESET, INIT or RTS is only recorded, and every move to RTR
starts a worker for each of the two queues, whether they have one or not. `thread`
is the last worker started, the only one `dis_qp_exit` knows of (`wq->thread`).
`DestroyedIsQuiet` and `AreWorkers` say of a queue pair that was moved to RTR more
than once only what still holds of it then.

The module refines `Channel` (`IsChannel`), which has one channel for each ordered
pair of peers. What has been given to it is what the library took from the send
queue (`sent`), inside is the receive queue's message queue (`inq`), delivered what
the receive queue got (`received`), and the channel is closed when the receive
queue's worker has ended (its first, and with one move to RTR its only one). So
`SendMsg` gives, `ReceiveMsg` delivers, and the end of that worker, whether it never
ran, was still creating its message queue or removes it, closes. Connecting and
every step of a verb are stuttering steps: `Channel` knows nothing of them.

### DisPd, DisDriver, DisNode

In `DisPd` a call of `dis_get_dma_mr`, `dis_reg_user_mr` or `dis_create_qp` takes
a step for each allocation and each access to the counter and the table, and
every allocation may fail, which frees what the `goto` ladder at the end of the
function frees. `Alloc*`, `Pin`, `FillPages`, `SetKey`, `Insert` and `Count` are
these steps, `*Fails` the failures; `DeregMr` and `DestroyQp` free an object and
leave table and counter as they are. What `kzalloc` returns is any place not
allocated, so the address of a freed region comes back. A domain has either
user regions or DMA regions: user space has no other way to get one, kernel users
do not register user memory.

In `DisDriver` one `insmod` or `rmmod` runs at a time, as the module loader has
it, and a module's symbols keep those it uses loaded. `Register` is the init
function of `dis_driver` and `dis_device`, after which the driver core probes if
both halves are there (`Probe`, `ProbeRegister`, `ProbeFails`); `Unregister` and
`UnregisterBound` with `Remove` are their exits. `DisNode` lets an application open
a domain while the device is registered, and `Remove`, which waits in
`ib_unregister_device`, go on when there is none.

## 3. What TLC checks

| Run | Question | Result |
| --- | --- | --- |
| `cq` | Is the completion queue a bounded FIFO without data races, does every post return, is every completion delivered? | holds |
| `wq_sq` | Does a send queue keep its ring and page maps intact through wrap-around, failures and signals, and what does its destruction leave? Does it implement `WorkQueue` and `WorkerLife`? | holds |
| `wq_rq` | Are completions right, complete and in order when messages arrive in parts? Does the worker wake up, is every request served, does destruction end? | holds |
| `wq_tso` | Is the wake-up safe on x86? | worker sleeps on a request |
| `wq_destroy_hang` | Does destruction always end? | not before the thread first runs |
| `wq_stale_map` | Is a page map freed once? | freed twice after slot reuse |
| `sge` | Do the iovecs cover the segments, within the page map and within their pages? | holds |
| `link` | Do peers, and only peers, get connected, do messages arrive in order, is a destroyed queue pair quiet? Do two peers implement `Channel`, and the workers `WorkerLife`? | holds |
| `link_two_pds` | The same with two protection domains? | connected crosswise |
| `qp_restart` | Is a queue pair that was moved to RTR twice quiet once destroyed? | its first workers run on |
| `node` | Do keys lead to their objects, does nothing leak, does nothing outlive what it rests on? | holds |
| `pd_race` | Do keys lead to their objects with two threads? | two regions, one key |

The properties, by what they would catch:

- `NoSharedSlot`, `IsFifo` (DisCq): a poller reading an entry that is being
  written; lost, repeated or reordered completions; a rejection with room left.
- `PostReturns`, `Delivered` (DisCq): a lock that is not released; a completion
  that stays in the ring.
- `RingHoldsRequests`: an accepted request overwritten, skipped or taken twice.
- `CompletionsMatch`, `EachCompleted`, `ErrorIsLast`: completions that are wrong,
  missing, repeated or out of order, and work taken up after the stop.
- `IsWorkQueue` (checked for a send queue, proved for both kinds): any of these
  together with the ring: a completion before its request is the oldest, a failure
  without a stop, a drop with room left.
- `FullMeansOutstanding`: how early a post may be refused. The bound is
  `WqeMax - 2`, one less than the ring holds, because `tail` is advanced after the
  completion is posted: an application that reposts upon a completion can be
  refused with fewer than `max_send_wr` requests outstanding.
- `FreedIsQuiet`, `StopsLiveThread`: use of the ring or the thread after its end.
- `MapsLive`, `DrainedLeavesNoMaps`: page maps leaked, or freed while the library
  may read them. Both stop short of a leak the code has: `dis_destroy_qp` frees the
  ring (`dis_verbs.c:520-521`) and not the page maps of the requests that are still in
  it, which only `dis_wq_consume_all` would free (`dis_qp.c:172`). `MapsLive`
  therefore speaks of the time before, and `DrainedLeavesNoMaps` of a queue whose
  requests have all been retired.
- `FreesOwnMap` (in `wq_stale_map`): a page map freed twice.
- `NoLostWakeup`, `Served`: a worker asleep on a non-empty ring.
- `IsWorker` (DisWq), `AreWorkers` (DisLink): a queue whose worker is started twice,
  ends without being told to, says that it is gone while it has a message queue, or is
  still there when the queue is freed.
- `DestroyReturns`: a worker that does not notice it has been told to stop.
- `WithinMap`, `Covers`, `WithinPages` (DisSge): an iovec written past the page map;
  bytes sent twice, skipped or from the wrong place; an iovec that runs on into
  memory after its page.
- `Paired`, `ReceivedInOrder` (DisLink): a send queue connected to a stranger, or
  to a queue of its own direction; messages of a queue pair destroyed before, or
  lost, repeated or reordered by the retries.
- `DestroyedIsQuiet`, `NothingLeftBehind` (DisLink): a worker, a message queue or a
  connection left behind by `dis_destroy_qp`. The first holds: the last worker of a
  destroyed queue is gone, and nothing is left if it was the only one. The second
  leaves the condition out, and the run `qp_restart` refutes it.
- `Connects`, `Arrives` (DisLink): peers that never meet because of the order in
  which their workers start; a message taken and never delivered.
- `IsChannel` (DisLink): a message that vanishes before the receiver has ended, one
  that enters or leaves a queue that has ended, more than `MsgMax` waiting.
- `KeyNamesObject`, `NothingLeaks` (DisPd): a key that leads to a freed or another
  region; a failure path that frees too little or too much.
- `OwnersLoaded`, `DeviceRests`, `UsersHaveDevice` (DisDriver, DisNode): a
  registration, a device or a user left behind by a failure or a removal.

Bounds. Rings of four entries hold three requests, so they fill, empty and wrap:
five requests (three completions from each of two queues in `cq`) go past the end
of the ring. `CqeRoom` is smaller than the number of requests in `wq_sq`, so
completions are dropped, and equal to `Credits` in `wq_rq`, so none may be.
Lengths 1 and 3 allow receives in one, two and three parts. Page maps are
symmetric; four are enough for all slots of a ring. In `sge` three segments
against two static entries, pages of two bytes and regions that begin on and off a
page bound let every loop run zero, one and several times and every choice of map
happen. In `link` one node creates three queue pairs one after the other, so that
its table of two is exhausted and a queue pair without a peer competes with one
that has one; message queues of one message fill with two messages sent. Of the
states other than RTR `link` has RESET only, since the moves to all three do the same,
and it moves a queue pair to RTR once: with two moves, which give each queue a second
worker, TLC did not come to an end. A second move is looked at in `qp_restart`, on one queue
pair for each node with all states, and by the theorems, which hold for any number.
In `node`
tables of two regions and one queue pair are exhausted while both objects are
freed and made anew.

The bounds cut off one thing the code does get wrong for large requests: `byte_len`
of a completion is a `u16` (`driver/dis_verbs.h:68`) while messages may have 1024
pages (`DIS_MSG_SIZE_MAX`, `driver/dis_verbs.h:20-23`), so the length of a message
of 64 KiB cannot be told from that of an empty one. The model has the width, the
instances have no message of that size, and the theorems name the assumption.

Fairness. `DisCq`: the kernel runs every thread that can run and its spin locks
are handed over in arrival order, hence strong fairness for `PostLock` or
`PostFull` of each worker and weak fairness for the rest; the application keeps
polling (`Delivered` is about nothing else). `DisWq`: weak fairness for a posting
call that has begun, for the worker's local steps, for the verbs thread within
`dis_qp_init` and `dis_qp_exit`, and for the store buffer. Nothing obliges the
application to post, poll or destroy, or the peer to answer. `Served` therefore
has the peer's fairness as its premise, and `DestroyReturns` has not. `DisLink`:
the system, that is the workers (but for sending, which is the application's
doing) and the verbs that have begun, makes a step whenever it can. One condition
for all of them is enough because each of them makes finitely many steps in a
behaviour of an instance: an application may move a queue pair between its states for
ever, but after the last step of the system no worker has anything left to do.

Deadlock is not checked for `DisWq`, `DisSge`, `DisLink` and `DisNode`: a destroyed
queue pair, a finished call and a node left alone are at rest.

## 4. What is proved

| Theorem | Assumes | Says |
| --- | --- | --- |
| `TypeCorrect` (`DisWqProofs`) | | `Spec => []TypeOK` |
| `WakeupsReachWorker` (`DisWqProofs`) | no delayed store | `Spec => []NoLostWakeup` |
| `RingIsFaithful` (`DisWqProofs`) | at most one posting thread | `Spec => []RingHoldsRequests` |
| `FreedIsAtRest` (`DisWqStopProofs`) | | `Spec => []FreedIsQuiet` |
| `StopFindsThread` (`DisWqStopProofs`) | | `Spec => []StopsLiveThread` |
| `WorkerLivesSo` (`DisWqStopProofs`) | | `Spec => IsWorker`: `DisWq` implements `WorkerLife` |
| `FailureComesLast` (`DisWqStopProofs`) | | `Spec => []ErrorIsLast` |
| `RefusedOnlyWhenFull` (`DisWqCompletionProofs`) | at most one posting thread | `Spec => []FullMeansOutstanding` |
| `NoCompletionLost` (`DisWqCompletionProofs`) | at most one posting thread | `Spec => []EachCompleted` |
| `CompletionsInOrder` (`DisWqCompletionProofs`) | one posting thread, requests below 64 KiB | `Spec => []CompletionsMatch` |
| `MapsFollowRequests` (`DisWqCompletionProofs`) | at most one posting thread | `Spec => []MapsLive` |
| `MapsEndWithRequests` (`DisWqCompletionProofs`) | at most one posting thread | `Spec => []DrainedLeavesNoMaps` |
| `WqImplementsWorkQueue` (`DisWqCompletionProofs`) | one posting thread, requests below 64 KiB | `Spec => IsWorkQueue`: `DisWq` implements `WorkQueue` |
| `SgeTypes` (`DisSgeProofs`) | | `Spec => []TypeOK` |
| `PagesFit` (`DisSgeProofs`) | | `Spec => []WithinMap` |
| `PiecesStayInPages` (`DisSgeProofs`) | | `Spec => []WithinPages` |
| `PiecesMakeUpRequest` (`DisSgeProofs`) | | `Spec => []CutsSegments` |
| `CqTypeCorrect` (`DisCqProofs`) | at most one poller | `Spec => []TypeOK` |
| `CqRaceFree` (`DisCqProofs`) | at most one poller | `Spec => []NoSharedSlot` |
| `CqImplementsFifo` (`DisCqProofs`) | at most one poller | `Spec => IsFifo`: `DisCq` implements `BoundedFifo` |
| `LinkTypeCorrect` (`DisLinkProofs`) | | `Spec => []TypeOK` |
| `PeersPaired` (`DisLinkProofs`) | one domain on each node | `Spec => []Paired` |
| `MessagesInOrder` (`DisLinkProofs`) | one domain, one move of a queue pair to RTR | `Spec => []ReceivedInOrder` |
| `LinkImplementsChannels` (`DisLinkProofs`) | one domain, one move of a queue pair to RTR | `Spec => IsChannel`: `DisLink` implements `Channel` |
| `FreedQueuePairQuiet` (`DisLinkProofs`) | | `Spec => []DestroyedIsQuiet` |
| `WorkersLiveSo` (`DisLinkProofs`) | | `Spec => AreWorkers`: `DisLink` implements `WorkerLife` for each queue |
| `NoLeak` (`DisNodeProofs`) | | `Spec => []NothingLeaks` |
| `KeysLeadHome` (`DisNodeProofs`) | one thread | `Spec => []KeyNamesObject` |
| `NothingDangles` (`DisNodeProofs`) | | `Spec => []OwnersLoaded` |
| `DeviceHasBase` (`DisNodeProofs`) | | `Spec => []DeviceRests` |
| `DeviceOutlivesUsers` (`DisNodeProofs`) | | `Spec => []UsersHaveDevice` |
| `NodeTypeCorrect` (`DisNodeProofs`) | one thread | `Spec => []TypeOK` |

Besides, each uses the assumption its module makes about its constants
(`WqAssumption`, `CqAssumption`, `SgeAssumption`, `LinkAssumption`, `PdAssumption`): among them
that a ring's size is a power of two that fits an `int`, as `roundup_pow_of_two`
makes it, and that the two nodes have different roles, as the Makefile loads them.
The others are stated in the theorems, and the properties have premises of their own:
`MapsLive` that every request is large, `DestroyedIsQuiet` and `AreWorkers` that a
queue has had one worker. For five of these conditions a run shows what happens
without: `wq_tso` (delayed store), `wq_stale_map` (small and large requests),
`link_two_pds` (two domains), `qp_restart` (two moves to RTR), `pd_race` (two
threads). That requests are below 64 KiB is `ShortRequests`, for the `u16` above.

- `TypeCorrect` is inductive as it stands. Its six parts each concern the
  variables of one actor, so a step is examined only for the parts it touches.
- `NoLostWakeup` speaks of a sleeping worker only. What makes it inductive
  (`WakeInv`) is that from the empty scan on, a request in the ring has set
  `wq_flag` or its poster is about to (`FlagInv`); that a flag set after the
  worker's last look is followed by a wake-up (`WokenInv`); and that the thread
  exists only after `dis_qp_init` set up the queue (`StartInv`), so a poster that
  found it uninitialized need not be heard.
- `RingHoldsRequests` needs (`RingInv`) that a poster past its check still has
  `head` in hand and space before it, that a filled entry carries the request
  about to be accepted, and that a busy worker has an entry at `tail`. The
  modular arithmetic is in the lemmas of `CircBufLemmas`: one more entry after
  `head` advances, one less after `tail` does, the slot at `head` is none of the
  entries', and advancing `tail` renumbers the entries by one.
- What `dis_qp_exit` relies on is `LifeInv`: how far the worker can be for each place
  of the verbs thread, which `wq_state` goes with which part of the worker's code,
  and that the thread ends only when it is told to, with its message queue closed
  and no store delayed. `ErrorInv` adds that a request is given up only after the
  stop, and that from then on the worker is on its way out: it posts that one
  completion and scans no further. Both hold for any number of posting threads,
  delayed stores and signals included.
- `WorkerLivesSo` follows from `LifeInv`, and from `KillInv` (a signal is pending only
  where signals reach the thread): `dis_qp_init` starts the worker where there was none,
  `dis_qp_exit` releases a queue whose worker was never started (`UNINITIALIZED`) or has
  said that it is gone, and everything between entering and leaving the loop of
  `dis_wq_thread` is one place of the abstract worker.
- The rest of `DisWq` is proved from one invariant, `FlowInv`. Request numbers grow
  along `accepted` and a request being posted has the largest (`RequestInv`); the
  ring has the lengths of the requests but for the one a receive is working on,
  whose length the worker remembers (`LengthInv`); what is accepted and not polled
  never exceeds the credits (`CreditInv`), hence no completion is dropped when the
  completion queue has as much room (`AllInv`); allocated page maps are those of
  requests in flight, and if all are large each has its own (`MapInv`, which holds of a
  freed ring too: its maps are then the ones that have leaked). `CqeInv` says which request a completion came from; it needs
  short requests, because the length is cut to 16 bits when it is posted. Most steps
  move no request, and a lemma (`StepKinds`) sorts them out first.
- `WqImplementsWorkQueue` maps each of the few other steps to one of `WorkQueue`.
  The one that is not obvious is `PostCqe`: that the abstract queue has not failed
  yet is `ErrorInv`, that the completion is the oldest request's `RingHoldsRequests`
  and `LengthInv`, that it stopped before it fails `ErrorInv` again.
- In `DisSge` the sums that the loops compute are not written as sums: recursion over
  the segments is out of the prover's reach. Instead `RoomInv` says that there is a
  function `room` from segments to entries such that each segment not mapped yet
  fits between `room[n - 1]` and `room[n]`, and `CutInv` that there are functions
  `cut` and `total` for those that are. Counting a segment extends `room`; cutting
  off the rest of a page takes one entry and one page of what is left
  (`PageCountDrops`), the place where the two formulas for the number of pages meet;
  finishing a segment extends `cut` and `total`. `PageInv` needs that the second loop
  starts each page at its beginning, which is `LoopInv`. `CutsSegments`, in
  `DisSgeProofs`, is `Covers` put in terms of neighbouring iovecs: the segments are cut
  up without a gap, an overlap or a byte too many, one after the other.
- The completion queue's invariant says that a worker in the critical section owns
  `cqe_lock` and has space at `head`, that a filled entry is the one about to be
  published, and that a poller past its load holds `tail` and finds an entry
  there. With one poller the slot at `tail` is then never the one at `head`, and
  each step of `DisCq` is a put, a take, a rejection or a stutter of `BoundedFifo`.
- `PairInv`: a connection leads to the other node and to the number the send queue
  computed. Numbers are twice the queue pair's plus a bit that depends on role and
  direction, so equal numbers mean the same queue pair number and opposite
  directions; with one domain that is the peer.
- `FreedQueuePairQuiet` and `WorkersLiveSo` assume nothing of the moves. `VerbInv` has
  what the verbs do: a number is used once and a queue pair that does not exist gets no
  call (`NameInv`), only the last worker of a queue is ever told to stop, and no other follows it
  (`StopInv`). `WorkerInv` says how far the workers are for what the queue shows: a queue
  is `UNINITIALIZED` if and only if it has had no worker, and the last worker of one that
  is `DIS_WQ_EXITED` has ended, which is what `dis_qp_exit` goes by; a queue that has
  had one worker holds a message queue or a connection only while that
  runs. `DestroyInv` keeps that of a queue `dis_qp_exit` has returned from.
- `WorkersLiveSo` takes one queue at a time, up to the step that starts its second
  worker. A step of another worker leaves this one alone, but for a send queue whose
  peer's receive queue is removed: the worker runs on without its connection
  (`OthersLive`). A return of `dis_qp_exit` releases one queue of its queue pair and not
  the other (`ExitReleases`).
- `MessagesInOrder` supposes one move to RTR, which makes every worker the only one of
  its queue (`AlwaysOne`), and adds `OrderInv`: what a receive queue got, followed by what is
  in its message queue, is what the peer sent, from the first message on; all of
  it until the receive queue's worker is gone, after which none is added.
- `LinkImplementsChannels` adds `HeldInv`: messages wait only in a message queue that
  exists. A send queue is connected only to its peer's receive queue (`PairInv`), whose
  worker runs (`WorkerInv`), so a message that is sent enters an open channel and
  carries the number that comes next (`OrderInv`); the three ways in which a receive
  queue's worker ends leave nothing in its message queue and change no other
  (`EndCloses`); each of the other steps moves no message and ends no such worker
  (`ChannelStutters`).
- `NoLeak` holds for any number of threads. `MemInv` says which pieces of its object
  a call has at each step, that no two calls have the same object and that every
  piece on the heap belongs to a live object or to a call.
- `KeysLeadHome` needs the order of numbers: with one thread the numbers of live
  objects are below the counter (`KeyInv`), so the entry the next call writes is
  not theirs.
- The theorems about modules rest on `NodeInv`: what is registered belongs to a
  loaded module or to the command in progress, the device to a bound driver, a
  domain to the device.

Model-checked only: the liveness properties (out of the prover's reach), and of
`DisSge` `Covers`, which concatenates a list of any length: what such a fold yields for
every list is an induction over data, which the prover cannot do. `CutsSegments` is
what is proved in place of `Covers`.

## 5. Not modelled

- *Shared receive queues* (`dis_verbs.c:580-675`). `dis_post_srq_recv` follows
  `srq->rq.ibqp`, which nobody sets, so the first request posted ends in a fault;
  no queue pair consumes from a shared queue, and what is left is a ring that is
  sized, reported and freed. (Its ring is sized without the `+ 1` of the others.)
- *What follows an error pointer from `kthread_create`* (`dis_qp.c:296`): the code
  compares with `NULL` and wakes it up, which the kernel does not survive.
- *Failures the callers ignore*: `SCILReconf` failing leaves the library open, which
  `DisDriver` has and `OwnersLoaded` leaves out, and what `dis_create_qp` returns to
  the RDMA core when it fails, `NULL` instead of an error pointer, is not a step of
  this driver.
- *Polling in batches and completion events*: `dis_req_notify_cq` returns an error;
  `dis_destroy_cq` is a `kfree` when no queue pair uses the queue.
- *Queries* fill in constants. The contents of messages, the build files and the
  user-space support have no state of the driver's.
