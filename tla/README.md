# A formal model of the browsii daemon

`browsii` drives a Chromium browser for scripts and agents. A daemon (`internal/daemon`) owns the
browser through the DevTools protocol (CDP, by way of the `rod` library), serves about seventy HTTP
routes, and observes every page it tracks. The command line (`cmd/browsii`), the Go client (`client`)
and sandboxed WASM programs (`internal/wasm`, `sdk/go`) are its clients. These modules specify the
daemon's concurrent core in TLA+: each is translated from the source lines that `PROJECT.json` names
under `map`, checked by TLC on a small instance, and, where said below, proved by TLAPS for every value
of the constants.

## 1. Inventory

Three kinds of goroutine share one `Server` (`server.go`): the HTTP handlers (one goroutine per
request, no limit and no ordering between them), the event loops (`EachEvent`, one per listener and
page: events of one loop arrive in order, loops are not ordered between them), and helpers spawned by
either (response-body fetches, click dispatch, the snapshot router, SSE streams). They communicate by
the fields of `Server`, some under a mutex (`mu`, `recMu`, `sseMu`, each `domainRef`'s own, and one per
background tab for input), several of which are released before the work they protect is finished, and
some under none (`activePg`, `pageOrder`, the contexts).

| Component (source) | State | Operations | What makes it hard | What makes it correct |
|---|---|---|---|---|
| Domain counters (`domain_ref.go`) | `refs` per page | acquire, release, active | callbacks run after the unlock | one enable and one disable per stretch of use; the domain follows the count |
| Capture sessions over tracked pages (`page_management.go`, `routes_network.go`, `routes_tab.go`, `routes_session.go`) | `capturing`, filter, `networkCapturingPages`, baselines | tab new / close, session new / resume, capture start / stop | pages published under `mu`, acquired after the unlock; tracked and untracked in an order that has no lock | every reference accounted for; a tracked page loses its baseline only to a removal that crossed another write |
| Event rings (`ring.go`, `listeners.go`) | `netRing`, `consoleRing`, `eventSeq`, `ringInFlight` | push, correlate, drop, read since an anchor | pointers into a slice that append moves; eviction | an anchored reader misses nothing still in the window; a status belongs to its request |
| Network capture (`listeners.go`, `routes_network.go`) | `capturedReqs`, `inFlightReqs`, `bodyFetchWg` | request, response, finished, failed, fetch, start, stop | bodies fetched in goroutines a stop must wait for; a WaitGroup reused while waited on | results are complete, delivered once, and not written while formatted |
| SSE (`sse.go`, `routes_core.go`) | one buffered channel per client | register, broadcast, stream, unregister | several broadcasters at one full channel | a broadcaster never blocks, no send on a closed channel, loss is announced |
| Element refs (`elements.go`, `routes_interaction.go`) | ref store per page | enumerate, resolve, verify, heal, invalidate | verification re-enumerates and renumbers | a ref acts on the element it named, or fails |
| Recording and replay (`routes_record.go`, `server.go`) | `recording`, events, HAR capture | start, record, stop, replay | two flags and two locks; replay suspends recording | recorded actions are exactly the acknowledged ones, once, in order |
| Tabs, sessions, contexts (`routes_tab.go`, `tabscope.go`, `routes_session.go`, `routes_context.go`) | `pageOrder`, `activePg`, contexts, the session file | new, switch, close, save, resume | index aliases, unlocked reads of `activePg`, a read-modify-write of `pageOrder` without a lock | an index names the tab the caller listed; a resume shows the tab that was active |
| Console capture (`routes_console.go`) | entries, level filter | start, stop | as network capture, without bodies | as network capture |
| Init scripts (`routes_inject.go`) | scripts, per-page script ids | add, list, clear, new page | add racing a new page | each script installed once per page, none left after clear |
| Snapshot router (`routes_snapshot.go`) | running router | set, clear | two sets racing | at most one router runs |
| Downloads, dialogs, evidence (`downloads.go`, `dialogs.go`) | two capped tables, the downloads directory | browser events, policy, drain, clear | a drain racing an event; a listener waiting for a lock; eviction; names that collide; a restart over an old directory | a dialog is in one receipt, as it was answered; a path leads to its own bytes |
| Expect (`routes_expect.go`) | poll loop | check until deadline | which of several given fields is the condition; what a recording keeps of it | a checkpoint asserts in the replay what was asked for |
| Forms and interaction (`routes_form.go`, `routes_interaction.go`, `routes_navigation.go`, `routes_mouse.go`) | none of their own: the page's | click, type, fill, select, check, scroll, navigate | a fill that fails half way; elements that render late | a replay acts on the elements the recording acted on |
| Workflow export (`export.go`) | none | one step of a spec per recorded action | strict locators, positions | the spec does what the replay does |
| Lifecycle (`server.go`, `lifecycle.go`, `start.go`, `stop.go`) | listener, browser, port | start, ping, stop | two starts; stop racing requests | one daemon per port |
| WASM runtime (`internal/wasm`) | event buffer | host calls, flush | re-entry during a flush | each event delivered once, in order |
| Dev watcher (`dev.go`) | debounce timer, child | change, restart, shutdown | timer racing shutdown | no child survives |

Not components of the model: the JavaScript injected into pages (element walk, form filling,
readability), formatting and truncation, flag parsing, the HTTP clients (one request per method), and
the vendored `readability` sources.


## 2. Plan

The order is by how much of the daemon rests on a part. Written so far:

1. `DomainRef`, the counter everything that observes a page goes through; its theorems
   stand with those of the module that extends it, in `CaptureDomainsProofs`.
2. `PageOrder`, the unlocked slice of tracked pages and what raced writes make of it, and `CaptureDomains`,
   which extends it and `DomainRef` (`CaptureSpec`): who takes references and when, with `CaptureDomainsProofs`.
3. `RingWindow`, the abstract promise of the network ring, and `EventRing`, the slices and pointers that
   implement it (`Ring == INSTANCE RingWindow WITH window <- Window, ...`, checked as `ImplementsWindow`), with
   `EventRingProofs`.
4. `NetworkCapture`, the results of a session and the goroutines a stop must wait for, with
   `NetworkCaptureProofs`.
5. `SseBroadcast`, the bounded fan-out to clients, with `SseProofs`, and `GuestEvents`, which extends it by
   the WASM runtime at the other end of a connection, from a page event to the guest's callback
   (its theorems are in `SseProofs` too).
6. `ElementRefs`, from a listing to the element an action hits, with `ElementRefsProofs`.
7. `SnapshotRouter`, and `Recording`, which composes it (`S == INSTANCE SnapshotRouter`); the theorems of
   both are in `RecordingProofs`.
8. `Replay` over `FormPage` (a page and what the handlers do to it) and `ExpectRules` (which condition a
   request polls): what a recording keeps of an action, what its replay does, what its export says; its theorems
   are in `RecordingProofs`.
9. `Tabs`, also over `PageOrder`: `pageOrder`, `activePg`, index aliases, contexts, session save and resume, init scripts, with
   `TabsProofs`.
10. `Evidence`: dialogs, downloads, the receipts that report them, a restart, with `EvidenceProofs`.

Left, in this order: `Lifecycle` (two starts, a stop against requests) and `DevWatch` (debounce against
shutdown); the entries of the console capture; the poll of an expect request against its deadline; the
conversion to HAR as a function against a reference.

## 3. The modules

Conventions. An action is what a goroutine does in one critical section, or between two points where
another may interfere; a handler that works in several steps has a program counter, and the local
variables it carries across an unlock are state (`arg`, `job`, `result`, `snap`). Variables commented
*history* are read by properties only, never by a guard. Definitions whose comment says *Mutant* are
broken variants that no specification uses: each shows that a property notices that bug.

**DomainRef** (`domain_ref.go`). `AcquirePages` and `ReleasePages` are the locked halves of the two
methods; `Callback` is one `onEnable` or `onDisable` call after the unlock, which may fail at the browser.
`pending[t]` is the local slice of pages the goroutine still has to call for. `enabled` is the browser's
side. Argument lists are multiplicities because `networkCapturingPages` can name a page twice. The
callbacks of one call run in any order, a superset of the code's (list order).

**PageOrder** (`page_management.go`). `s.pageOrder` is a slice that handlers read and write without a lock.
`First` is the lookup of `trackPage` and `untrackPage`, `Appended` and `Removed` what the slice may be after
the append of line 74 or the removal of line 123. Lookup and write are steps of their own in the modules
that use it, so that a page may be tracked twice and a removal may take out what stands at its place by
then. Two writes at the same time are a data race: either may be undone by the other, a removal also after
it has moved the elements in place (`MovedDown`).

**CaptureDomains** (`page_management.go`, `routes_network.go`, `routes_tab.go`, `routes_session.go`). Tab
handlers (`TabNew`, in the foreground with the read back of `s.activePg`, which another request may have
replaced; `TrackLookup`, `TrackAppend`, `ApplyDomainsToNewPage`; `TabClose`, `UntrackRemove`, `ClosePage`),
pages nobody tracks (`Popup`), sessions that reset the order without releasing anything (`SessionNew`,
`ResumeStart`, ...), and captures (`CaptureStart` resolving the filter, `CaptureSet` under `s.mu`,
`CaptureStop`), each ending in `Acquire` or `Release` of the counter at a later step, as the code does after
its unlock. `stray` and `crossed` are histories. The console capture runs the same steps over its own counter
and is not a second module.

**EventRing** (`ring.go`, `listeners.go`, `dialogs.go`). The network ring is a Go slice: `cells`, `off` and
`size` are the backing array, the reslice offset and the capacity, so that `append` in place and `append`
into a new array (`PushInPlace`, `PushGrown`) treat the pointers in `inFlight` differently. `Spares` is how
much more than needed `growslice` may allocate. `Anchor`, `ReadRequests`, `ReadErrors` are
`actionAnchors` and the two separately locked reads of `collectEvidence`; what they find is kept as a set,
since the entries' numbers are their order. **RingWindow** is the same ring with neither pointers nor array.

**NetworkCapture** (`listeners.go`, `routes_network.go`). Entries live on a heap (`entries`) shared by the
session (`captured`), the in-flight map and the results of stops. `sync.WaitGroup` is modelled as the
runtime implements it, waiters and reset included: `FetchDone` at zero resets, `FetchWake` releases the
waiters, `DrainWoken` checks that nobody has reused the group, `WgAdd` panics in the middle of a reset.

**SseBroadcast** (`sse.go`, `routes_core.go`). The select-send, the drop of the oldest item and the send of
the warning are three steps, because several loops hold the read lock together. The `RWMutex` keeps new
readers out while a writer waits.

**GuestEvents** (`wasm/runtime.go`, `wasm/host_exports.go`, the subscription of `client/api.go`). The goroutine
that reads the stream appends to `eventBuffer` (`Receive`, which is also the delivery of the daemon's side:
reading the stream and appending are merged, since nobody sees the event in between). Host calls flush the
buffer; a callback may make one, so `flushes` is a stack. A guest whose allocation of an event's memory
fails is left out, and so are commands that failed, which flush nothing.

**ElementRefs** (`elements.go`, `routes_interaction.go`). A page is a partial map from selectors to nodes;
a ref is a rank in an enumeration. Evaluation and replacement of the store are two steps, and pages change
between any two steps of a request. Only the fingerprint of a node (`Ident`) is visible to the code.

**SnapshotRouter** and **Recording** (`routes_snapshot.go`, `routes_record.go`, `server.go`).
`replaceSnapshotRouter` is `Take`, `StopPrev`, `Install`, `Publish`. The recorder adds its flag, its
events, the HAR capture it drives by HTTP to its own daemon (whose requests may fail after having been
served), and what a replay does to flag and router. Unguarded accesses to the flag are data races; they
are taken as atomic word accesses, which is what the build's targets do.

**FormPage**, **ExpectRules** and **Replay** (`routes_form.go`, `routes_interaction.go`, `routes_navigation.go`,
`routes_mouse.go`, `routes_expect.go`, `routes_record.go`, `export.go`). A page is a document order of
elements, their values, the focus, the scroll position and a history; a selector is a position, as the
nth-child paths of `elementsJS` are; a fingerprint is a kind and a label, which twins share. The same
operators (`Click`, `DoubleClick`, `FilledTo`, `SelectOption`, ...) serve the live request and the replayed one.
`ReplayStep` is the replay loop: `ResolveTarget` (self-healing included) and the action are two steps, and late
elements may appear between them. `hits` and `rhits` are histories of the elements acted on. The spec an
export writes is interpreted as Playwright would run it (`ExportedStep`): its locators are strict and find a role
and a part of a name, case ignored (`ByRole`, over the constant `Containing`), the leading visits to the
recording's url are left out (`Opening`), and what it writes as a comment does nothing (`Skipped`). A raw double
click goes to the selector as recorded, without waiting (`PerformRaw`). An expect request is kept as it was
asked, companion included; page scripts log errors while it waits, live (`Expect`) and replayed (`LogError`).

**Tabs** (`routes_tab.go`, `tabscope.go`, `page_management.go`, `routes_context.go`, `routes_session.go`,
`routes_inject.go`). Handlers keep what they read without a lock in `at[h]`, a record of all the
locals a handler may have, those it does not use at their zero (`With` overwrites some). `Kept` filters a list by
ranks, as in `Evidence`. `TrackLookup` and `TrackAppend`
are the unlocked read and write of `pageOrder` in `trackPage` (the write appends to what is there by then),
`UntrackLookup` and `UntrackRemove` those of `untrackPage`; `ApplyCopy` and `ApplyRegister` the copy of
the script tables under `s.mu` and the registrations after it. A registration is one CDP identifier, so
that a script registered twice on a page is told apart from one registered once. The browser lists a new
page first or last (the order of TargetIDs is not creation order). A session is saved page by page (`SavePage`),
skipping one that is gone by its turn, which the saved index still counts. A session reset closes all pages in
one step.

**Evidence** (`dialogs.go`, `downloads.go`, `routes_inject.go`). `ListenerLogs` and `ListenerAnswers` are the page's
dialog goroutine: it waits for `s.mu`, reads the policy and logs, and answers after the unlock; an answer that fails
is not repeated (`missed`). `InjectLocks` and `InjectRegisters` are `/inject/js/add`, which keeps `s.mu` while it asks
page after page (`injecting`), and everything else that takes `s.mu` waits for it (`Unlocked`). Browser download events
travel in `events`; the rename of a finished file may fail. A receipt is collected in two critical
sections (`drainDialogsFor`, `WriteEvidence`), while everything else goes on. `Restart` empties what the
daemon keeps and leaves the directory. `seen` is a history; `Kept` is `SelectSeq` written with a rank
instead of a recursion, so that the provers can reason about it.

Each module has a `TypeOK`. It documents the shape of the state; a run checks it where proofs rest on it
and nothing stronger says it.

## 4. Runs

Each run is one `.cfg`. Bounds are constants named in the module or the `MC` module.

| Run | Distinct states | Instance | Shows |
|---|---|---|---|
| `domain_ref` | 49 thousand | 3 goroutines, 2 pages, counts to 2 | count and domain agree on undisturbed pages, callbacks balance, every callback due is made |
| `capture_domains` | 6.4 million | 2 handlers, 2 pages, counts to 4, one stray reference per page, no failing callback | every reference is accounted for; nothing but a removal that crossed another write eats a tracked page's baseline |
| `event_ring` | 600 thousand | 2 requests, 4 events, ring of 2, console ring of 1, one reader | the slice is the tail of what happened; no foreign status; reports complete up to the caps; implements `RingWindow` |
| `network_capture` | 122 thousand | 2 requests, 2 handlers, 2 sessions, 3 entries | a stop serialises finished bodies, entries are handed out once, sessions do not write into each other, a stop replies |
| `sse` | 1.1 million | 2 loops of 2 events, 1 client, channel of 2, 2 host calls, flushes 2 deep | order per loop, announced loss, no closed channel used, nobody starves; the guest is called back in order and misses nothing |
| `element_refs` | 4.6 million | 3 nodes, two of them twins, 3 selectors, 2 clients, 1 page change | a ref from the stored listing keeps its identity, and on a quiet page its very element |
| `recording` | 6.3 million | 2 handlers, 2 actions, 1 router | nothing recorded is lost, the flag follows requests, replays see the network they asked for, routers are accounted for |
| `replay` | 708 thousand | every recording of 2 actions on a page of 8 elements | a replay acts on the elements recorded and leaves the page as the session left it; export and checkpoints agree; a replay ends |
| `tabs` | 2.9 million | 2 handlers, 4 pages, 1 script, 4 requests or outside events | every tracked tab runs every global script, cleared scripts are gone, only a reset or the removal of its entry moves a tab up, a resume shows the tab saved as active unless the save skipped one before it |
| `evidence` | 2.1 million | 2 pages, 2 action requests, 2 dialogs and downloads, tables of 1, 1 policy change, clear, inject or restart | a dialog is in one receipt and as it was answered, a page stays held up only after a failed answer or in the deadlock with an inject, receipts name their downloads, paths lead to the right bytes |
| `tab_close_context` | violation | 2 handlers, 3 requests | the active page after a close is a closed one |
| `download_path` | violation | 2 downloads of one name | the second is listed with the first one's file |

Why the bounds are enough. Two actors suffice for every race here, because the code's critical sections
involve one shared object and the caller; the counter has three, since a callback can be overtaken by two
opposite calls. Ring and channel capacities of 1 or 2 with more events than that make eviction, in-place
append, growth and overflow all happen; the code's capacities (in the thousands) differ only in how long
it takes. Three nodes with a shared fingerprint are the least that tell a survivor, a twin and a stranger
apart. Two sessions are one and its successor. Failing callbacks are checked in `domain_ref` and not again in
`capture_domains` (`MaxFailed = 0`; the theorems allow them). `MaxRouters = 1` in `recording` keeps one load and
unlimited clears; the theorems cover any number. The page of `replay` has one element of each behaviour the
handlers tell apart (twins, of which one is disabled; a button that changes its own text; one that reorders
the page; a late field; a hidden one; a checkbox; a select) and two recorded actions are one that changes the
page and one that must still find its target. `tabs` has the browser's first page and three more: a pair
for two concurrent requests, and one to be displaced. Its scripts go to all tabs or to the active one; tabs
named by index or `next` are in the module (`resolveTabAlias`) and not in the run. Tables of one entry make
every eviction of `evidence` happen with two effects; `download_path` has room for two.

Symmetry is declared for handlers, pages or requests in safety runs only; the temporal `ImplementsWindow`
is a step property without liveness, for which permuting request ids is sound.

Fairness. `DomainRef`: a goroutine that owes a callback makes the call; rod's call returns or fails.
`NetworkCapture`: handler and body goroutines are scheduled, and the browser answers or fails every body
request. `SseBroadcast`: a loop inside a broadcast and a writer waiting for `sseMu` run; no fairness for a
client reading its stream. `Replay`: the replay loop goes on by itself (its waits are bounded by the deadline the code sets) and late
elements do appear. `Evidence`: the listener of a page, a
goroutine of the daemon, gets `s.mu` when it is free again and again (finitely many injects compete for it, and a
`sync.Mutex` hands itself to the longest waiter) and makes its one attempt at an answer, which may fail; an inject goes on
when the page it asks can run. Nothing is assumed of a page that shows a dialog: that it may never reply is the deadlock
that `DialogsAnswered` excepts.
Everything a client or a page does otherwise is without fairness.

`CHECK_DEADLOCK FALSE` appears where a bounded instance really comes to rest: in `NetworkCapture`, `Sse`,
`ElementRefs`, `Replay`, `Tabs` and `Evidence` the bounded events, sessions, requests or page changes are used
up, or the daemon has died of a panic. The other runs check for deadlock.

## 5. Disagreements between code and documentation

Two have a violation run (`PROJECT.json`, `findings`):

- `routes_tab.go:86` says that after a close `activePage()` falls back to `pages[0]`. `activePage()` prefers the
  active context's page, which may be the one just closed (`CloseFallsBack`).
- `downloads.go:93` says that `resolveDownloadPathLocked` "finds the completed file on disk", by its GUID or, "when
  present", by the suggested name, which it takes the browser to dedupe. The browser does not, and a file of the name is
  preferred also when it is an earlier download's (`PathLeadsToFile`).

The following are stated as properties in the modules and checked by no run: naming one as an invariant of
the module's run shows the behaviour.

- `StatusFilledIn` (`EventRing`): `ring.go:19` says a status is filled in when the response arrives. It is
  written through a pointer into an array that `append` may have left.
- `DrainNeverPanics` (`NetworkCapture`): `server.go:76` says a stop drains the body fetches before
  serialising. A session started meanwhile can make the `WaitGroup` panic.
- `LossAlwaysAnnounced` (`SseBroadcast`): `sse.go:5` says a full channel gets an overflow warning. Two loops at
  one channel can lose it.
- `NeverLandsElsewhere` (`ElementRefs`): `routes_interaction.go:24` says verification keeps refs from landing on
  unrelated elements. It renumbers the store, so the client's next ref is verified against another element.
- `OldRouterStopped` (`SnapshotRouter`, `Recording`, with two routers): `server.go:187` says the old router is
  stopped on each load. Of two loads at once, one stays.
- `ExportDisambiguates` (`Replay`): `export.go:120` says repeated elements are told apart by their position. The
  position is zero-based (`server.go:49`) and one is subtracted from it (`export.go:139`).

Seen while modelling, and described by the models:

- *Captures.* A page can be active by `activeForPage` while its enable is still to come or its last callback
  lost a race (`raced`, `failed`); a second capture start forgets the pages of the first, whose references
  stay (`stray`).
- *Refs.* Stored refs survive reload, back and forward, which do not invalidate them (`PageNavigates`).
- *Recording.* A replay that overlaps a stop turns the recording on again (`disturbed`). `recordExpect` drops
  the ref, where its comment (`routes_expect.go:186-187`) says that a ref condition is "recorded with its resolved
  selector": an expect of only `{ref}` is replayed as "no console errors". A count
  or a state of no element is accepted and polls whatever else was asked, at the least "no console errors",
  while the report of a failure names the count or the state (`expectDescribe`, `routes_expect.go:390-424`;
  `OfNothing`). A `noConsoleErrors` beside another condition, which `routes_expect.go:133` and `cmd/browsii/expect.go:39`
  offer and which is recorded, is not looked at by a replay (`routes_record.go:425-431`), though recorded checkpoints are
  to be enforced by replays (`routes_expect.go:184-185`, `routes_record.go:399`); `CheckpointsKept` excepts it. The url and
  the tab header are not replayed. A click that changes its element's text records the text after the click
  (`server.go:46`). A scroll by 0 is replayed by 300, a select by index is recorded as a value, raw pointer
  operations carry no fingerprint, `recordFill` takes fingerprints on the active page
  (`routes_form.go:195`) and its healing writes to a nil report (`routes_record.go:348-349`), so that it ends
  in a panic that the middleware turns into an error. A replay that runs before a late twin has rendered
  may settle for the other one (`Mistakable`), and one whose fill comes before a late element has pushed the
  field to its place heals it, into the panic above (`Shifts`). What is typed at a disabled element is
  recorded as typed there and goes where the focus is.
- *Export.* `QUICKSTART.md:635` has a spec keep the healing of a replay. It writes double clicks, which a replay performs,
  as a comment, a select by index as an empty value, and it fails where another element's name contains the recorded one
  (`Skipped`, `ExportedSelect`, `Unambiguous`). The handlers set hidden selects and disabled fields, for which the
  exported spec waits in vain (`Writable`). Checks for `checked`, `enabled` and `count` become a visibility check or are skipped; a glob's dots
  stay unescaped.
- *Tabs.* `inject add --tab next` is stored and registered nowhere (`routes_inject.go:28`); a close with a tab
  header resets the shared active tab (`tabscope.go:13-15`); the browser's first page is never tracked; two
  concurrent `tab new` may leave one tab untracked (`page_management.go:97-98`), and a close in between leaves
  a nil page; a page that existed before an add and is tracked after it gets the script twice, and a clear
  removes one of them; a session is saved in the browser's listing order, so a resume reorders the tabs, and a page
  that is skipped by the save shifts the saved active index; `QUICKSTART.md:639` says that a save keeps cookies and
  localStorage and not the tabs' URLs, where the code keeps URLs and cookies and no localStorage; a session reset
  releases nothing, so that a reference on each page it forgot stays for good.
- *Dialogs.* `QUICKSTART.md:631` says "never blocking", and `dialogs.go:30-33` that a dialog left open stalls its page. An
  answer that fails is logged and not repeated (`dialogs.go:67-72`), and a listener waits for `s.mu`, which
  `/inject/js/add` keeps while it asks pages (`routes_inject.go:66-98`): if it asks the page that shows the dialog, neither
  goes on, and everything that needs `s.mu` waits until a restart (`Deadlocked`; `DialogsAnswered` excepts both).
- *Receipts.* Dialogs are drained without an anchor: a receipt may report one from before its action. An
  expect that fails reports a state read after its last poll.
- *Clients.* The stream is read with a scanner that stops, without an error, at a line over 64 KB
  (`client/api.go`).

## 6. Proofs

TLAPS checks these for every value of the constants; PTL does the temporal last step.

*DomainRef* (in `CaptureDomainsProofs`). `TypeCorrect`. `DomainFollowsCountHolds` rests on `IInv`: while a page is
undisturbed at most one goroutine owes it a callback, the count stands where the callback will put the
domain, and the domain still stands on the other side. The property alone is not inductive: it says nothing
while a callback is due. `CallbacksBalanceHolds` needs finitely many goroutines (`ThreadsAssumption`), to
count those that owe a callback.

*CaptureDomains* (`CaptureDomainsProofs`). `CaptureInvHolds`: every step of the tab, session and capture handlers that
moves the counter is a step of `DomainRef`, so that the counter's invariant and its lemmas are reused, and the rest
is bookkeeping of who owns a reference: what a page's counter holds and is about to get or lose is its places in the
order, its places in the session under way, and the strays (`RefsAccountedHolds`). Both kinds of places are counted
as sets of positions (`AppendCount`, `WithoutCount`), so that an append, a removal of whatever stands at a position by
then, and a write that is undone have a cardinality to argue with. A handler about to write has one page in hand
(`OneInHand`). `BaselineHeldHolds` needs `NoneShort`: only a removal that crossed another write returns a reference too
many. A page in the order then owns its baseline, and everything else in the account is at least zero.

*SnapshotRouter* (in `RecordingProofs`). `RouterAccounts`: the invariant follows each router
through its holders (`Accounting`) and says that a handler holds one only in the steps that need it
(`EmptyHanded`), without which an install could drop a router. `RouterAlone` adds `Alone`: as long as
nothing overlapped one handler works at a time, on a server that stores no router, and at each of its steps
it is known whether the browser intercepts.

*Recording* (`RecordingProofs`). `ImplementsRouter`: a step of the recorder is a step of `SnapshotRouter` or
leaves it alone; the router theorems carry over (`RoutersAccountedHolds`, `OneRouterHolds`).
`TypeCorrect`. `FlagFollowsRequestsHolds` rests on `FlagInv`: with nothing overlapping there is one recorder
at a time, and between a replay's pause and its restore the value it will restore is the value asked for.
`NothingLostHolds` uses `FlagInv` at one place, which is its point: an action that finds the flag off outside
a replay had not been asked for. `ReplayNetworkHolds` rests on `NetInv`: with nothing overlapping the handler
at the router is the only one there, and taking the router for one network switches the other off.

*Replay* (in `RecordingProofs`). `CheckpointsKeptHolds` rests on `CheckpointInv`: a recorded checkpoint keeps the
fields of a request that was accepted, but its ref, and the selector if one was given (`KeptOf`), and a replay is
at an event of its recording. The request it was asked with is kept beside it, ref and companion included. The property itself speaks of one step and of two requests, the live one and the
replayed one. Only `ReplayExpect` counts a checkpoint as passed (`OnlyExpectPasses`), for the replayed request on the
recorded selector; without a ref it gives the same fields as the live one (`SameCondition`), and where no selector was
given, what is polled is not about an element (`PolledAlone`). `DescribedIsPolled` compares the order in which
`expectDescribe` looks for a name with the order in which `expectCondition` looks for what to poll.

`ReplayReproducesHolds` compares two runs over a whole recording, on pages that may differ in what has rendered.
It rests on `ReproInv`, which remembers the recorded session as a sequence of rendered pages (`Trace`): each event,
performed on one of them, passes on the elements it was recorded to act on and leads to the next (`Recorded`). The replay's page,
rendered, is the one its event starts from (`AtEvent`, `Place`). Two facts carry a step. What a handler does commutes with rendering
what is late (the lemmas whose names end in `Page`), so that the recorded session can be told in rendered pages at
all. And what `resolveRecordedTarget` returns on a page still rendering is the recorded element (`Relocates`), because an
action for which it could be another is lossy (`Mistakable`). A fill sets its fields one after the other; the
model says which of them the focus and a field set twice keep, and that the last of a set of positions exists
(`MaxTaken`) follows from the well-foundedness of the naturals by a smallest bound, not by induction.

`ExportAgreesHolds` rests on the same invariant: where the page has settled the recorded selector is an
element with the recorded fingerprint (`ReproInv`), and if nothing shares that, and nothing else is found by its role
and a name that contains its own, it is also what the exported locator finds (`AloneExported`), which with
`CheckpointInv` makes each kind of step and assertion agree. For the visits that the spec leaves out at its beginning
`LeadInv` says that a replay that has made only such visits is still on the page it began on. Steps the spec does not
have (`Skipped`) and selects by index are left out of the claim, and section 5 names them.

TLC checks the properties and not `ReproInv`, whose `Trace` quantifies over sequences of pages.

*NetworkCapture* (`NetworkCaptureProofs`). `TypeCorrect`, `ResultCompleteHolds`, `TakenOnceHolds` and
`OnlyOwnSessionWritesHold` rest on one invariant, `IInv`: an entry in flight belongs to the session under way,
to one request, and its body was not asked for yet (`InFlightOwned`); the WaitGroup's count is the number
of bodies not done (`Counted`). A stop that goes on has seen the count at zero, and no body of its result can
start afterwards, because a body starts from an entry in flight and those of a result no longer are. That
the count equals a cardinality also keeps it from going below zero, which would be a panic.

*EventRing* (`EventRingProofs`). All rests on one invariant, `RingInv` (`RingInvHolds`): every event takes one
number, so that the log is indexed by it (`Numbered`); the cells that readers see are logged requests in
order (`LiveLogged`, `LiveOrdered`), all of them but those that the cap evicted (`LiveComplete`). For the statuses
three facts are needed that only hold together: a pointer leads to the latest hop of its request, whether
or not its cell is still in the slice (`PointersLatest`), no hop of an open request is answered
(`OpenPending`), and a status in the ring is the hop's own (`LiveStatus`, which is `NoForeignStatus`). A status
written through a pointer to an older hop, after a redirect, is what the first excludes.
`ImplementsWindowHolds` maps every step: pushing in place and into a grown array is appending to the window and
dropping its head at the cap, correlating is answering the latest hop or nothing. `ReportCompleteHolds` and
`ErrorsReportedHolds` carry what a read found over the later steps; that a missing error is owed to
`ConsoleCap` others is counted through the numbers in the console ring.

*SseBroadcast* (`SseProofs`). `NeverSendsOnClosedHolds`: clients that a broadcast has still to serve are
registered, because both ends of a registration wait for every reader (`Position`). `InOrderHolds`: order
is kept part by part (what was read, what is buffered, the one ahead of the other), with a bound on the
numbers of each loop (`Latest`) that says why the next event goes last; a warning has no number and fits
anywhere. `LossAnnouncedHolds` needs `Room`: a loop that dropped the oldest item finds room for its warning
unless another loop came in between, which is what `raced` records. `ImplementsBroadcast` shows that `GuestEvents`
implements `SseBroadcast`: whatever the guest does, its steps are deliveries of the broadcast or
none of its business, so that the three properties hold of the composition that the run `sse` checks.

*GuestEvents* (in `SseProofs`). `GuestInOrderHolds` and `GuestMissesNothingHolds` rest on `GuestInv`. Flushes nest:
a callback may call the host, which flushes what arrived since. So what waits is taken as one line, the
flushes from the outermost in and then the buffer, and is shown to keep the order of the stream
(`LineOrdered`); a callback made may stand before a waiting event of its loop when it is older, or when it was
called from further in (`MayPrecede`). That last clause is the exception `GuestInOrder` states, and the
invariant needs it at the same depth at which the waiting event will be called. `HeardWanted` says that a
flush skips nothing that had a listener. The order of the stream itself is `InOrderHolds` of the broadcast,
through `ImplementsBroadcast`.

*ElementRefs* (`ElementRefsProofs`). `TypeCorrect`. A listing numbers the selectors by rank, and the lemmas on
ranks (every number up to the count is taken, by one selector) are what makes a store of refs a function that
can be compared with a later one. `RefKeepsIdentityHolds` and `RefStableWhileQuietHolds` rest on `RefInv`: a
store is current while its page is quiet (`Current`), a request carries a ref of a store its client has seen
(`Request`), and what a verified request goes on with has the fingerprint it was asked for (`Verified`,
`Settled`). On a page that stayed quiet the enumeration that verification repeats yields the very same
numbers, so that it can neither fail nor renumber; this is where `Current` is needed.

*Evidence* (`EvidenceProofs`). `TypeCorrect`. `DialogsReportedOnceHolds` rests on `PlacesInv`: a dialog is open, with
the listener, in the log or in one receipt, and never in two of them (`Disjoint`, `LoggedOnce`), what opens next
has been nowhere and neither has what a page shows before its listener has read it, once (`Fresh`, which leaves out
dialogs whose answer failed), and the cap takes the oldest. `LoggedAsAnsweredHolds` adds that log and answer stem from
one reading of the policy (`AgreeInv`). `PathIsOwnHolds` needs `FilesInv`: a file of a name holds the bytes of a
download that was suggested under it, one of a GUID its own; a finished download has one of the two, before it is
reported complete; and a file of a GUID goes away only for the name of the one entry that has the GUID (`Single`). `ReceiptNamesDownloadsHolds`, an action property, needs `StampInv`: every stamp moves
the clock, so that what a receipt finds above its anchor is what was stamped since. What the caps and the
draining keep of a list is stated once (`KeptElements`), from a lemma on ranks.

*Tabs* (`TabsProofs`). `TypeCorrect`. Everything rests on `Shape`, the types of the state and of a handler's locals,
and `Base`: no page is known that was not opened, the one add under way holds `s.mu`, and nobody knows its script
yet. `StepsPlain` then sums up the actions: all but seven (`ScriptStep`) leave the tables alone, drop registrations of
closed pages only, and at most begin or go on with setting up a page (`PlainStep`), so that the lemmas on scripts
argue about eight kinds of step instead of thirty.
`EveryTabHasScriptsHolds` rests on `ReachInv`: on a tracked open tab a global script runs, or a handler is about to
copy the scripts for it, or has that one left to register (`Reached`); an add for all tabs has listed every
tracked tab, unless one is still to be copied for, and its script runs on those it has passed (`AddReaches`). The
copy waits for `s.mu`, which is what makes the two cases meet. `ClearedScriptsGoneHolds` rests on `ClearInv`: a registration is one `ids` knows, of the add under
way, or excused (`Removable`), for which a page that nothing crossed is set up by one handler and registers each
script once (`SetUpOnce`): a second registration would overwrite the first one's identifier.
`TabIndexStableHolds` speaks of an order that may name a page twice: the index of a tracked tab is that of its first
entry among the open ones, and a write to the order that does not remove that entry, raced or not, leaves it one that
stands behind nothing new (`Keeps`, `Removing`, `Appending`, `IndexStep`). A close that nothing disturbed removes its own
tab's entry (`ClosingAlone`). `ResumeRestoresActiveHolds` rests on `ResumeInv`: a saved file, and one still being
written, names the shown document at its active position unless a page was skipped before it (`Names`), and while a resume is
undisturbed no other handler works, the tab in hand shows the file's document at that place, and once the active one is passed it is `s.activePg` (`Restored`).

Assumptions: the named `ASSUME`s of the modules, nothing else. The histories (`disturbed`, `overlapped`,
`raced`, `crossed`, `missed`) delimit the claims: the properties say what the code guarantees where requests do not get
in each other's way like that, and section 5 what happens when they do.

Only model-checked: all liveness (`CallbacksRun`, `StopReplies`, `NobodyBlocks`, `ReplayEnds`,
`DialogsAnswered`), which is out of the prover's reach.

## 7. Not modelled

What runs inside the page (element walk, fuzzy scores, form scripts beyond their effect), CDP and rod beyond
their use here, formatting, file contents, queries and content extraction (they only read the page), cookies,
the deadline of an expect poll, the wait of a replayed right click or upload for its element, a dialog a person
closes in a visible browser, the page's URL and title that a receipt reads (which a page that shows a dialog does not
give), the start and stop of the daemon's process, the dev watcher, and the
compilation and memory of WASM programs. The console capture's entries are the network capture's without
bodies and have no module yet. Hazards no property covers carry a note in `PROJECT.json`.
