# mru-switcher in TLA+

This directory models mru-switcher, a Hyprland plugin that cycles windows in
most-recently-used order (Alt+Tab): press to open a session over a frozen list
of windows, press again to move a virtual selection, release to focus the
selected window.  The reference is the source under `src/`; every definition
of a model is mapped to its lines in `PROJECT.json`.

## The system

All plugin code runs on the compositor's thread.  There are no locks and no
threads: what interleaves are *handlers* (dispatchers bound to keys, commands
of an overlay peer, compositor events, config reloads, expired timers, unload),
each of which runs to its end.  The hard part is their order.

| component | state | operations | talks to |
|---|---|---|---|
| history tracker (`domain/history_tracker.cpp`) | `order_`, `locked_`, `pending_`, `pending_ref_` | `on_focus`, `flush_pending`, `set_session_locked`, `seed`, the debounce callback | scheduler, validity from the registry |
| scheduler (`plugin/hypr/hypr_scheduler.cpp`) | armed one-shot timers, next id | `schedule_after`, `cancel`, fire, destruction | event loop |
| session controller (`domain/session_controller.cpp`) | active, snapshot, index, origin, session id, live and frozen policy, last end | `cycle`, `select_index`, `apply`, `cancel`, `on_focus`, `on_window_invalid`, `set_policy`, `plugin_shutdown` | window source, focus gateway, UI port, tracker |
| identity registry (`plugin/hypr/identity_registry.cpp`) | address -> generation, closed flag, weak reference | register, resolve, close, prune | everything that holds a `WindowRef` |
| window source, scope, merge | none | `candidates`, `is_valid`, `focused` | tracker's order, registry, compositor |
| focus gateway | none | `focus` | compositor, which emits a focus event from inside the call |
| UI backend proxy (`plugin/session_ui.cpp`) | the backend of the session | start, selection, end | controller, one backend |
| border highlight, pulse timer (`plugin/border_highlight_ui.cpp`) | list of the session, captures of overridden properties, throb | highlight, restore, probe, tick | `hyprctl` properties, event loop |
| workspace navigator | monitors elevated, and what they showed | begin, ensure visible, end | compositor |
| external overlay, socket (`plugin/overlay_socket_server.cpp`, `plugin/hypr/hyprland_overlay_socket.cpp`) | listener, one client, receive buffer, watches | accept, poll, send, stop | peer process; its commands call the controller |
| config, sidecar | values of the last read | read, overlay | controller's policy, tracker's delay, socket, UI |
| dispatcher arguments, Lua bridge | none | parse, join | dispatchers |
| events and lifecycle (`plugin/mru_plugin.cpp`, `plugin/plugin_lifecycle.cpp`) | the members of `PluginState`, listeners | build, subscribe, register, teardown | all of the above |

What must hold, and is hard to test: the last used window is never lost
between focus event, debounce timer, session start, lock-in and the promotion
after apply; a session's list and policy are frozen but shrink when windows
die, and its index must survive that; focus moves only when a session ends,
once, and the UI hears of exactly one end; nothing runs after unload.  Every
border property that a session overrides is put back although any read or write
may fail and windows come and go; a timer or a watched descriptor never calls
back into what is gone; a peer's picture of the session agrees with the session
while peers connect, split their lines, stall and vanish; and a load that fails
anywhere leaves nothing half alive.  The list of hazards, at their lines, is in
`PROJECT.json`.

## Modules

| module | models |
|---|---|
| `MruList` | the list algorithms: filter, promote to the front, drop repetitions, merge |
| `Selection` | the index arithmetic of `selection.cpp` |
| `History` | `HistoryTracker` with its scheduler: one record, one operator per method |
| `SessionController` | the session state machine, the ports around it and every handler that reaches it; all properties of the core |
| `AltTab` | the abstract switcher: what a user is promised, without jobs, indices, pruning and focus results |
| `IdentityRegistry` | `WindowIdentityRegistry`, with the listeners and the enumeration that call it, over window objects that share addresses |
| `Navigator` | `HyprlandWorkspaceNavigator`: the monitors a session elevates and puts back |
| `BorderUI` | the proxy with a `BorderHighlightUI` per session, the pulse timer and the navigator, over a store of window properties whose reads and writes fail |
| `OverlaySocket` | server, adapter and protocol of the overlay's socket: one record, one operator per method |
| `Plugin` | load, reload and unload of the plugin around `OverlaySocket`, the session as its UI sees it, and the peer processes |
| `Candidates` | which windows a session is offered: focus, scopes, hidden scratchpads, the two enumerations |
| `Config` | reading and clamping of every key, the sidecar file laid over them |
| `DispatchArgs` | the arguments of `mru:cycle`, also as Lua hands them over |
| `BorderColour` | the forms of a border colour: what is kept of a captured one, what a pulse darkens |
| `MCMruList`, `MCAlgorithms`, `MCSessionController`, `MCIdentityRegistry`, `MCBorderUI`, `MCPlugin` | instances for TLC; `MCMruList` and `MCAlgorithms` also state what the pure operators are compared with |
| `MruListTheorems` | proved facts about the operators of `MruList` and `Selection`, and about loops |
| `AlgorithmTheorems` | what `algorithms` checks of the pure operators, and more of them, proved for every input |
| `SessionControllerProofs` | the inductive invariant of `SessionController` and the properties that follow from it |
| `SwitcherProofs` | the frozen snapshot and the focus discipline of `SessionController`, proved |
| `AltTabProofs` | that `SessionController` implements `AltTab`, proved |
| `BorderUIProofs` | every invariant of `BorderUI` that the run `border` checks, proved |
| `IdentityRegistryProofs` | every invariant of `IdentityRegistry` that the run `identities` checks, proved |
| `PluginProofs` | every invariant of `Plugin` that the run `plugin` checks, proved |

An operator with a comment that begins with "Fault:", or whose comment
describes "the fault", is not part of any model.  It is a plausible bug, put in
the place of the definition after it to see that a property notices.

### How the model corresponds to the code

One action is one handler.  `BeginSession` is `cycle` from Idle: flush, ask for
candidates, freeze, lock, tell the UI.  `Cycle` and `SelectIndex` move the
index.  `Apply` contains both attempts of `apply()` with the prune and clamp
before each, and the promotion after the end.  `Cancel` ends the session and
then restores the origin.  `WindowClosed` is the close listener: the registry
stops resolving the window and the controller prunes.  `WindowVanishes` is a
window object that dies while no close event is delivered; validity follows the
weak reference, so `is_valid` turns false with no handler running.  `TimerFires`
is the expiry of one timer.  `Unload` is `teardown_state`.

In `IdentityRegistry` one action is one listener (`Open` and `Reopen` for
`window.open`, `Active`, `Close`, `Destroy`), one enumeration of candidates
(`Enumerate`), or the silent death of a window object (`Die`).  `registry` is
`by_address_`: a partial function from addresses to entries.  An object that
dies in `Destroy` still locks while the listener runs, so its own entry is
marked and erased only by a later close; one that dies in `Die` leaves its entry
open.

In `BorderUI` one action is one call of the UI port (`OnSessionStart`,
`OnSelectionChanged`, `OnSessionEnd`), one expiry of the timer (`PulseTick`), or
a window that dies or appears at an address.  A call is one step: it picks `bad`,
the operations that fail in it (a read, a write or a restore of one property of
one window, the probe, the timer, the workspace switch, or everything), and
`Restored`, `Highlight`, `Ring` and `StartPulse` follow the code's reactions.
`captured` is `captures_`: which override is owed back, and the value to write.
`forgotten` and `strayed` are history variables that record where the code itself
gives up: a restore that failed, and a write to a slot or a window that was not
overridden.  The properties excuse exactly these.

In `Plugin` loading is one step per member of `PluginState` (`Build`), and
`InitFails` may follow any of them; teardown is one step per `reset()`.  Peers act
between these steps, handlers do not.  `ClientReadable` reads all that the kernel
holds and `DispatchLine` is one round of `dispatch_buffer`, so a command acts on
the session, and its answer may fail and close the client, while the rest of the
buffer waits.  `s.clientWatch` is the descriptor the event loop watches: a
duplicate, so the connection stays open when the server has closed its own.
After a foreign exception the compositor keeps the plugin: the phase is `hollow`,
with dispatchers and without state.

`Candidates`, `Config`, `DispatchArgs` and `BorderColour` are operators;
`MCAlgorithms` chooses their inputs, one a step, and a config input grows by a
second line.  A loop of the code is a function of the number of rounds done
(`Parse` of `Config`, `FilterLoop`, `PushUnique` and `Walk` of `MCMruList`).

Abstractions:

- A `WindowRef` is an element of `Windows`, and a window that died does not
  come back.  That identities are not re-used is what the registry is for, and
  is an assumption of `SessionController`.  `IdentityRegistry` shows how far it
  holds: while the entry of an address exists (`EntryIdentitiesDiffer`), not
  after the entry was erased (`identity_reused`).
- In the registry, `next_generation` is always one more than the generation of
  the entry and is not kept, and the registration order, which only sorts
  `live_refs_newest_first`, is left out.  `given`, `forgotten` and `retired` are
  history variables: which references were handed out for which object, and
  which of them a handled close should have ended.
- `candidates()` returns any list its code can: the members of the tracker's
  order that pass the filters, in that order, then other valid windows in any
  order, none twice.  Which windows the filters pass is left open, so every
  scope is covered.
- Delays are left out: a timer may fire at any step after it was armed.
- Handlers may be entered from inside a call: a successful focus request makes
  the compositor emit `window.active` at once.  During `apply` it is dropped by
  the lock, and `cancel` models it as `echo`.  The workspace switch of a
  cancelled border session may emit another one after the unlock; that equals
  a `FocusEvent` right after the step, or is overwritten by the promotion.
- `ui` of `SessionController` is what any UI backend has been told, not what it
  draws; what the border backend draws is `props` of `BorderUI`.
- `BorderUI` is driven by any controller: any valid list, any slot of it, ends
  for either reason.  A property holds the window's own value or one of four of
  ours.  Properties go with the address, as the compositor finds a window by it.
- `Plugin` keeps of a session its size, the selected slot and its backend.  A
  peer's bytes are chunks: a line, or the head or tail of one, with the object
  they carry.  A send goes out, finds the socket full, or fails.
- Config values are words and numbers, alphas tenths, the widths 24 and 16 bits
  in place of 64 and 32: what matters is that a wide value does not fit an int
  and that both are wider than every clamp.
- `calls` and `latest` are history variables for the properties.

## Runs

| run | instance | shows |
|---|---|---|
| `algorithms` | all lists up to 4 and 2 over 3 windows, all 8 filters; two windows over three workspaces in every state; every key with values at and around its bounds, in up to two lines; up to 3 arguments; colours of every form | operators = the code's loops, walks over the list reach every entry, scopes nest, one reading of arguments and configuration, captured colours survive their restore |
| `hex_in_parentheses` | same, expects a violation | a pulse over a documented colour has no darker variant |
| `one_session` | 3 windows, 1 session, 1 focus job, both policies | inside a session: types, index in range, frozen snapshot, no closed window offered, focus discipline |
| `back_to_back` | 2 windows, 3 sessions, 3 focus jobs, both policies, under fairness | across sessions: one debounce job, history locked during a session, the latest use kept and offered first, one UI end per session, clean teardown, the refinement of `AltTab`, and every use reaches the head of the history |
| `apply_selected` | expects a violation | apply focuses another window than the selected live one |
| `highlight_selected` | expects a violation | the UI highlights by an index into another list |
| `identities` | 4 window objects, 2 addresses, re-opening up to generation 3 | seen windows resolve, closed references stay invalid, no two windows share a reference while its entry lives |
| `border` | 2 addresses with 2 generations, 1 monitor, 2 workspaces, one configuration of each style, 2 sessions, 1 failing step, under fairness of the timer | overrides are owed back, marks follow the selection, no timer without a highlight, views restored, the pulse throbs |
| `named_workspace` | 1 session from a named workspace, expects a violation | cancel leaves the monitor elsewhere |
| `plugin` | 2 connections, 2 paths, 3 configurations, 2 slots, 1 load, 3 bounded events, under fairness of the event loop | watches and clients agree, no mixed streams, the peer mirrors the session, teardown order, no callback without state, no peer waits for ever |
| `identity_reused` | same, expects a violation | after its entry was erased, a reference is given again |
| `closed_but_alive` | same, expects a violation | a closed window that still lives does not resolve |

Bounds.  `MaxSessions` bounds the sessions started and `MaxJobs` the jobs
scheduled by focus events; the promotion at the end of a session adds one job
each.  Three windows are the least for a window before, at and after the
selection; two policies differ in all three fields, so a reload changes each.
With two windows toggling is already visible, and three sessions let a
promotion meet the flush of the next session, which has its own promotion.
Windows are interchangeable, so `one_session` uses symmetry; `back_to_back`, which
checks a liveness property, does not.  Unloading ends every behaviour, so deadlock is not checked.

Four objects over two addresses let three follow each other at one address,
with a window elsewhere whose close erases an entry; each object is created
once, and `MaxGeneration` stops the re-opening of one.  Generation 3 is reached
by a re-opening on top of another object or of an earlier re-opening.  When all
objects are dead nothing happens any more, so deadlock is not checked here
either.

In `border`, two windows on two workspaces of one monitor let a highlight move,
a ring be dimmed and un-dimmed, and a monitor be elevated twice in a session;
generation 2 puts a second window at the address of a captured one.  The second
session starts on what the first left behind.  `MaxFailures` bounds the steps in
which something fails; one such step at any place, with one operation or all of
them failing, is every single fault.  In `plugin`, a buffer of two chunks holds a
split line and is exceeded by a third; two slots let a selection move and a close
shift it; two connections are the least for one to find the place taken.
`MaxEvents` bounds together the reloads, listener errors and chunks sent: three
suffice for a split line followed by a reload, or for two moves of the socket
with a chunk between.  One load is enough because a torn-down plugin equals a
fresh one, which `TornDown` and `NoListenerOutlivesConfig` show.

Fairness.  In `back_to_back`, that an armed debounce timer fires in the end; in
`border`, that an armed pulse timer does (`WF_vars(PulseTick)`); in `plugin`, that
PLUGIN_INIT and PLUGIN_EXIT return, that the event loop calls back for a readable
listener or client, and that `dispatch_buffer`'s loop goes on.  Wayland's event
loop does each of these.  Weak fairness is enough, since nothing disables such a
step and enables it again for ever but what also ends the wait.  No user action,
peer, event or reload is assumed to happen.

## Findings

- *apply keeps the slot, not the window* (`session_controller.cpp:108`): with a
  dead window before the selection whose close event has not been handled,
  apply focuses the successor of the selected window although the selected one
  lives.  SPEC REQ-S-004 says otherwise; its section 2.8 describes the clamp
  for an invalid selection only.
- *two lists, one index* (`session_controller.cpp:25`,
  `border_highlight_ui.cpp:293`): after a close in mid-session the controller
  counts in the pruned list, the border UI and an overlay peer in the list of
  session start.  The highlight is then on another window than the one apply
  focuses, against REQ-UI-004.
- *generations restart* (`identity_registry.cpp:72`): erasing an entry erases
  its generation counter, so a later window at that address gets the reference
  of the dead one, against REQ-ID-002.  The tracker's order, which never drops
  dead references, then counts the new window as used.
- *named workspaces stay behind* (`hypr_workspace_navigator.cpp:56`): their ids are
  negative, and `end()` takes a negative id for "no workspace", so a cancelled
  session does not restore a monitor that showed one, against REQ-UI-012.
- *the closed flag decides* (`identity_registry.cpp:48`): a closed window whose
  object lives does not resolve, against REQ-ID-006 and the comment on
  `prune_closed`; the header describes what the code does.  That closed
  references stay invalid (`ClosedRefStaysInvalid`) rests on it.
- *hexadecimal colours in parentheses do not pulse* (`border_highlight_ui.cpp:88`):
  the branch for `rgb(r,g,b)` takes `rgb(rrggbb)` and `rgba(rrggbbaa)` too, reads one
  number where it wants three or four, and returns; the branch for these forms
  (line 115) is never reached.  The comment at line 62 lists them among the forms
  that are read, and USER.md (item 6 of the border's behaviour) promises a darkened
  variant: with such a `border_color` the pulse is constant.  `ColoursSurvive` and
  `DarkerIsAccepted` therefore speak of the colours that the code reads.

One more disagreement was met and has no run.  REQ-O-005 says that an oversized line
from a peer is ignored and does not change the session.  `poll_client()`
(`overlay_socket_server.cpp:148`) empties the buffer in mid-line and keeps no note of
it, so what follows, up to the newline, is dispatched as a line of its own.  The model
does the same (`Received`, `DispatchLine`), and no property says that it is right.

## Proofs

Every safety invariant and every action property that a passing run checks is
also proved, and so is the refinement of `AltTab`.  What a theorem says, it says
for all values of the constants that satisfy the named assumptions:

| modules | for any | assumptions |
|---|---|---|
| `MruListTheorems` | lists, filters, windows | none |
| `SessionControllerProofs`, `SwitcherProofs`, `AltTabProofs` | finite set of windows, policies, bounds | `WindowsAssumption`, `PoliciesAssumption`, `BoundsAssumption` |
| `IdentityRegistryProofs` | objects, addresses, generations | `NamesAssumption`, `GenerationAssumption` |
| `BorderUIProofs` | windows, monitors, workspaces, configurations, sessions, faults | `BorderAssumption`, `NavigatorAssumption` |
| `PluginProofs` | connections, paths, chunks, configurations, length of the buffer | `OverlayAssumption`, `PluginAssumption` |
| `AlgorithmTheorems` | windows, lists, desktops, files, tokens, widths | `WidthAssumption`, `PlacesAssumption` |

`ViewsRestored` alone has a hypothesis of its own, `Workspaces \subseteq Nat`: with
a named workspace the property is false, as the run `named_workspace` shows.
`NumberedViewsRestored` needs no hypothesis and says what is left on such a desktop:
each monitor that showed a numbered workspace gets it back.

*List algorithms.*  A filter is a list of kept positions (`KeepAt`), and the
facts about it rest on one lemma: the n-th smallest position of a finite set of
positions exists and positions are counted in order (`NthPositionExists`,
`NthPositionOf`).  From it follow what a prune, a promotion, a seed and the
candidate merge keep, drop and put first.  The same lemmas give what a filter of a
filter (`KeepTwice`), of a concatenation (`KeepConcat`) and of a promotion
(`KeepPromote`) is: pruning twice is pruning once, and it does not matter whether
dead windows leave the order before a promotion or after it.
`IndexInRange` and `PrevUndoesNext` are the arithmetic of `selection.cpp` for
every length.

*Loops.*  A loop is a function defined by recursion on the round.  That it exists
(`LoopExists`) and that a fact kept by every round holds at the end
(`SetInduction`) are proved from the natural numbers being well-founded, with the
fact given as a set of rounds, so no theorem with an operator parameter is needed.
`AlgorithmTheorems` has one lemma per loop that unrolls it (`FilterRounds`,
`ParseRounds`, `WalkRounds` ...) and one that says where it leads.  The filter loop
is then `Keep`, the loop over `push_unique` is `FirstOccurrences`, n presses lead
to `Reached`, and of several lines for a key the last decides
(`LastLineDecides`), for lists and files of any length.

*Pure operators.*  `CandidatesInMruOrder` holds on any desktop, and is what
`SessionController` takes for granted of the lists it is given
(`CandidateLists`).  `ScopesAreNested`, `ClampIsNearest`, `OverlayIsLocal`,
`ArgumentsMeanWhatTheySay`, `KeptColourIsAccepted` and `DarkerIsAccepted` hold of
any desktop, number, file, tokens and colour.  The invariants of `algorithms` are
read off these; there the windows and the lists are any, while the numbers
(`Edges`), the colours, the tokens and the length of a file or of a token sequence
remain those of the run.

*Session controller.*  The properties are not inductive as they stand:

- `SingleDebounceJob` needs that the lock equals `active` and that a session
  has no job, which `LockedIn` and `Flushed` establish at session start.
- `LatestUseIsKept` needs to know *whose* job is pending: `LatestInv` adds that
  a pending job is that of the latest use, and that a window which was used has
  been opened, so that opening a window never revives a use.  With it a flush
  promotes the right window, and a timer that fires does.
- `LatestUseFirst` needs that the order repeats no window.
- `NothingAfterTeardown` needs that an unloaded plugin is idle.

`Inv` is the conjunction of these.  There is one lemma for each method of the
tracker, one for `end_session` (`Ended`, `SessionEndKeepsInv`), and one for each
action; `Invariance` combines them, and the theorems after it read each property
off the invariant.  `LockedInHistory` and `LastUsedOfferedFirst` are action
properties proved from the same invariant.

`FrozenSnapshot` is not inductive: a window the UI was shown that had not been
opened yet could open, and would then live and be missing from the snapshot.
`FrozenInv` adds that a session shows no unborn window; that a prune of a prune is
one prune of what was shown is `KeepTwice`.  `FocusIsDisciplined` has one lemma for
each way a handler ends: no request, the one or two of `apply` (`ApplyLog`), the
one of `cancel`.

*Refinement.*  `Switcher` maps what is settled to the live part of the order
(`Settled`) and what is fresh to the window of the pending job if it lives
(`Fresh`).  A timer that fires is then a `Settle` of the abstract switcher and the
flush of a session start part of its `Offer` (`SettledPromotes`, by `KeepPromote`);
a death takes the window out of what is settled in that step, though the concrete
order keeps it (`SettledLoses`, by `KeepTwice`), and out of what is offered then or
with a later prune, which is part of `Perish`, `Pick` or `Dismiss`; reloads and
moves of the selection change nothing.  `MapInv` is what the mapping needs beyond `Inv`: an
idle controller has no origin, only a live window is focused, and the order has no
unborn window, which would settle by opening.  The list operators inside the
instance are shown to be those outside it first (`SameOperators`).

*Identity registry.*  `Inv` relates the entries to the references that were
given.  `Placement`: living objects have different addresses.  `EntriesGiven`:
the reference of every entry was given to the entry's object, and the entry of a
mapped object is open.  `GivenKnown`: a reference is at most as new as its
entry, the newest belongs to the entry's object, and an object that lives and
was given a reference still owns its entry, since nobody else can register at
its address.  `RetiredStale`: what was retired for a living object has a closed
entry or an older generation than it.  With these, a registration hands out
either the reference the object has or one newer than all others of the address
(`EntryIdentitiesDiffer`), a mapped object that was seen owns an open entry
(`MappedWindowResolves`), and a retired reference fails on the flag, on the
generation or on the weak reference (`ClosedRefStaysInvalid`).  Pruning drops a
reference together with its entry, so all of this is kept; that the counter is
dropped as well is the finding above.

*Border.*  `BorderInv` adds three facts to the types.  `Aged`: the windows of the
snapshot have addresses of their own and none is newer than what is at its
address, so a capture meets its window exactly while the address still has it.
`Wired`: there are captures and a timer only with a highlight, and the highlight is
on the selected window of a session with a border.  `Placed`: colours and size are
captured of that window, alphas of the others.  With them `Overriding` is
inductive: a property that is not excused has one of our values exactly when it is
captured from the window that is there, and the capture has the window's own
value.  It is stronger than `OverridesAreOwed`, which does not say that nothing
else is captured, nor from whom; without that, a restore could put one window's
value on another.  `MarksFollowSelection` follows from it with `Placed`.
`Viewed` does the same for the monitors: one that was touched is recorded with
what it showed at the start, and one that was not still shows that.

*Plugin.*  `Inv` has one part for the members and one for the socket.  `LifeInv`
ties `todo` to `members`: while the state is built, what exists is exactly what the
build order has before the rest of `todo`; while it is torn down, no more than what
the teardown order has after it.  Two facts about the orders then carry
`BorrowersDieFirst`: whatever a member refers to is built before it when no session
runs (`BuiltInOrder`), and destroyed after it whatever backend a session has
(`TornDownInOrder`), so a load may fail anywhere between.  `Serving` says of the
socket what one method may leave behind: it listens exactly when it is watched, its
client is the one that is watched, its buffer is part of that client's stream, and
a client that missed nothing was told what is selected.  There is one lemma for each
method of the server and its adapter (`SendLineOK`, `TryStartOK`,
`OnListenerReadableOK`, `ReceivedOK` ...), for the session's part in it
(`SelectedOK`, `EndedOK`), and one for each action.  `StreamOfOneClient` needs that
the buffer is empty without a client (`NothingBuffered`) and that what the kernel
holds for a connection was sent on it (`InboxOK`); `PeerMirrorsSession` needs that
an accepted client was told nothing yet; `CallbacksHaveState` needs that only
a socket that is a member listens (`NoSocketNoListener`).

*Only model-checked:* liveness under fairness, which is out of the proof system's
reach (`UseIsRecorded`, `PulseThrobs`, `PeersAreServed`), and the six
disagreements, each a counterexample on a small instance.

## Not modelled, and the plan

Left out: status text, the registration of Lua functions, install scripts and
examples (no state that the running plugin keeps and changes), rendering inside
Hyprland, the bytes of JSON, colours and configuration lines, and the
notifications to the user with their warn-once flags.

What could follow:

1. `SessionController` over `IdentityRegistry`: a stale member of the order that
   comes back to life with the identity of a dead window.
2. `BorderUI` driven by `SessionController` instead of by any controller.
3. Proofs: that `CandidateLists` of `SessionController` are `CandidatesOf` of a
   desktop, with the scopes as they are, as one refinement.
4. A run of `Plugin` that expects REQ-O-005 violated for an oversized line.
