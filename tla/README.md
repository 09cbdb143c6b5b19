# Verification of claudepod

claudepod runs an agent in a podman container ("guest") and gives it the host's
nix store through a proxy that speaks the nix daemon's worker protocol on both
sides and lets through store queries only. The heart of it is the proxy
(`src/src/proxy.rs`, `src/src/proxy/*`): a filter that has to keep the framing of
two byte streams with no length prefixes, that answers in the daemon's name,
that fills paths on demand over a second connection, and that lives exactly as
long as the session it serves. Around it, a launcher, an entry program and a
service script carry what the user asked for (a project directory, an
environment, a stack of store layers, subordinate ids) through four programs
with a syntax each, and once more for every container launched inside another.
This directory models the proxy and these programs in TLA+, checks the models
with TLC and proves theorems about them with TLAPS.

Contents: 1 the system, 2 the modules, 3 the runs, 4 fairness, 5 the proofs,
6 what is only model-checked, 7 what is not modelled, 8 what is left.

## 1. The system

| Component | Source | State it keeps | Operations | Talks to |
|---|---|---|---|---|
| Accept loop | `proxy.rs` | semaphore of `MAX_SESSIONS` permits, the `on_first_accept` hook, the socket's queue | acquire a permit, accept, sleep after an error, start a session | one task per session |
| Opening of a session | `session.rs:36-82`, `handshake.rs` | negotiated version, features, two BufWriters | magic, dial, hello both ways, features, post-handshake, greeting | guest client, host daemon |
| Op loop of a session | `session.rs`, `ops.rs`, `stderr.rs` | the op being served, two BufWriters | read op, accept/reject, forward, relay stderr, relay result, hold back a validity answer, fill, re-check | guest client, host daemon |
| Fill client | `host_client.rs` | a daemon connection of its own | dial, handshake, `EnsurePath`, drain stderr | host daemon (a second child) |
| Wire primitives | `wire.rs` | the bytes of the unit being read | words, padded strings, caps, streaming copies | used by the three above |
| Manifest as the proxy sees it | `run_roots.rs` | set of paths, immutable | load, `may_fill` | op loop |
| Proxy process | `bin/claudepod-nix-proxy.rs` | signal handlers, pdeathsig, the socket's name | handlers, prctl, getppid, load manifest, adopt listener, serve, unlink | launcher (spawn, death), guest (through the mount) |
| Launcher: proxy and exec | `bin/claudepod-start.rs:180-430` | its pid, the socket's name | remove stale name, bind, spawn, exec podman | proxy, podman |
| Launcher: manifest cache | `bin/claudepod-start.rs:503-663` | a cache file per guest system and nixpkgs | look up, rebuild through a temp file, rename | other launchers, proxy |
| Launcher: project, volumes, environment | `bin/claudepod-start.rs` | the backing directory of the guest home | choose the project path, make its mountpoint, volumes, `-e` flags | podman's command line |
| Launcher: ports, devices, time zone | `bin/claudepod-start.rs` | none | options to arguments, one by one | podman's command line |
| Store layer lists | `store_layers.rs` | `CLAUDEPOD_STORE_LAYERS`, `/run/claudepod-store-layers` | join, parse, bind under short names, overlay | launcher and entry of every level |
| Names | `store_path.rs`, `agent_env.rs` | none | validity checks | launcher, entry, proxy |
| Guest entry | `bin/claudepod-entry.rs` | the container's mounts and the files under `/run` | overlay store, layer list, subordinate ids, environment file, USB links, time zone | launcher (environment), service script (files) |
| Service script | `guest-module.nix:47-90` | variables of one shell | read `/run`, source the environment, start agent, shell or command through a login shell | entry, agent |
| Packaging, e2e driver | `flake.nix`, `*-module.nix`, `bin/claudepod-e2e.rs` | none | build, test | |

### How they interact

```
 launcher --spawn(listener fd)--> proxy process --serve()--> accept loop
    |  exec, same pid                 ^  SIGTERM when the pid dies   | spawn per connection, with a permit
 podman --bind mount of the socket----|                              v
    |                     guest client <==== worker protocol ====> session <====> host daemon child 1
    |  volumes, -e flags                                             |  fill      (session connection)
    v                                                                '----------> host daemon child 2 (EnsurePath)
 entry --files under /run--> service script --> agent, which may run a launcher of its own
```

* The guest's clients keep pooled connections, so a session may idle without
  bound and keeps its permit meanwhile. This is deliberate (`session.rs:81`).
* Both directions of a session go through `BufWriter`s. Nothing but an explicit
  flush, or a buffer running full, puts bytes on a socket; each party then waits
  for the other, so a missing flush is a deadlock and not a delay.
* `IsValidPath` is the one op whose answer the proxy may change: the daemon's
  `STDERR_LAST` is held back until the boolean is known; if it is *false* and
  the path is in the manifest, the proxy fetches the path on a fresh connection
  and asks again on the session's connection.
* After the guest has seen a terminal stderr message, or a byte of a result, no
  error may be inserted any more: the only way out is to close.
* A container launched inside a container gets the layers of its parent's store
  under new names, and its parent's daemon behind its own. The files and the
  metadata of a store path thus come by two chains that share no code.

### What is hard, and what "correct" means

The full list, each hazard at its line, is in `PROJECT.json`. In short:

* **Accept loop.** Permits lost on an error path; a hook that runs too early
  (the container is not mounted yet) or never; stallers that starve the queue.
  Correct: permits are conserved, descriptors bounded, the queue is served.
* **Opening.** Three versions and two feature sets that must agree on both legs
  although each party computes its own; a daemon that forks per connection and
  must not be dialled for a peer that is no nix client; stalls in every step.
  Correct: both legs agree when the op loop starts, the buffers are empty, and
  the opening ends whoever stalls.
* **Op loop.** Errors, timeouts, hang-ups and fills at every boundary of two
  unframed streams. Correct: neither stream is ever read at a place that is not
  a boundary, the guest never gets a token it cannot parse, answers are in
  order and are what the daemon last said, nothing is fetched that is not
  listed, and every request is settled.
* **Wire.** Padding, caps and the end of the stream, read in any pieces. Correct:
  what is copied is what was sent, and the next op is read where a message ends.
* **Manifest cache.** Builders at once, kills and power losses between any two
  steps, a proxy that loads later what its launcher validated. Correct: the
  name bears a whole manifest or nothing, and no step but a power loss takes it
  away.
* **Processes.** A parent that dies before, during or after the registration
  for its death; names left by killed proxies; a pid that comes again. Correct:
  no orphan, no leaked name, the socket is there when podman mounts it.
* **Nesting.** Names and ids that mean something else at every level. Correct:
  every level can mount what it is handed, sees its parent's store under its own
  layer, shows the files its database describes, and never gives a nested
  container the id of the invoking user for another one.
* **A launch.** Settings that pass four syntaxes and may name the same thing; a
  backing directory that outlives every launch. Correct: the project is where
  the guest is told, the agent has the variables that were selected, and no
  launch leaves a directory the user cannot write unless asked to.

## 2. The modules

| Module | Models | State |
|---|---|---|
| `ProxyServe` | `proxy.rs`: `serve` | `acceptor` (place in the loop), `permits`, `backlog` (kernel queue), `phase` (per connection), `armed` (the hook), `named` (the socket's name) |
| `StoreRequests` | `ops.rs` classification, `may_fill`, argument acceptance | none: requests and what the proxy's tables say of them |
| `ProxySession` | the op loop with the stderr relay, fill and re-check, between a guest and a daemon | `pc`, `kind`, `path`; `hw`, `gw` (BufWriters); `fill`; the four socket directions; guest, daemon and store; two history variables |
| `StoreQuery` | abstract specification: what a session promises, without wires | `valid`, `asked`, `answers`, `seen`, `granted`, `open` |
| `ProxyHandshake` | the opening of a session: magic, versions, features, post-handshake, greeting | `pc`, negotiated `version` and `features`, buffers, sockets, guest and daemon with versions and features of their own |
| `Wire` | `wire.rs`: a counted list of padded strings, read and copied byte by byte | `stream`, `closed` (the peer); `taken`, `mark` (how far it is read), `place`, `count`, `len`, `out` |
| `ProxyLifecycle` | launcher, podman, proxy process and the socket's name over successive runs with one pid | `parent`, `proxy`, `name`, `signal`, `hook`, `killed`; `reuse`, fixed at the start: whether a pid may come again early |
| `RunRootsManifest` | the manifest cache: lookup, nix eval, temp file, sync, validation, rename, cleanup; the proxy's later load; kills and power losses | `pc` and `fd` per pid; `data`, `synced` per file; the names `path`, `tmp` and the directory as it is on the disk |
| `ManifestCell` | abstract specification: the cache as one cell, empty or whole | `cell`, `grant` |
| `NestedStores` | layer lists from launcher to entry to the next launcher, overlays, and the databases of nested daemons | per level: `pod` (how far it is), `parent`, `binds`, `layersEnv`, `layersFile`, `store` (the mounted layers), `files`, `db` |
| `SubIds` | `claudepod-entry.rs:273-305` between podman's id maps of successive levels | `inner` (uids or gids), `depth`, `idMap` and `subids` per level |
| `GuestLaunch` | the project path, volumes and environment from options to agent, over successive launches | `phase`, `args`, `volumes`, `flags`, `env`, `run` (files), `agent`; `userDirs`, `rootDirs`, `asked` (the backing directory) |
| `MC*` | instances for TLC | |
| `*Proofs` | theorems and proofs | |

`PROJECT.json` maps each definition to its lines. `StoreQuery` and
`ManifestCell` are not mapped: they are specifications, not translations. The
guest's clients, the daemon, podman, bash and the kernel are not part of this
repository; they are modelled from what the code in `src/` expects of them and
marked external. Definitions introduced by "A mutant:" are deliberate bugs, each
one a plausible edit of the definition that follows it; substituted for it, they
must break the property `PROJECT.json` pairs them with.

### Level of abstraction

**The session.**

* *Tokens, not bytes.* A channel of `ProxySession` is a sequence of tokens. A
  token is what the code reads or forwards as a unit: op word, argument block,
  one stderr message, first word of a result, the rest of the result. A
  malformed block (over a cap, bad padding, bad UTF-8) is one token. That a block
  may be taken for a unit, however the bytes come, is what `Wire` shows.
* *BufWriters are explicit.* `hw` and `gw` hold what was written and not
  flushed. A spill (a full buffer goes out early) is modelled where the
  amount is up to the peers: the path list of `QueryValidPaths`, the prefix of
  an incomplete request, the rest of a result. A list is copied string by string,
  so the prefix of an incomplete one may hold its whole strings (`Begun`).
* *The daemon's store changes.* Other users build and collect garbage at any
  moment, so a validity answer may be stale as soon as it is given. What is
  promised is that it is the daemon's *latest look while the request was being
  served*; `seen` is the history variable that records it.
* *A fill* is one `ensure_path` on its own connection. It may succeed, fail in
  any step, or be given up by the proxy while the daemon carries on: `orphans`
  are those fetches, which may finish at any later time.
* *Timeouts.* A timeout branch is enabled exactly when the token it waits for
  is not there. Durations are not modelled. There is none on the host daemon.
* *Session start.* `ProxySession` starts where `ProxyHandshake` ends. The
  daemon may be gone already (`hopen` is nondeterministic): the code does not
  look at how the greeting ended (`session.rs:77`), so a greeting that ends in an
  error still enters the loop. That the buffers are empty then is not assumed
  but checked and proved: `LoopStartsClean` of `ProxyHandshake`.

**The opening.** A version is the word on the wire. A guest may send any word,
more than the two bytes the proxy looks at included; the daemon's fits in two
bytes, as a real daemon's does (`VersionsAssumption`). A handshake write to a
peer that has gone is lost instead of failing; the next read sees the end of
file, so the outcome is the same. The code's own feature list is empty; the run
gives it one feature, so that the intersection and the checks on it mean something.

**Wire.** The primitives are exercised through one shape, the counted list of
strings that the op loop copies without keeping it. Words have `WORD` bytes of
`BASE` values: the code is the instance 8 and 256, the run 3 and 2. The peer sends
any bytes, in any pieces, and may close after any of them.

**The accept loop.** A session costs one guest descriptor and, from the magic on,
a daemon connection; a fill costs a second one. The hook is there (the proxy
binary always passes one).

**Processes.** A run is one pid's turn. `Interrupt` is the terminal's SIGINT,
which reaches launcher and proxy; before the proxy's handlers are installed it
kills it. That pdeathsig is tied to the *thread* that spawned the proxy is not
modelled: the launcher spawns from its main thread and execs from it. Whether a
pid may come again while the proxy of its last owner is still leaving is fixed at
the start of a behaviour (`reuse`); both cases are explored.

**The manifest cache.** One cache file (one guest system, one nixpkgs). A pid has
one launcher at a time: launchers share a cache directory on the host only
(those inside a guest are not given a nixpkgs, `flake.nix`, and never touch
it), so pids tell temp files apart; a cache directory shared between machines
is outside the model. Contents are *empty*, *part*, *junk* (complete output
that does not parse) and *whole*; *part* is taken to parse, since a manifest cut
off at a line or in a name does. A power loss keeps any part of an unsynced
file and, for each name, either the directory's latest state or the one that
last reached the disk; the kernel may write the directory out at any moment.
Whether `--build-nix-run-roots` was given is chosen where it is first looked at.

**Nested stores.** A directory is a symbol and an encoded list a sequence of
symbols and colons; what a symbol *means* at a level is `Resolve`. The overlay,
podman's bind mounts and the nix daemons are external. A build or a fetch and
its registration are one step. `Collectable` is an assumption about the
environment: a level collects nothing that a container launched from it has
registered. The proxies relay no temporary roots, so no code here enforces it;
without it `ValidMatchesFiles` is violated.

**Subordinate ids.** Ranges are sets of ids, disjoint and taken in ascending
order, which is how podman's `keep-id` hands them out (external). `inner` picks
uids or gids: the same code serves both, with another id for the user.

**Launches.** Paths are sequences of names; values of variables are sequences of
the characters that matter to a syntax (quote, backslash, equals, newline) and of
names. `Names` is the set of all of these, and a constant: nothing is assumed of it
but that the names the code itself uses are in it. podman's and bash's rules are external. Launches follow one another over
one backing directory; two at once are not modelled, since a launch only ever
adds mountpoints.

The service script starts what it starts through `bash --login`
(`guest-module.nix:67`, `85`), after it has sourced the session environment: bash
itself and the guest's `/etc/profile`, with the direnv hook of line 244 in it, set
and unset variables by then. What they do is not in this repository (the profile is
NixOS's, direnv reads a file of the project), so it is a constant: `Logins` is any
set of possible outcomes, each a set of assignments and a set of variables
unset. Of `EnvReachesAgent` it takes away the variables that some login touches,
and the claim is about all the others. `ServiceEnv` is the environment that
systemd gives the service; it must not have the script's own `MODE`, `PROJECT` and
`COMMAND`. A variable that bash keeps read-only (`ReadOnly`: `UID`, say) cannot be
assigned from the file, and the script ends (`set -e`). `-e` flags may bear the
name of a variable that the launcher sets for the entry; all of its own flags are
modelled, in their order (`OwnFlags`), with values as symbols where nothing depends
on them. Variables that podman or the image would add by themselves are left out,
since the entry copies listed names only; one of them matters only for a flag
`-e NAME` without a value and with no `NAME` in the launcher's environment.

## 3. The runs

| Run | Instance | Question |
|---|---|---|
| `serve` | 4 clients, 2 permits, queue of 2 | Are permits conserved through errors and ends; are descriptors bounded; is the name removed when connections are being served; is the queue served, in spite of clients that send nothing? |
| `serve_doc_cap` | same | Is the session cap a cap on daemon connections, as the comment at `proxy.rs:22` says? It is not (below). |
| `session` | 1 request of any kind and form, 2 store changes | Is anything left unflushed while somebody waits; does the daemon see queries only; does *invalid* for a listed path come only after a fill was tried; do answers arrive; does a hang-up end the session? |
| `pipeline` | 2 requests, the second possibly early, 1 store change | Do both legs keep their framing over errors, fills and re-checks; are answers in order; is every request settled; does the session implement `StoreQuery`? |
| `handshake` | guest and daemon versions 1.34, 1.35, 1.37, 1.38, 1.39, 2.38, for the guest also a word of three bytes; any features out of two | Do both legs agree when the loop starts; is the daemon dialled only for a guest that said the magic; are the buffers clean; does the opening end? |
| `lifecycle` | 3 runs with one pid, overlapping or not | No orphan, no name left behind, no stale name that blocks a bind; is the socket there for podman to mount? |
| `manifest` | 2 launchers, 3 files, 1 power loss | Does what a launcher validated stay loadable for its proxy; is a temp file left; does the cache behave as one cell that is empty or whole? |
| `nested` | 4 containers, launched from the host or from each other; 1 store path with 2 possible contents | Can every level mount and parse what it is handed; is a store its parent's with a layer on top; do the files fit the database? |
| `subids` | host ids 0 to 12, up to 2 ranges, 4 levels, uids and gids | Does the user stay one person at every depth, and everybody else another; is all delegated that can be? |
| `launch` | 14 project directories under 2 values of `HOME`, sandbox, volumes; up to 2 environment flags with and without GPU, mode and command; flags of the launcher's own names with and without `--verbose`, `--usb` and a time zone; 2 logins | Is the project where the guest is told; does the session have the variables that were selected, as far as the launcher's own flags and the login shell leave them alone; is nothing left behind but what was asked for? |
| `launch_doc_project` | same | Does the command run in the project directory (`README.md:88`)? Not always (below). |
| `wire` | words of 3 bits, strings of up to 4, lists of up to 2, streams of up to 21 in any pieces | Is what is copied what was sent; is the next op read where a message ends? |

### Why the bounds are enough

* `serve`: with fewer permits than clients and a queue that fills, all of full
  semaphore, full queue, refused connection and idle loop occur. The permits and
  descriptor invariants are also proved for all sizes.
* `session` and `pipeline`: a session keeps no state between ops besides the two
  legs' positions, so what one op can do to the next shows with two. One request
  is enough for what concerns one op, and affords a store that changes twice:
  once for the look and once for the fill or re-check. One log message per
  exchange distinguishes "logs before the terminal" from "none". Two paths are
  one in the manifest and one outside.
* `handshake`: the versions lie on both sides of every threshold in the code:
  the floor (1.35), the feature exchange (1.38), the proxy's own version, and a
  different major. One feature of the proxy's own and one that is foreign give
  all intersections. The safety properties are also proved for all versions.
* `lifecycle`: two runs are needed for one proxy to meet another's name, a third
  for a name that two proxies have removed.
* `manifest`: two builders race for the name, three files hold both builds next to
  a published one, one power loss rolls both names back. All of it is also
  proved for any numbers. The view of the run leaves out what free files once
  held, which no step reads; pids and files are symmetric, and the run has no
  liveness property.
* `nested`: four containers give a chain of four levels, where each renaming has
  happened at least twice, and a fork, where siblings share a parent. Store paths
  do not affect each other; two contents are enough to tell the right files
  from the wrong ones. All invariants are also proved for any number of
  containers and paths.
* `subids`: the host's ids lie below, at and above the user's; a range may begin,
  end or have a gap at, before or behind the id of the user inside, for an
  `inner` equal to and below `RUNTIME_UID`. Each level consumes an id, so four
  levels meet ranges that run out. `MaxWord` is larger than any end that occurs;
  the theorem covers an overflow.
* `launch`: the directories lie under each root the code distinguishes (`~/src`,
  `~/projects`, `HOME` itself, elsewhere, `/`), with and without a colon, for a
  `HOME` that is and one that is not the guest home. Two flags are enough for one to
  override another. The names are new ones, one the launcher has a value for, the GPU
  default's, the script's own, all of the launcher's own (given alone, against each
  of its optional flags), one the service has, one the login sets, one it unsets, a
  read-only one and bad ones. One login touches nothing, one sets and unsets. The number of launches is not bounded: the state has all
  residues they can leave.
* `wire`: 21 bits hold an op, a count, two strings with their padding and the
  beginning of the next op; the caps are passed by one; a string of 3 has no
  padding and one of 4 the most.

Two runs switch off deadlock checking, `subids` (the depth is bounded) and `wire`
(a stream ends).

### Findings

* `SessionCapIsHostCap` states the comment at `proxy.rs:22-23`, that the cap on
  sessions also caps the connections to the host daemon. A fill dials a
  second connection without a permit, so `MaxSessions` sessions may hold up to
  twice as many; TLC shows the trace and `DescriptorsBounded` (checked and proved)
  gives the bound that does hold.
* `AgentStartsInProject` states `README.md:88`, that a command runs in the project
  directory. The service script reads the project's path into its variable
  `PROJECT` (`guest-module.nix:51`), sources the session environment after that
  (line 60) and then changes to `"$PROJECT"` (lines 66 and 86): with `-e PROJECT=tmp`
  the command runs somewhere else. `MODE` and `COMMAND` are taken over alike.

Observations that no run reports as a violation:

* The comment at `claudepod-start.rs:185-188` says that nested mountpoints are made
  by the launcher. The one of `~/src` (lines 214-215) and those of explicit `-v`
  volumes are not: podman makes them, and they belong to the container's root.
  `ResidueOnlyAskedFor` says that nothing else does: the one directory it exempts by
  name is `src` in the backing directory of launches without a sandbox.
* Of the names that the launcher uses for the entry only `CLAUDEPOD_AGENT_ENV_NAMES` is
  refused (`claudepod-start.rs:958`). `-e` flags of the others are accepted and
  overridden by the launcher's own, which come later (lines 337-360): always for
  `CLAUDEPOD_STORE_LAYERS`, `USERNAME`, `TOPLEVEL`, `PROJECT_PATH` and `MODE`, so the
  session sees the launcher's value and not the selected one. `CLAUDEPOD_VERBOSE`, `USB`
  and `TIMEZONE` the launcher sets only when it has something to say; otherwise a
  user's `-e CLAUDEPOD_USB=1` acts on the entry (`claudepod-entry.rs:54`, `117`, `209`)
  as the option would, without the devices the option binds.
* A selected variable does not have the last word in the session: the login shell
  comes after it, and what `/etc/profile` sets (`PATH`, for one) is the profile's.
* `-e COMMAND=x` replaces the first word of what is started, and never shows in the
  session: `COMMAND` is an array of the script, which bash does not export.
  `-e UID=x` passes every check, and the service script ends on it.
* The comment at `guest-module.nix:82-84` says that direnv is deliberately not loaded
  for the agent. The login shell of line 85 runs `loginShellInit` (line 244), which
  evaluates direnv before the `cd "$1"`, in the directory the service starts in. The
  unit names none, which leaves `/`: nothing is loaded unless that has an `.envrc`.
* A pid that comes again while the proxy of its last owner is leaving may lose its
  socket to that proxy's last unlink, which goes by path
  (`claudepod-nix-proxy.rs:54`). `SocketThereToMount` excludes the case.

## 4. Fairness

| Module | Fair | Because |
|---|---|---|
| `ProxyServe` | weak on acquire, wake-up and the magic's timeout; strong on accept | the runtime polls its tasks and its timers run. Every accept error disables `Accept` for a while, so it needs strong fairness; the comment at the error path calls those errors transient, which says just that. Sessions are *not* fair: an idle pooled connection keeps its permit. `QueueServedWhileSlotsRecur` therefore has the hypothesis that slots become free again and again. |
| `ProxySession` | weak on the session's steps, on the guest *reading*, on the daemon and the fill | The guest's sending is not fair: it may stop in mid-request for ever. Timeouts belong to the session's steps. The daemon goes on or dies: the code puts no timeout on it. |
| `ProxyHandshake` | weak on session, daemon and a guest that talks | it may stop talking at any moment (`health`), and then only the timeouts help. |
| `ProxyLifecycle` | weak on each proxy's own steps | it is a scheduled process. Nothing is assumed of launcher, podman or guest. |

The other modules state safety properties only and assume no fairness: nothing
in `RunRootsManifest`, `NestedStores`, `SubIds`, `GuestLaunch` or `Wire` waits for
somebody else without a peer that may stop for ever.

## 5. The proofs

All theorems are for every value of the constants under the ASSUMEs of the
modules; TLC evaluates these in the runs. The modules for state machines share a
shape: an invariant `IInv`, `Init => IInv`, one step per action for
`IInv /\ [Next]_vars => IInv'`, and the properties as consequences. Some theorems
prove properties that no run states any more (`ServeTypeOK`, `ServeUnlinkProvesMount`,
`SessionFetchesListed`, `ManifestPublishedWhole`, `ManifestNeverUnpublished`, the other
`TypeOK`s): they hold for every instance, so a run would add nothing.

**`ProxyServeProofs`, the accept loop** (any `Clients`; `MaxSessions`, `BacklogMax`
positive). `TypeOK`, `PermitsConserved`, `DescriptorsBounded`, `NameGoneWhenServing` and the
action property `UnlinkProvesMount`. `PermitsConserved` (permits + held + running
= `MaxSessions`) is about cardinalities; the lemmas say what a change of one
client's phase does to the size of the set of running sessions. The descriptor
bound is not inductive by itself: it follows from conservation.

**`ProxyServeProofs`, the process** (`ProxyLifecycle`; any number of runs).
`LifeTypeOK`, `NoUnsignalledOrphan`
and `StaleNameNeverBlocks`; `SocketThereToMount`, which speaks of behaviours without
`reuse`, those where a pid does not come again while the proxy of its last owner
is still leaving. The invariant says that the pid's owners are over in order, that
a proxy which passed the getppid check with a dead parent has its signal, and who
may bear the name.

**`ProxySessionProofs`, the buffers** (any paths, manifest, requests and bounds). `TypeOK`,
`NothingWithheld`, `HostSeesOnlyQueries`, `FetchesListed`, and the action property
`InvalidOnlyAfterFill`.
* `HostSeesOnlyQueries` speaks of the socket. It is not inductive: what
  reaches the socket was in `hw` before, and what may be in `hw` depends on how
  far the request has been read. The strengthening bounds the contents of `hw`
  and ties `kind` to `pc`.
* `NothingWithheld` (at every place where the session waits, the buffer of the
  party it waits on is empty) needs the buffers' contents at *every* place,
  since a flush happens some steps before the wait.
* `FetchesListed` needs that `path` is in the manifest from the decision to fill
  until its end, and that orphans come from there only.
* `InvalidOnlyAfterFill` needs no more than the invariant: lemma `InvalidIsLate`
  goes through the steps that append an answer and what each can append.

The proof has one lemma per way to leave an op (hang up, reply, reject, send to
the host), which the steps of the single actions cite.

**`ProxySessionProofs`, the framing** (any paths, manifest, requests and bounds).
`HostLegAtBoundary`, `GuestLegAtBoundary`, `GuestNeverDesyncs`, `AnswersInOrder`, and the
refinement `Spec => ImplementsStoreQuery`. Nothing on a leg says how long a message
is, so no bound on lengths or on the contents of single tokens is inductive. The
proof gives each leg a grammar, as the steps of an automaton, and the invariant
says that what lies on the leg, buffers included, is a run of it from the place
of its reader to the place of its writer (`Run`, with lemmas on reading a token
and on concatenation). Reading or writing a token then moves one end of the run.
* `HostUnder`: the host's leg holds nothing between exchanges; in one, it holds the
  request or the rest of the reply. What replies are possible depends on the
  daemon's latest look (`HostGrammar`), so the invariant also says that the result
  the session reads is the one the daemon saw.
* `RequestsUnder`: what the guest has sent and has still to send spells its requests
  from the one being read on, and the op being served, with its path, is the
  request whose turn it is. A guest that hung up leaves a beginning of that.
* `RepliesUnder`: what is under way to the guest takes its parser from where it
  stands to where the session stands in its reply, and each token that ends a
  reply stands for the answer given at that place. The two grammars of the guest's
  leg grow with its requests and the answers, and only grow.
* The refinement adds `ServiceUnder` (a fill in its place only, a re-check after a
  look, no substitution forwarded). The mapping takes the store, requests,
  answers and the latest look as they are, *open* as "not closed", and the granted
  fetches as the fill that has been asked for and the orphans. The daemon's run of
  a request maps to `Look`, `FillAsk` to `Grant`, the end of a fill and of an orphan to
  `Fetch`, each reply to `Answer`, each hang-up to `Close`; relayed logs, buffers and
  everything else on a wire map to a stutter (`Unseen`). The hard step is `Answer`:
  that the word read is the latest look is what `HostUnder` is for.

**`ProxyHandshakeProofs`** (any versions and features, of three parties).
`TypeOK`, `LegsAgree`, `DaemonOnlyForSpeakers`, `LoopStartsClean`. Each of the three
parties computes its own minimum and intersection from what it has read, so an
invariant over results would not do: the strengthening says, for the session's
place and that of its peer, what every buffer and socket of a leg holds, up to
the last token (`GuestUnder`, `HostUnder`), and what each party has kept so far. A
leg is disturbed by its own two parties only (lemmas `GuestLeg`, `HostLeg`); `Onward`
and `ClosedIInv` cover what the session's steps have in common, going on and giving up. The only
assumption on the numbers is that the daemon's version fits in two bytes.

**`RunRootsManifestProofs`** (any pids, files and number of losses). `TypeOK`,
`PublishedWhole`, `ValidatedStays`, `NoLitter`, the action property
`NeverUnpublished`, and the refinement `Spec => ImplementsCell`. `PublishedWhole`
is not inductive: the renamed file has to be whole *and synced* before the
rename, which rests on the progress of the build (`Progress`), on nobody else
writing to that file or having it open (`Exclusive`), and on the directory's
disk state bearing whole files only (`Published`). The refinement maps the
rename to `Publish`, a power loss to `PowerLoss`, the proxy's load to `Fills`, and
everything else to a stutter or to the end of a run; the lemmas `GrantMoves` and
`CellStays` say how the mapped state follows from place and file.

**`NestedStoresProofs`** (any number of containers, paths and contents). `TypeOK`,
`MountNeverFails`, `StackIsInherited`, `ValidMatchesFiles`. The proof has two halves, like
the module. `MountsInv` is about lists: what a container was given is one short
name and one plain directory per layer of its parent, what it leaves is the same
list with its own layer in front, and the store of a running level is the chain of
those it was launched from; the lemmas on `Join`, `Parse` and `Trim` say that they
undo each other. `FilesInv` has a witness for the other half: a valid path is
shown from some layer of the stack that holds the files the database describes
(or a whiteout), no layer above it knows the path, and every level down to it has
registered the same. That last part is what a collection could break, and what
`Collectable` is about.

**`SubIdsProofs`** (any ids, ranges and depth). `DelegatesAllAbove`,
`UserStaysApart`. The
ranges of a file lie apart, so their offsets (cardinalities of the sets of ids
before them) lie at least a range's length from each other; therefore the lines
of a map lie apart *inside*, which is what makes the derived file a set of
disjoint ranges again, and so on at every depth. Finiteness, which the
cardinalities need, comes from the check against overflow.
`UserStaysApart` is about the composition of all maps down to the host. `Translates`
says of one map that it takes its user to the user one level up, every other id
to a delegated one, and no two ids to the same; the induction over the level is on
`ApartAt`, the property with the ids that a level knows, and `OnHostOneUp` says that
who an id is on the host is who its parent id is there.

**`WireProofs`** (any base and width of words, any caps, any stream). `CopiedVerbatim`,
`FramingKept`. The bytes may come in any pieces and may end anywhere.
* `CopiedVerbatim` (what is written is a prefix of what was read, all of it up to
  the last whole item) has two grounds: a word that was parsed and is encoded anew
  is the same bytes (`EncodedValue`, digit by digit), and padding is
  written only after it was compared with zeros. The invariant `Copied` says at each
  place how far the copy is behind the reading.
* `FramingKept` compares the session, which goes forward, with the function that
  cuts a whole stream into messages. `Framed` has a witness: a sequence of message
  ends, and within a message of string ends, that reaches the place where the
  session is. It grows with each item and no later byte changes it; at an end it is
  compared with the recursive functions of the property, value by value.

**`GuestLaunchProofs`** (any homes, invocations, user and environment of the host).
`ProjectReachesGuest`, `EnvReachesAgent`, `ResidueOnlyAskedFor`. The inductive
invariant is short: at each phase, what was computed is what the invocation makes
of it. The work is in what the functions compute.
* `ProjectReachesGuest`: which volume is deepest over the project's path. No volume of
  the launcher's is in its way, since `~/src` is shared or the project has a volume
  of its own. The proof showed the one exception: a project in `~/src` has no
  volume, so an explicit `-v` volume on it or above it hides it (`Hidden`), as its
  user asked. The property excludes that case.
* `EnvReachesAgent` goes through four syntaxes. What it promises is bounded by two
  programs that come after the user: the launcher, whose own flags follow
  (`FlagsSay`, from `JoinTells`: who speaks last in two lists of flags one after the
  other), and the login shell (`LoggedInKeeps`: it keeps what no login touches). `EnvironmentIs`: of the flags with one
  name the last that has a value decides. `JoinNamesIs`: the joined list of names comes
  apart into the names. `QuotedRuns`: read by the shell, a quoted value is the value,
  for any characters in it, by induction over them; `LineRuns` and `SourcedLines`
  extend it to lines and the file. `Runs` says that a piece of text takes the shell
  from one state to another, and such pieces concatenate (`RunsJoin`).
* `ResidueOnlyAskedFor`: a mountpoint is made in the deepest volume above it. The
  project's volume lies over none of the launcher's others (`ProjectNotAbove`), so what
  they need is made in the home: `~/src`, and the directories on the way to the
  project, which the launcher has made as the user (`ResidueOf`).
  Here the proof corrected the model: what podman makes for a volume that lies *in*
  an explicit one counts as asked for (`Explicit`).

**Recursive functions.** The library's induction theorems take an operator as a
parameter, which the provers cannot instantiate. Induction over *sets* of naturals
needs no operator: `NatBySets` follows from the well-founded order on them (`WFMin`). A
recursive function over `0..n` is a CHOOSE; that a function with these steps exists
is lemma `Iteration`, again by that induction, so the chosen one has the steps too.
`SubIds`, `Wire` and `GuestLaunch` are proved in this way, and write their recursion
as functions.

## 6. Only model-checked

* **Liveness** (`QueueServedWhileSlotsRecur`, `StallersDoNotStarve`,
  `AnswersArrive`, `HangupEndsSession`, `RequestsSettled`, `HandshakeEnds`,
  `ProxyEndsWithSession`, `NameReclaimed`): liveness under fairness, and `ENABLED`,
  are out of the proof system's reach.
* Nothing else: every invariant, action property and refinement that a passing run
  checks is the statement of a theorem.
* RECURSIVE operators are out of reach too; no module uses them.

## 7. Not modelled

* Ports, devices and GPU arguments of the launcher, and how it finds the host's time
  zone: each option is turned into arguments by itself, with no state and no part
  in another option. The USB and time zone links of the entry and its log level,
  likewise; the variables that ask for them are modelled as variables.
* The start-up files of the login shell in the guest, and direnv in them: `Logins`
  stands for what they may do to variables. That they may fail, or end the session,
  is the `End` of a launch.
* The manifest's line parser and the syntax check of store paths: the session
  models have `Manifest` as an arbitrary set of paths, and `ProxyLifecycle` lets the
  load fail.
* Socket capacity. A guest that stops *reading* without hanging up blocks the
  session in a flush; the models let sockets grow.
* The fields of a stderr message, one by one: `ProxySession` has a message as a
  token. They are read with the primitives of `Wire`.
* A host daemon that goes silent without closing: the code has no timeout for it,
  and the fairness of the models excludes it.
* `claudepod-e2e` and the nix files other than the service script: test and
  packaging.

## 8. What is left

1. Composition: the session behind the handshake, and the accept loop over
   sessions (the phases of `ProxyServe` as a refinement of `ProxyHandshake` and
   `ProxySession`). Today the modules meet at stated interfaces: `LoopStartsClean`
   and `LegsAgree` are what `ProxySession` starts from, its end is the `Finish` of
   `ProxyServe`.
2. Proofs: with 1., that the composed system refines its parts. The lemmas on
   induction and iteration, which three modules of proofs have, in one of their own.
