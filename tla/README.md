# PhantomProxy: TLA+ models, model checking and proofs

PhantomProxy is an MTProto proxy for Telegram: it hides the protocol in a fake TLS
session, relays the traffic to a Telegram DC (directly, through a second proxy, or
through Telegram's middle proxy), and is administered while it runs. This directory
models the parts whose correctness depends on interleavings, timeouts, failures and
stream boundaries. Paths below are relative to the repository.

## 1. Inventory

| Component | Source | State | Operations | What makes it correct |
|---|---|---|---|---|
| Listener and shutdown | `internal/proxy/server.go`, `listen.go`, `relay.go`, `cmd/proxy/main.go` | `Server.ln`, `lnMu`, `wg`, signal context | `Serve`, `RebindListenIfNeeded`, `Shutdown`, the `ctx.Done` goroutine | no socket is leaked, the loop follows `ln`, counted connections are drained |
| Per-IP limit | `internal/limit/connlimit.go` | counts per address, `Runtime.Limiter` | `Acquire`, `Release`, replacement on reload | no slot is lost, the limit is kept, refusals are justified |
| Connection handler | `internal/proxy/server.go`, `internal/faketls/fronting.go` | read deadline, `ReadRecorder`, position in the stream | `handleConnection` and everything below it | every path ends, streams are passed on whole, statistics balance |
| Probe blacklist | `internal/probe/blacklist.go` | probe times, blocks | `IsBlocked`, `RecordProbe`, purge | blocks are justified by probes in one window |
| Anti-replay | `internal/faketls/replay.go`, `client_hello.go` | cache of hellos | `Check`, eviction, timestamp test | a hello is accepted once |
| Users, settings, file | `internal/user`, `internal/runtime`, `internal/config` | `Manager.users`, `Runtime.Config`, YAML file | add, update, remove, `PersistUsers`, `UpdateSettings`, `Reload` | acknowledged changes stay, memory and file agree |
| Admin API, WebUI | `internal/admin` | none of its own | requests that call the above | as above |
| Relay tunnel | `internal/relay/tunnel.go` | handshake, frame counters | `DialFront`, `acceptBack`, `frameConn` | no silent loss, no false end of stream |
| Relayed session | `internal/proxy/server.go` (`pipeTraffic`), `internal/obfuscated2` | two copying goroutines | copy, half-close, close | order, complete end of stream, sessions end |
| Middle proxy | `internal/middleproxy` | CBC buffer, sequence numbers, endpoint list | `Dial`, `readFrame`, `writeFrame`, `intermediateConn` | framing never loses step, answers are not held back |
| HTTP fallback | `internal/fallback` | none | serves a page | sees the request as it was sent |
| TLS records | `internal/faketls/record.go`, `client.go`, `internal/obfuscated2` | chunk policy, `readBuf`, key streams | `Read`, `Write`, `CloseWrite` | sizes in range, the key streams stay in step, a byte stream from end to end |
| PROXY protocol | `internal/proxy/proxyproto.go` | none | `acceptWithProxyProtocol` | a preamble costs at most its own connection |
| Service removal | `internal/service`, `cmd/proxy/main.go` | the systemd unit | `ScheduleUninstall`, `Uninstall`, `RunScript` | an accepted removal takes effect |
| Rotation of fingerprints, ServerHello and SNI | `internal/faketls` | index, failures, time of the last change | `Pick`, `RecordFailure`, `RecordSuccess` | not modelled, section 7 |
| Upstream dialing, metrics, test DC and client | `internal/upstream`, `internal/metrics`, `internal/testdc`, `internal/testclient` | | | |

How they interact. `Serve` takes a slot from `Runtime.Limiter` and starts one goroutine per
connection; the goroutine asks the blacklist, the replay cache and the user manager, which
all goroutines share, and ends in a session (`pipeTraffic`) over a direct connection, a
tunnel or the middle proxy. Admin requests run in goroutines of their own and change the
user manager, `Runtime.Config`, the limiter, the blacklist, the replay cache and the
listener under these connections' feet; `Reload` replaces the objects whole.

What is hard. `s.ln`, `rt.Limiter` and `rt.Config` are read at one moment and used at a later
one; a deferred `Release` reaches whatever limiter is there when the goroutine starts;
`Reload` is several steps without the lock that `UpdateSettings` holds; a save truncates
the file in place; one read deadline serves several protocols in turn; optional parts of a
handshake are read with a timeout; frames meet 16-byte blocks and pieces cut by `io.Copy`;
the accept loop itself reads a client's PROXY line; the service is stopped by a part of itself.
`PROJECT.json` lists each hazard with its line and the properties aimed at it.

## 2. Modules

Each component module can be read alone; `MC…` modules add the symmetry sets and address
sets of the configurations; `…Proofs` modules hold the theorems.

| Module | Models | State ↔ code |
|---|---|---|
| `ConnSlots` | `Acquire`, `Release`, the new limiter of `Reload` and `UpdateSettings`, the accept loop around them | `counts[g][ip]`: the map of the g-th limiter; `acq`, `rel`: which limiter a connection took its slot from and which one its `defer` was bound to |
| `ListenerLifecycle` | `Serve`, `acceptWithProxyProtocol`, `serveRelayBack`, `RebindListenIfNeeded`, `Shutdown`, `runServer`'s select | `ln`: `Server.ln`; `loop`, `closer`, `main`, `rpc[r]`: program counters of the goroutines; `open`: sockets the kernel has open; `addr[l]`: where each is bound, in back mode `relay.listen_*` for the one `ServeBack` accepts on, which is never `ln` |
| `ConfigStore` | `user.Manager`, `Runtime.UpdateSettings`, `PersistUsers`, `Reload`, `config.Save` and `Load`, the WebUI's two-step toggle, crash and restart | `users`, `maskHost`, `ja`: the manager; `cfg`, `limit`: `Runtime`; `disk`: the file, `Empty` while it is truncated; `mu`: holder of `Runtime.mu` |
| `AntiReplay` | `ReplayCache.Check`, `evict`, the timestamp test, reload | `gen`: which cache `Runtime.Replay` is; `seen[g]`, `at[g]`: the entries of each; `mine[c]`: the cache a connection has read; `chk[c]`: the `time.Now()` taken before the lock |
| `ConnHandler` | `handleConnection`, `handleFakeTLSPath`, `handleRejectedTLS`, `relayMTProto` with its dials, the middle proxy's included, `Blacklist`, `Tracker` | `pc[c]`: step of the goroutine (`upstream`: in `RoundTrip` of the fallback); `sock[c]`: the read deadline, what was read, recorded and passed on; `threshold`, `counts`, `blocked`: the blacklist of the last reload, `counts` as the connections whose probes it holds |
| `ByteStream` | abstract: what one direction of a connection promises. What is written is delivered in order and once; a clean end is seen only after all of it; it may break at any time | `sent`, `fin`, `got`, `end` |
| `RecordPolicy` | `Normalize`, `chunkSize`, `chunkSizeWithMax`, `outboundChunkSize`: pure functions, a random size is the set of its values | none |
| `RecordLayer` | `obfuscated2.Conn` over `RecordConn`, one direction, both ends | `enc`: position of the writer's key stream; `out`: rest of a `Write`; `wire`: records under way; `readBuf`; `plain`: what `Read` returned, deciphered |
| `FrontPath` | composes `RecordLayer`, the upload half of `pipeTraffic` and `RelayTunnel` | the variables of both, `frames`: the payloads of the tunnel's frames, and `handed`: what the back's handler has read |
| `ServiceUninstall` | `handleServiceUninstall`, `ScheduleUninstall`, `Uninstall`, `RunScript`, systemd as external | `pc[r]`: a request and its goroutine; `proc`, `unit`, `enabled`, `installed`: the host |
| `RelayTunnel` | `DialFront`, `acceptBack`, `frameConn` | `arrived`, `rd`: units of the stream that TCP delivered and the back consumed |
| `SessionPipe` | `pipeTraffic`, `closeWriteHalf`, in a chain of proxies | `socks`, `wrapped`: connections without `CloseWrite`; `ch[d][link]`: TCP queues; `copier[p][d]`: the copying goroutines |
| `MiddleProxy` | `Dial`, `handshake`, `cbcConn`, `readFrame`, `parseProxyAns`, `intermediateConn` | `line`, `sock`, `buf`: words under way, arrived, decrypted; `phase`: where `readFrame` is; `wbuf`: bytes of the client not sent yet; `up`: where its `Write` is; `ends`: where the ME's frames end (history) |

Abstractions shared by all: bytes are segments, units or words, as coarse as the parsers'
decisions allow; cryptography is an outcome (a digest is right or wrong, a frame opens or
does not, a key stream is in step or not); logging, metrics and wording are left out. Each module's heading says what its
data stands for. Variables marked "history" are read by properties only. Definitions marked
"Mutant" are plausible bugs of the definition that follows; no specification uses them.

## 3. Runs

Every run is `tlc -workers 2 -config X.cfg M`.

| Run | Configuration | What it shows |
|---|---|---|
| `slots` | `ConnSlots.cfg` | four connections of two addresses, limits 0, 1 and 2, the limiter replaced at any moment. `NoStuckSlot`: the limiter in force never counts a slot whose holder is gone. `OvershootBounded`: an address exceeds the limit only by releases that hit a newer limiter. `RefusalJustified`: no refusal below the limit |
| `listener` | `Listener.cfg` | two concurrent admin requests, a connection with or without a PROXY preamble, a signal at any moment, both relay modes, wildcard and interface addresses on the same port. `NoListenerLeak`, `DrainedOnExit`, `AckedIsServed`: an administrator who waits for start-up and for replies finds the proxy accepting where the configuration says, and nowhere else; and `LoopFollowsListener`: the accept loop leaves a replaced listener, which is only woken by the close that ends a rebind |
| `preamble_error` | `PreambleError.cfg` | expected violation, see section 6 |
| `config` | `ConfigStore.cfg` | two request slots over all user operations, settings, reload, edits of the file, failing opens and writes, crashes. `AckedUserKept`, `SettingsAgree`, `UsersAgree`; `TypeOK` includes that `Runtime.mu` is given back on every path |
| `config_last_user` | `ConfigLastUser.cfg` | expected violation, see section 6 |
| `replay` | `AntiReplay.cfg` | three connections present up to three hellos, stamped in the second the clock starts in or the one before, over caches of one entry, until after the first entries expire, with a reload at any moment, also between reading the cache and checking. `OldHelloOnce`, `CacheBound`, of every cache |
| `handler` | `Handler.cfg` | two connections of the four kinds that reach the handshake (`ee`, `dd`, a bad hello, a bad inner header) on one address, through every fronting action, dialing DCs directly or through the middle proxy, with a blacklist whose threshold reloads change. `StatsExact`, `SpliceInOrder`, `RelayOutlivesHandshake`, `BlockedJustified`, and `HandshakeBounded`: a silent client is closed, on the HTTP paths as well, unless somebody else is waited for |
| `fallback_stream` | `FallbackStream.cfg` | expected violation, see section 6 |
| `path` | `Path.cfg` | up to five bytes through five record policies (absent, crossed and oversized limits, with and without ramp and Split-TLS), two buffer sizes, foreign records, resets, both kinds of fronts, right and wrong key, every delay. `RecordsFit`; the refinements `RecordsAreStream`, `TunnelIsStream` and `PathIsStream` of `ByteStream`; `ClientEndReachesBack` |
| `pipe` | `Pipe.cfg` | front and back between client and DC. `SessionIsStreams`: both directions refine `ByteStream`; `SessionEnds`, `AnswerEnds` |
| `middle` | `Middle.cfg` | every sequence of three frames of ten kinds down and four kinds up, two endpoints. `AnswersInOrder`, `NoFalseEnd`, `PromptDelivery`, `UploadExact`, `SeqConsecutive` |
| `uninstall` | `Uninstall.cfg` | expected violation, see section 6 |

`CHECK_DEADLOCK FALSE` everywhere: a process that has exited, and a bounded number of
connections that are all closed, have nothing left to do.

Bounds. Two requests are enough for each pair of critical sections to meet, and the races of
the code are between pairs; three connections let one hello be refused, evicted and shown
again, and overfill a cache of one entry; `MaxGen = 1` in `ConnSlots` and in `AntiReplay` is one replacement, and the theorems remove the bound. `RelayAddrs`
is one address of a port that one of the listen addresses has as well, so that a back's own listener
both meets and does not meet the one a rebind opens.
Clocks run just past the longest interval that matters: `AntiReplay` in half seconds, because
the cache measures ages and the timestamp test compares whole seconds; `ConnHandler` past
window and block. In `MiddleProxy` frames of 3 to 11 words cover every position of a frame in
a block. In `FrontPath` the limits of record sizes are scaled down and keep the order they have in the
code (default minimum < initial chunk < default maximum < record); five bytes are more than a record and a
ramp, and `MaxFrames` is large enough never to bind (`FramesEnough`). Frames and blocks of `RelayTunnel` and `SessionPipe` are numbered, so a loss, a
repetition or a swap shows with two of them.

Symmetry is used in runs without temporal properties only, over connections, requests,
addresses, names and settings, none of which any definition orders or singles out. (`slots`
checks one action property, which symmetry does not disturb.)

Fairness. `ListenerLifecycle`: the Go scheduler runs goroutines that can run, `Accept` on a
closed listener returns, and a connection between `Accept` and `go` gets through; no signal, request,
client or end of a session is assumed, nor that `Accept` on an open listener returns or that a
PROXY preamble ever comes (`LoopFollowsListener` names that wait).
`ConnHandler`: time passes, deadlines fire, a dial ends (every dialer has a timeout) and the error
paths run; a client never has to send anything, a middle proxy never has to answer its handshake and the
fallback's upstream never has to answer a request. Both are waited for without a deadline, and after a
failed dial of the DC the deadline is gone: `HandshakeBounded` names the three waits and leaves them out.
`FrontPath`: the front's copy and the back run, TCP delivers and the back's 200 ms pass; the client
need not write, close or reset. `SessionPipe`: each proxy's goroutines run, the client reads, and the
DC, which is not this program, reads and answers an end of stream with its own.

Refinement. `ByteStream` is the one abstract specification of all stream code. `RecordLayer` maps
`sent` to the bytes enciphered and `got` to what came out deciphered, where a byte read with a key
stream out of step is 0, so a loss anywhere before shows. `RelayTunnel` maps frames, `SessionPipe`
each direction's blocks. `FrontPath` maps the client's bytes to the bytes in the frames the back
handed on. An end that follows a reset needs care: `pipeTraffic` passes a failed copy on like one
that ended, so a clean end at the back speaks for the client only if the client's own connection
ended cleanly; `PathEnd` says so. In the same way a record cut right behind its header looks like an
end to `RecordConn.Read`, and `RecordEnd` counts an end only if the writer closed.

## 4. Proofs

Eight modules hold theorems checked by TLAPS. They hold for every value of the constants under
the named `ASSUME`s, which TLC evaluates on every run: sets of connections are finite, limits and
bounds are natural numbers, names differ, the frame kinds of `MiddleProxy` are ones whose sizes the
module gives (`Bounds`), a record policy is a record of natural numbers and a read buffer is not empty
(`RecordBounds`), and the bound on frames of `FrontPath` is not below its bound on bytes
(`FramesEnough`). Every invariant, action property and refinement that a passing run checks is a
theorem. Each inductive invariant is defined at the end of its component's module, so TLC can check
it as well; the proof modules have one lemma per action or group of actions.

- `ConnSlotsProofs`: `TypeCorrect`, `NoStuckSlotInvariance`, `OvershootInvariance` and the
  action property `RefusalIsJustified`. `NoStuckSlot` is not inductive: a release must be
  known to find the limiter it acquired from or a newer one. `SlotInv` adds that order
  (`GenOrder`), that limiters not yet installed count nothing (`FreshCounts`) and, per
  address, the two-sided account of the count (`Accounting`): at most the holders, at least
  the holders less the stray releases.
- `ListenerLifecycleProofs`: `TypeCorrect`, `NoListenerLeakInvariance`, `DrainedOnExitInvariance`,
  `AckedIsServedInvariance`. `LeakInv` adds that `Serve` stores into an empty `ln` unless a rebind
  overtook it, and that a request replaces a listener at most once. `DrainInv` says that the
  wait group counts the active connections and that the only uncounted one is in the hands
  of the accept loop; it also yields the part of `TypeOK` that is not obvious, `wg` never
  below zero. `WaitingInv` is what an administrator's patience buys: one request in flight, which
  compares, binds and installs the address that is configured. `ServedInv` adds that only a
  stopping proxy leaves the loop and that, until then, nobody closes the listener that is or is about to be
  `s.ln`; with `LeakInv`, `s.ln` is then the only open listener between two requests, so the loop cannot wait on another.
- `AntiReplayProofs`: `TypeCorrect`, `OldHelloOnceInvariance`, `CacheBoundInvariance`.
  `ReplayInv` says of each cache that a connection that passed its check is still guarded by its own entry or
  its TTL has run out, and that two that passed it with one hello did so more than a TTL
  apart, measured from the first one's `time.Now()` to the second one's hold of the lock.
- `ConfigStoreProofs`: `TypeCorrect`, `AckedUserKeptInvariance`, `SettingsAgreeInvariance`,
  `UsersAgreeInvariance`. The three properties speak of quiet moments, so none is inductive. `StoreInv`
  says what holds in between: what each request carries (`ReqInv`), that a reload without `overlap` runs
  alone (`ReloadAlone`), that every copy of the user list, in use, in the file, in a save under way or in a
  reload about to be applied, has the acknowledged users (`KeptInv`), and how far a change of settings or
  a reload has come (`AgreeInv`).
- `ConnHandlerProofs`: `TypeCorrect`, `StatsExactInvariance`, `SpliceInOrderInvariance`,
  `RelayOutlivesHandshakeInvariance`, `BlockedJustifiedInvariance`. `HandlerInv` adds that a connection is served
  once and at its end (`StatsInv`, which lets cardinalities change by exactly one), that the recorder holds
  everything read until the handler gives up or relays, and that `relayMTProto` has cleared the deadline before
  it dials (`SockInv`), and that each recorded probe belongs to one connection of that address and lies
  in the past (`ProbeInv`). The blacklist keeps the set of connections whose probes an address
  has, each with its time in `rec`; a connection is recorded once, so set and list have the same size.
- `SessionPipeProofs`: `TypeCorrect` and the refinement `SessionRefinesStreams`, for a chain of any length.
  `DirInv` gives each link of a direction two numbers, the blocks written to it and read from it; a link holds
  exactly the blocks between them, a copying goroutine holds at most one, and an end of stream on a link means
  that the whole stream has passed. All of it is claimed of links whose reader is still there: what is
  written to a closed connection is lost, and `ByteStream` sees that as a break.
- `FrontPathProofs`, about `RelayTunnel`, `RecordPolicy`, `RecordLayer` and their composition:
  - the tunnel: `TunnelTypeCorrect`, `DeliveredPrefixInvariance`, `CleanEndInvariance`, `TunnelRefinesStream`.
    `TunnelInv` ties the frames handed on to the units consumed after the handshake, and says that a back that
    lost bytes has handed on none;
  - sizes, for all limits in the configuration: `NormalizeFits` and `NormalizeIdempotent` (the code normalizes up to
    three times on the way to a chunk), `ChunkFits`, `RampBounds`;
  - records: `RecordsFitInvariance` and `RecordsRefineStream`. `RecInv` places every record on the wire at a position
    of the stream (`WireInv`): the records, what the reader keeps and what the writer has left lie one after
    the other, so the reader's key stream is always where the writer's was;
  - the path: `PathTypeCorrect`, `PathHops` and `PathRefinesStream`. A step of the path is a step or a stutter of
    each hop, so what is proved of a hop holds in the composition; `FramesInv` places every frame of the
    tunnel in the client's stream, and `CopyInv` says that a copy which ended at a record's boundary has read everything.
- `MiddleProxyProofs`: `TypeCorrect`, `AnswersInOrderInvariance`, `NoFalseEndInvariance`, `PromptDeliveryInvariance`,
  `UploadExactInvariance`, `SeqConsecutiveInvariance`, for any number of endpoints and of frames. `WordInv` says that the
  ME's frames lie one after the other on whole blocks and that what is left to read is what the ME wrote;
  `ReaderInv` says at which word of which frame, or in which padding, each step of `readFrame` stands;
  `UnitsInv` that `wbuf` begins with the frame that is sent next and goes on without a gap into what the client
  has not handed over; `DialInv` what each step of the handshake has written.

What the proofs changed in the models. `BlockedJustified` counted connections that were never recorded as
probes at time `Never`; the step that should have preserved it could not be proved, and it now requires a
recorded probe. `handed` in `FrontPath` and `ends` in `MiddleProxy` are histories that replace recursive
definitions over sequences. The loop of `intermediateConn.Write` is one action per frame, as in
the code, instead of one computed result; it goes on after the download has ended, since `pipeTraffic`'s two
goroutines end each for itself. `ReadSeq` counts a frame whose number is right even if its length is not,
as `readFrame` does.

Only model-checked: the liveness properties (`LoopFollowsListener`, `HandshakeBounded`,
`ClientEndReachesBack`, `SessionEnds`, `AnswerEnds`), since fairness and ENABLED are out of this
prover's reach; and the four properties that are expected to fail.

## 5. Plan

1. Done: the core modules, their runs, the first theorems.
2. Done: the PROXY protocol in the accept loop, TLS records and their sizes, the key streams, the
   abstract byte stream and its refinements, the front's path as a composition, the middle proxy's dial
   in the handler, the WebUI's toggle, the removal of the service.
3. Done: every invariant, action property and refinement of the passing runs is a theorem.
4. Next: the safety part of the liveness properties, where one can be stated (that a wait always has someone
   to end it, as for `SessionEnds` and `HandshakeBounded`); more action properties; lemmas shared by the
   stream proofs.

## 6. Disagreements with the documentation

Four are runs that TLC must find violated:

- `config_last_user`: `UpdateUser` (and `RemoveUser`) change the list before they look for an
  enabled user. The request fails, the change stays, and the next save writes a file that
  `config.Load` refuses; `docs/CONFIG.md:99` requires an enabled user.
- `fallback_stream`: with `protocols.secure`, the 64 bytes read for the secure header are not
  given to the HTTP fallback except the first; `README.md:16` promises foreign connections
  the site.
- `preamble_error`: with `listen.proxy_protocol`, a preamble that cannot be read (a reset before six
  bytes, a line without its end, fewer than six fields) makes `acceptWithProxyProtocol` return a nil
  connection, on which `Serve` calls `Close` (`server.go:95`): the process panics. Only an end of
  stream before six bytes is handled. `docs/ARCHITECTURE.md:152` describes how the process ends.
- `uninstall`: `docs/API.md:200` says that the request stops and disables the service. `Uninstall` runs in the
  service's own process: `systemctl stop` cannot return before that process is gone, so `disable` and
  the purge are never reached, and the service is back after the next boot. With the unit's
  `User=phantom` systemd usually refuses the stop already, and the error is dropped (`systemd.go:108`).

Others were met while modelling. They are behaviours of the models, excluded by name from the
properties that would otherwise fail:

- A limiter installed by a reload does not know the connections that are open
  (`runtime.go:105`, against `connlimit.go:8`); `OvershootBounded` states by how much the
  limit is exceeded, counted over the limiter in force.
- Two rebinds at the same time can leave the older address bound (`listen.go:13`); a change of
  the host on the same port is refused, because the old listener is still open
  (`listen.go:21`, against `docs/API.md:194`); a rebind answered before `Serve` has stored its
  own listener is overwritten (`server.go:54`). `AckedIsServed` excludes overlapping requests and
  errors, `NoListenerLeak` the last case.
- In back mode the listener in use is not `s.ln` (`relay.go:21`). A reload therefore opens a listener on
  `listen.host` and `listen.port` that nobody accepts from, or fails because the port is taken, and the first is
  reported as a change that was applied (`listen.go:35`, against `docs/CONFIG.md:66` and `:232`); `AckedIsServed` is about
  proxy mode. And `serveRelayBack` reads the configuration a second time: if a reload has left
  back mode since `Serve` read it, `Serve` returns nil and the process ends with status 0 (`relay.go:14`).
- `Shutdown` may return while the accept loop holds one connection it has not counted
  (`server.go:106`), and waits for none in back mode (`relay.go:27`); `DrainedOnExit` says so.
- A reload that overlaps another request loses it: `Reload` applies the file it read before
  (`runtime.go:95`). `AckedUserKept`, `SettingsAgree` and `UsersAgree` exclude it.
- A reload replaces the replay cache by an empty one (`runtime.go:106`), so a hello may be accepted once more
  after it, and a connection that has read the old cache still checks there; `OldHelloOnce` is about each cache.
- A hello stamped ahead of the clock outlives its cache entry and is accepted twice
  (`replay.go:62`, against `README.md:18`); `OldHelloOnce` is about the others.
- A failed dial of the DC is recorded as a probe of a valid client (`server.go:243`, against
  `blacklist.go:9`); the reject path keeps the handshake deadline, which ends a spliced session
  (`server.go:245`).
- A legacy front's first frame that comes within 200 ms is taken for the client address, and
  the address of a current front that comes later breaks the session (`tunnel.go:150`, against
  `docs/RELAY.md:69`). Neither loses data silently: `TunnelIsStream`.
- Through a SOCKS5 upstream `CloseWrite` does nothing (`obfuscated2/handshake.go:185`), so the
  DC does not learn that the client is done; `SessionEnds` excludes it. The wrappers of the PROXY
  protocol have no `CloseWrite` either (`proxyproto.go:17`), so a client behind one does not learn that the
  DC is done; `AnswerEnds` excludes it.
- A client that is slow with its PROXY line stops the accept loop (`server.go:92`); `LoopFollowsListener` names
  the wait. A middle proxy that accepts and stays silent (`middleproxy/handshake.go:135`), and an upstream of the
  fallback that takes a request and stays silent (`fallback/http.go:51`), hold a goroutine and its slot for ever;
  so does a silent client that is handed to a site after a failed dial, which has cleared the deadline
  (`server.go:309`). `HandshakeBounded` names the three waits.
- `io.ReadFull` returns `io.EOF` when nothing at all follows: a stream cut right behind a record's header
  (`record.go:50`) or a frame's length (`tunnel.go:218`) passes for one that ended. `RecordLayer` has the first
  case; in `RelayTunnel` a front writes its frames whole, so the second would take a front that dies.
- `parseClientHello` accepts a hello of 34 bytes and reads the 35th (`client_hello.go:144`), and trusts the
  lengths after it: the index is out of range, the goroutine panics, nothing recovers, and the process ends.
  The layout of a hello is not modelled.
- `Dial` goes on to the next endpoint of a DC when one fails, but the table has one endpoint for each
  (`middleproxy/config.go:18`); `MiddleProxy` keeps the loop for any number.
- The WebUI's toggle is a read and a write: two at once count as one (`ui/handler.go:184`). Toggle and
  delete answer "saved" when the save failed (`ui/handler.go:202`); `UsersAgree` excludes failed saves.
- The WebUI's settings form has no fields for `allowed_ja4`, `max_connections_per_ip` and
  `upstream_socks5`, and saving it sets them to nothing (`ui/handler.go:312`, against
  `docs/CONFIG.md:229`). The model has one value for all settings and does not show it.
- `deploy/uninstall.sh --purge` ends with a test that is false, and so with status 1: `telegram-proxy uninstall
  --purge` reports an error after it has removed everything (`main.go:160`).
- After a reload or restart the mask host is the first enabled user's, after a change of users the last
  one's (`manager.go:78`, `:300`), so a restart may change it.

## 7. Not modelled

Cryptography, key derivation, ClientHello and ServerHello layout, fingerprint hashing, YAML
syntax and defaults, HTML pages, links and authentication of the admin server, metrics, the address
tables of the DCs, the commands of the command line that print and exit, and test support: conversions
of single values, or output that nothing reads back. Traffic sums of the statistics are left out for the
same reason. The rotators of fingerprints, ServerHello and SNI are counters, each under one lock, whose
only effect is which of several constants is sent (the fingerprint rotator's choice is not even used by
the server); no property of a session depends on them. The jitter between records and the delay after
the handshake are time that nothing measures.
