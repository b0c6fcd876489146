------------------------------- MODULE Relay -------------------------------
(***************************************************************************)
(* The reverse-proxy relay of the automation server: the AOC-side relay    *)
(* (internal/relay/server.go), the tunnel client of each server, called a  *)
(* Bailey (internal/relay/client.go), and the daemon code that decides     *)
(* whether the client runs (internal/daemon/relay_tunnel.go).              *)
(*                                                                         *)
(* A Bailey dials a control connection, here a link, registers on it and   *)
(* keeps it open.  For every browser stream the relay pushes an "open"     *)
(* frame down the link; the Bailey dials a data connection back, which the *)
(* relay matches to the stream by its connection id and splices with it.   *)
(* A stream stands for its connection id.  Both sides are goroutines: a    *)
(* step is what happens between two points where another one can run.      *)
(* Bytes, TLS and the ClientHello are left out; the parser of the SNI      *)
(* (sni.go) is the choice of a host.                                       *)
(*                                                                         *)
(* A definition named Bug... is a wrong variant of the one that follows    *)
(* it.  No action uses it: it records which mistake each property catches. *)
(***************************************************************************)
EXTENDS Naturals, Sequences, FiniteSets

CONSTANTS
    Baileys,     \* the servers; each has one domain
    Streams,     \* a bound on the browser streams that ever arrive
    Links,       \* control connections; an old one is used again when gone
    PublicHosts, \* hosts whose name does not tell which server has them
    Nobody,
    MaxBreakages,   \* a bound on the broken connections, refusals and restarts
    MaxMoves     \* a bound on the registrations and publications

ASSUME NobodyAssumption == Nobody \notin Baileys \cup Links \cup PublicHosts
ASSUME HostAssumption == Baileys \cap PublicHosts = {}
ASSUME RelayBounds == MaxBreakages \in Nat /\ MaxMoves \in Nat

VARIABLES
    setting,  \* the AOC table of each daemon's configuration
    started,  \* Server.relayStarted
    fetching, \* who holds relayMu while the AOC is asked: Server.relayMu
    stale,    \* the token that was read for the client has been replaced since
    client,   \* the goroutine of Client.Run
    link,     \* its current control connection
    owner,    \* who dialed each link
    serving,  \* the relay's handler of each link
    farOpen,  \* the Bailey's end of the link is open
    nearOpen, \* the relay's end of the link is open
    down,     \* frames written to the link and not yet read
    tunnels,  \* Server.tunnels
    pending,  \* the keys of Server.pending
    stream,   \* the relay's handler of each browser stream
    via,      \* the link it routes by, or the server the AOC has named
    back,     \* the data connection dialed for the stream
    dest,     \* the public host of a stream that awaits the AOC
    publisher,\* who has published a public host, says the AOC
    cache,    \* Server.pubCache
    breakages, moves

daemons == <<setting, started, fetching, stale>>
links == <<owner, serving, farOpen, nearOpen, down>>
clients == <<client, link>>
flows == <<pending, stream, via, back, dest>>
public == <<publisher, cache>>
relayVars == <<daemons, clients, links, tunnels, flows, public, breakages, moves>>

Callers == {"boot", "register"}
Frames == {"ack", "error"} \cup Streams
Settings == {"none", "direct", "proxied", "private"}
Cached == [server : Baileys, live : BOOLEAN]
NoEntry == [server |-> Nobody, live |-> FALSE]

RelayTypeOK ==
    /\ setting \in [Baileys -> Settings]
    /\ started \in [Baileys -> BOOLEAN]
    /\ fetching \in [Baileys -> SUBSET Callers]
    /\ stale \in [Baileys -> BOOLEAN]
    /\ client \in [Baileys -> {"off", "backoff", "awaiting", "serving"}]
    /\ link \in [Baileys -> Links \cup {Nobody}]
    /\ owner \in [Links -> Baileys \cup {Nobody}]
    /\ serving \in [Links -> {"none", "opening", "installed", "holding"}]
    /\ farOpen \in [Links -> BOOLEAN] /\ nearOpen \in [Links -> BOOLEAN]
    /\ down \in [Links -> Seq(Frames)]
    /\ tunnels \in [Baileys -> Links \cup {Nobody}]
    /\ pending \subseteq Streams
    /\ stream \in [Streams -> {"new", "resolving", "routed", "waiting",
                               "expired", "draining", "spliced", "closed"}]
    /\ via \in [Streams -> Links \cup Baileys \cup {Nobody}]
    /\ back \in [Streams -> {"none", "dialing", "sent", "claimed", "handed",
                             "spliced", "closed"}]
    /\ dest \in [Streams -> PublicHosts \cup {Nobody}]
    /\ publisher \in [PublicHosts -> Baileys \cup {Nobody}]
    /\ cache \in [PublicHosts -> Cached \cup {NoEntry}]
    /\ \A s \in Streams : stream[s] = "routed" => via[s] \in Links
    /\ breakages \in 0..MaxBreakages /\ moves \in 0..MaxMoves

RelayInit ==
    /\ setting = [b \in Baileys |-> "none"]
    /\ started = [b \in Baileys |-> FALSE]
    /\ fetching = [b \in Baileys |-> {}]
    /\ stale = [b \in Baileys |-> FALSE]
    /\ client = [b \in Baileys |-> "off"]
    /\ link = [b \in Baileys |-> Nobody]
    /\ owner = [l \in Links |-> Nobody]
    /\ serving = [l \in Links |-> "none"]
    /\ farOpen = [l \in Links |-> FALSE] /\ nearOpen = [l \in Links |-> FALSE]
    /\ down = [l \in Links |-> <<>>]
    /\ tunnels = [b \in Baileys |-> Nobody]
    /\ pending = {}
    /\ stream = [s \in Streams |-> "new"]
    /\ via = [s \in Streams |-> Nobody]
    /\ back = [s \in Streams |-> "none"]
    /\ dest = [s \in Streams |-> Nobody]
    /\ publisher = [h \in PublicHosts |-> Nobody]
    /\ cache = [h \in PublicHosts |-> NoEntry]
    /\ breakages = 0 /\ moves = 0

Breakage == breakages < MaxBreakages /\ breakages' = breakages + 1
Move == moves < MaxMoves /\ moves' = moves + 1

-----------------------------------------------------------------------------
(* The daemon: registration and startRelayTunnel *)

\* POST /aoc/config; a registration must be undone before there is another,
\* unless the request is forced.  It comes with a token, and a domain, of its own.
Register(b, s, force) ==
    /\ Move
    /\ setting[b] = "none" \/ force
    /\ s \in Settings \ {"none"}
    /\ setting' = [setting EXCEPT ![b] = s]
    /\ stale' = [stale EXCEPT ![b] = TRUE]
    /\ UNCHANGED <<started, fetching, clients, links, tunnels, flows, public, breakages>>

\* POST /aoc/credentials: a new token, the rest of the registration stays
ReplaceToken(b) ==
    /\ Move
    /\ setting[b] # "none"
    /\ stale' = [stale EXCEPT ![b] = TRUE]
    /\ UNCHANGED <<setting, started, fetching, clients, links, tunnels, flows, public,
                   breakages>>

\* the table is cleared here; neither the AOC nor a client that runs is told
Disconnect(b) ==
    /\ setting[b] # "none"
    /\ setting' = [setting EXCEPT ![b] = "none"]
    /\ UNCHANGED <<started, fetching, stale, clients, links, tunnels, flows, public,
                   breakages, moves>>

\* relayMu is held from the check of relayStarted until it is set, also while
\* the AOC is asked
MuFree(b) == fetching[b] = {}

\* A private or unregistered server returns before it asks.  The token is read
\* here, once: the client keeps it as long as it runs.
AskAOC(b, c) ==
    /\ MuFree(b)
    /\ ~ started[b]
    /\ setting[b] \in {"direct", "proxied"}
    /\ c \notin fetching[b]
    /\ fetching' = [fetching EXCEPT ![b] = @ \cup {c}]
    /\ stale' = [stale EXCEPT ![b] = FALSE]
    /\ UNCHANGED <<setting, started, clients, links, tunnels, flows, public, breakages, moves>>

\* the AOC answers that the server is proxied, or the configuration forces it
Launch(b, c) ==
    /\ c \in fetching[b]
    /\ started' = [started EXCEPT ![b] = TRUE]
    /\ fetching' = [fetching EXCEPT ![b] = @ \ {c}]
    /\ client' = [client EXCEPT ![b] = "backoff"]
    /\ UNCHANGED <<setting, stale, link, links, tunnels, flows, public, breakages, moves>>

\* not proxied, no relay advertised, or no answer
NotProxied(b, c) ==
    /\ c \in fetching[b]
    /\ fetching' = [fetching EXCEPT ![b] = @ \ {c}]
    /\ UNCHANGED <<setting, started, stale, clients, links, tunnels, flows, public,
                   breakages, moves>>

-----------------------------------------------------------------------------
(* The client: Run, runOnce, dialBack *)

\* a link that nobody at either end knows any more
Unused(l) ==
    /\ serving[l] = "none" /\ ~ farOpen[l]
    /\ \A b \in Baileys : tunnels[b] # l /\ link[b] # l
    /\ \A s \in Streams : via[s] # l

\* dial, and write the register frame
Connect(b) ==
    /\ client[b] = "backoff"
    /\ \E l \in Links :
          /\ Unused(l)
          /\ client' = [client EXCEPT ![b] = "awaiting"]
          /\ link' = [link EXCEPT ![b] = l]
          /\ owner' = [owner EXCEPT ![l] = b]
          /\ serving' = [serving EXCEPT ![l] = "opening"]
          /\ farOpen' = [farOpen EXCEPT ![l] = TRUE]
          /\ nearOpen' = [nearOpen EXCEPT ![l] = TRUE]
          /\ down' = [down EXCEPT ![l] = <<>>]
    /\ UNCHANGED <<daemons, tunnels, flows, public, breakages, moves>>

\* runOnce returns and closes its connection; Run backs off and dials again
HangUp(b) ==
    /\ client' = [client EXCEPT ![b] = "backoff"]
    /\ farOpen' = [farOpen EXCEPT ![link[b]] = FALSE]
    /\ link' = [link EXCEPT ![b] = Nobody]

\* the frame that the client takes next, and the link without it
FirstFrame(b) == Head(down[link[b]])
Taken(b) == down' = [down EXCEPT ![link[b]] = Tail(@)]
HasFrame(b) == link[b] # Nobody /\ down[link[b]] # <<>>

ReadAck(b) ==
    /\ client[b] = "awaiting" /\ HasFrame(b) /\ FirstFrame(b) = "ack"
    /\ client' = [client EXCEPT ![b] = "serving"]
    /\ Taken(b)
    /\ UNCHANGED <<daemons, link, owner, serving, farOpen, nearOpen, tunnels, flows,
                   public, breakages, moves>>

\* any other first frame counts as a refusal
ReadRefusal(b) ==
    /\ client[b] = "awaiting" /\ HasFrame(b) /\ FirstFrame(b) # "ack"
    /\ HangUp(b)
    /\ Taken(b)
    /\ UNCHANGED <<daemons, owner, serving, nearOpen, tunnels, flows, public, breakages, moves>>

\* an open frame: go c.dialBack(f.ConnID)
ReadOpen(b) ==
    /\ client[b] = "serving" /\ HasFrame(b) /\ FirstFrame(b) \in Streams
    /\ back' = [back EXCEPT ![FirstFrame(b)] = "dialing"]
    /\ Taken(b)
    /\ UNCHANGED <<daemons, clients, owner, serving, farOpen, nearOpen, tunnels,
                   pending, stream, via, dest, public, breakages, moves>>

\* the relay has closed the link
ReadEnd(b) ==
    /\ link[b] # Nobody /\ ~ HasFrame(b) /\ ~ nearOpen[link[b]]
    /\ HangUp(b)
    /\ UNCHANGED <<daemons, owner, serving, nearOpen, down, tunnels, flows, public,
                   breakages, moves>>

\* the Bailey's end breaks; the relay finds out later
Break(b) ==
    /\ Breakage
    /\ link[b] # Nobody
    /\ HangUp(b)
    /\ UNCHANGED <<daemons, owner, serving, nearOpen, down, tunnels, flows, public, moves>>

\* the daemon restarts: its goroutines and data connections are gone
RestartDaemon(b) ==
    /\ Breakage
    /\ started' = [started EXCEPT ![b] = FALSE]
    /\ fetching' = [fetching EXCEPT ![b] = {}]
    /\ client' = [client EXCEPT ![b] = "off"]
    /\ link' = [link EXCEPT ![b] = Nobody]
    /\ farOpen' = [l \in Links |-> farOpen[l] /\ owner[l] # b]
    /\ UNCHANGED <<setting, stale, owner, serving, nearOpen, down, tunnels, flows, public,
                   moves>>

\* the data frame is on its way to the relay
DialBack(s) ==
    /\ back[s] = "dialing"
    /\ back' = [back EXCEPT ![s] = "sent"]
    /\ UNCHANGED <<daemons, clients, links, tunnels, pending, stream, via, dest,
                   public, breakages, moves>>

\* the relay cannot be dialed, or the goroutine went with its daemon
DialBackFails(s) ==
    /\ back[s] = "dialing"
    /\ back' = [back EXCEPT ![s] = "closed"]
    /\ UNCHANGED <<daemons, clients, links, tunnels, pending, stream, via, dest,
                   public, breakages, moves>>

-----------------------------------------------------------------------------
(* The relay: handleRegister, one handler for each link *)

\* The token or its domain is not accepted, the AOC cannot be asked, or the frame
\* never arrives.  A token that has been replaced may be refused each time.
Refuse(l) ==
    /\ serving[l] = "opening"
    /\ IF farOpen[l] /\ ~ stale[owner[l]] THEN Breakage ELSE UNCHANGED breakages
    /\ serving' = [serving EXCEPT ![l] = "none"]
    /\ nearOpen' = [nearOpen EXCEPT ![l] = FALSE]
    /\ down' = [down EXCEPT ![l] = Append(@, "error")]
    /\ UNCHANGED <<daemons, clients, owner, farOpen, tunnels, flows, public, moves>>

\* a reconnecting Bailey supersedes its stale channel: under Server.mu
Install(l) ==
    LET old == tunnels[owner[l]] IN
    /\ serving[l] = "opening"
    /\ nearOpen' = [k \in Links |-> nearOpen[k] /\ k # old]
    /\ tunnels' = [tunnels EXCEPT ![owner[l]] = l]
    /\ serving' = [serving EXCEPT ![l] = "installed"]
    /\ UNCHANGED <<daemons, clients, owner, farOpen, down, flows, public, breakages, moves>>

\* the acknowledgement is written after Server.mu is released
Ack(l) ==
    /\ serving[l] = "installed" /\ nearOpen[l]
    /\ down' = [down EXCEPT ![l] = Append(@, "ack")]
    /\ serving' = [serving EXCEPT ![l] = "holding"]
    /\ UNCHANGED <<daemons, clients, owner, farOpen, nearOpen, tunnels, flows, public,
                   breakages, moves>>

\* it cannot be written: the handler returns and leaves the tunnel registered
AckFails(l) ==
    /\ serving[l] = "installed" /\ ~ (nearOpen[l] /\ farOpen[l])
    /\ nearOpen' = [nearOpen EXCEPT ![l] = FALSE]
    /\ serving' = [serving EXCEPT ![l] = "none"]
    /\ UNCHANGED <<daemons, clients, owner, farOpen, down, tunnels, flows, public,
                   breakages, moves>>

BugRetiresAny(l) == tunnels[owner[l]]

\* what a handler that ends takes out of Server.tunnels: only itself
Retired(l) == IF tunnels[owner[l]] = l THEN l ELSE Nobody

\* io.Copy returns when the link is closed at either end
Retire(l) ==
    /\ serving[l] = "holding" /\ ~ (nearOpen[l] /\ farOpen[l])
    /\ tunnels' = [b \in Baileys |-> IF tunnels[b] = Retired(l) THEN Nobody ELSE tunnels[b]]
    /\ nearOpen' = [nearOpen EXCEPT ![l] = FALSE]
    /\ serving' = [serving EXCEPT ![l] = "none"]
    /\ UNCHANGED <<daemons, clients, owner, farOpen, down, flows, public, breakages, moves>>

\* nothing that the relay knows is kept
RestartRelay ==
    /\ Breakage
    /\ serving' = [l \in Links |-> "none"]
    /\ nearOpen' = [l \in Links |-> FALSE]
    /\ tunnels' = [b \in Baileys |-> Nobody]
    /\ pending' = {}
    /\ stream' = [s \in Streams |-> IF stream[s] = "new" THEN "new" ELSE "closed"]
    /\ via' = [s \in Streams |-> Nobody]
    /\ back' = [s \in Streams |->
                   IF back[s] \in {"none", "dialing"} THEN back[s] ELSE "closed"]
    /\ dest' = [s \in Streams |-> Nobody]
    /\ cache' = [h \in PublicHosts |-> NoEntry]
    /\ UNCHANGED <<daemons, clients, owner, farOpen, down, publisher, moves>>

-----------------------------------------------------------------------------
(* The relay: handlePassthroughConn, one handler for each stream *)

Goto(s, l) == stream' = [stream EXCEPT ![s] = l]

BugNoNilCheck(s, l) == Goto(s, "routed") /\ via' = [via EXCEPT ![s] = l]

\* the handler goes on with a link, or closes the stream when there is none
RouteBy(s, l) ==
    /\ Goto(s, IF l = Nobody THEN "closed" ELSE "routed")
    /\ via' = [via EXCEPT ![s] = l]

\* a name under a server's domain is served by this server's tunnel
Arrive(s, b) ==
    /\ stream[s] = "new"
    /\ RouteBy(s, tunnels[b])
    /\ UNCHANGED <<daemons, clients, links, tunnels, pending, back, dest, public,
                   breakages, moves>>

BugIgnoresExpiry(h) == cache[h].server

\* pubCacheGet
PubCacheGet(h) == IF cache[h].live THEN cache[h].server ELSE Nobody

ArrivePublic(s, h) ==
    /\ stream[s] = "new"
    /\ IF PubCacheGet(h) # Nobody
         THEN RouteBy(s, tunnels[PubCacheGet(h)]) /\ UNCHANGED dest
         ELSE /\ Goto(s, "resolving")
              /\ via' = [via EXCEPT ![s] = publisher[h]]
              /\ dest' = [dest EXCEPT ![s] = h]
    /\ UNCHANGED <<daemons, clients, links, tunnels, pending, back, public, breakages, moves>>

\* the answer is cached, unless it is that nobody has the host or an error
Resolved(s) ==
    /\ stream[s] = "resolving"
    /\ IF via[s] = Nobody
         THEN RouteBy(s, Nobody) /\ UNCHANGED cache
         ELSE /\ RouteBy(s, tunnels[via[s]])
              /\ cache' = [cache EXCEPT ![dest[s]] = [server |-> via[s], live |-> TRUE]]
    /\ dest' = [dest EXCEPT ![s] = Nobody]
    /\ UNCHANGED <<daemons, clients, links, tunnels, pending, back, publisher, breakages, moves>>

\* publicHostTTL has passed
Expire(h) ==
    /\ cache[h].live
    /\ cache' = [cache EXCEPT ![h].live = FALSE]
    /\ UNCHANGED <<daemons, clients, links, tunnels, flows, publisher, breakages, moves>>

\* a host is published, or withdrawn: at the AOC
Publish(h, b) ==
    /\ Move
    /\ publisher[h] # b
    /\ publisher' = [publisher EXCEPT ![h] = b]
    /\ UNCHANGED <<daemons, clients, links, tunnels, flows, cache, breakages>>

\* the stream is entered in Server.pending, and an open frame written
Ask(s) ==
    /\ stream[s] = "routed" /\ nearOpen[via[s]]
    /\ pending' = pending \cup {s}
    /\ down' = [down EXCEPT ![via[s]] = Append(@, s)]
    /\ Goto(s, "waiting")
    /\ via' = [via EXCEPT ![s] = Nobody]
    /\ UNCHANGED <<daemons, clients, owner, serving, farOpen, nearOpen, tunnels, back,
                   dest, public, breakages, moves>>

\* the frame cannot be written; the entry is taken back
AskFails(s) ==
    /\ stream[s] = "routed" /\ ~ (nearOpen[via[s]] /\ farOpen[via[s]])
    /\ RouteBy(s, Nobody)
    /\ UNCHANGED <<daemons, clients, links, tunnels, pending, back, dest, public,
                   breakages, moves>>

\* handleData: the entry is claimed under Server.mu ...
Claim(s) ==
    /\ back[s] = "sent"
    /\ back' = [back EXCEPT ![s] = IF s \in pending THEN "claimed" ELSE "closed"]
    /\ pending' = pending \ {s}
    /\ UNCHANGED <<daemons, clients, links, tunnels, stream, via, dest, public,
                   breakages, moves>>

\* ... and the connection put in the stream's channel, which has room for one
HandOver(s) ==
    /\ back[s] = "claimed"
    /\ back' = [back EXCEPT ![s] = "handed"]
    /\ UNCHANGED <<daemons, clients, links, tunnels, pending, stream, via, dest, public,
                   breakages, moves>>

Splice(s) ==
    /\ stream[s] = "waiting" /\ back[s] = "handed"
    /\ Goto(s, "spliced")
    /\ back' = [back EXCEPT ![s] = "spliced"]
    /\ UNCHANGED <<daemons, clients, links, tunnels, pending, via, dest, public,
                   breakages, moves>>

\* either side has closed: both are
EndSplice(s) ==
    /\ stream[s] = "spliced"
    /\ Goto(s, "closed")
    /\ back' = [back EXCEPT ![s] = "closed"]
    /\ UNCHANGED <<daemons, clients, links, tunnels, pending, via, dest, public,
                   breakages, moves>>

BugTimerStartsLate(s) ==
    /\ stream[s] = "waiting" /\ back[s] # "none"
    /\ Goto(s, "expired")
    /\ UNCHANGED <<daemons, clients, links, tunnels, pending, via, back, dest, public,
                   breakages, moves>>

\* the 15 seconds are over; the entry is deleted later, under Server.mu
TimeOut(s) ==
    /\ stream[s] = "waiting"
    /\ Goto(s, "expired")
    /\ UNCHANGED <<daemons, clients, links, tunnels, pending, via, back, dest, public,
                   breakages, moves>>

BugNobodyDrains == "closed"

\* a goroutine is left behind that closes a connection which comes too late
AfterTimeout == "draining"

GiveUp(s) ==
    /\ stream[s] = "expired"
    /\ pending' = pending \ {s}
    /\ Goto(s, AfterTimeout)
    /\ UNCHANGED <<daemons, clients, links, tunnels, via, back, dest, public, breakages, moves>>

Drain(s) ==
    /\ stream[s] = "draining" /\ back[s] = "handed"
    /\ Goto(s, "closed")
    /\ back' = [back EXCEPT ![s] = "closed"]
    /\ UNCHANGED <<daemons, clients, links, tunnels, pending, via, dest, public,
                   breakages, moves>>

\* it ends after 10 seconds; a claimed connection is in the channel by then
DrainEnds(s) ==
    /\ stream[s] = "draining" /\ back[s] \notin {"claimed", "handed"}
    /\ Goto(s, "closed")
    /\ UNCHANGED <<daemons, clients, links, tunnels, pending, via, back, dest, public,
                   breakages, moves>>

-----------------------------------------------------------------------------
Run(b) ==
    \/ Connect(b) \/ ReadAck(b) \/ ReadRefusal(b) \/ ReadOpen(b) \/ ReadEnd(b)

Daemon(b) ==
    \/ \E s \in Settings, force \in BOOLEAN : Register(b, s, force)
    \/ ReplaceToken(b)
    \/ \E c \in Callers : AskAOC(b, c) \/ Launch(b, c) \/ NotProxied(b, c)
    \/ Disconnect(b) \/ Break(b) \/ RestartDaemon(b)

Validated(l) == Install(l) \/ Refuse(l)

HandleLink(l) == Ack(l) \/ AckFails(l) \/ Retire(l)

Dial(s) == DialBack(s) \/ DialBackFails(s)

HandleStream(s) ==
    \/ Resolved(s) \/ Ask(s) \/ AskFails(s) \/ Splice(s) \/ TimeOut(s) \/ GiveUp(s)
    \/ Drain(s) \/ DrainEnds(s)

HandleData(s) == Claim(s) \/ HandOver(s)

RelayNext ==
    \/ \E b \in Baileys : Run(b) \/ Daemon(b)
    \/ \E l \in Links : Validated(l) \/ HandleLink(l)
    \/ \E s \in Streams :
          \/ \E b \in Baileys : Arrive(s, b)
          \/ \E h \in PublicHosts : ArrivePublic(s, h)
          \/ Dial(s) \/ HandleStream(s) \/ HandleData(s) \/ EndSplice(s)
    \/ \E h \in PublicHosts : Expire(h) \/ \E b \in Baileys \cup {Nobody} : Publish(h, b)
    \/ RestartRelay

RelaySpec == RelayInit /\ [][RelayNext]_relayVars

\* Goroutines run, timers fire, and the AOC and the network answer or refuse.
\* Nothing is assumed of browsers, operators and faults.
RelayFairness ==
    /\ \A b \in Baileys : WF_relayVars(Run(b))
    /\ \A l \in Links : WF_relayVars(Validated(l)) /\ WF_relayVars(HandleLink(l))
    /\ \A s \in Streams : /\ WF_relayVars(Dial(s)) /\ WF_relayVars(HandleStream(s))
                          /\ WF_relayVars(HandleData(s))
    /\ \A h \in PublicHosts : WF_relayVars(Expire(h))

RelayFairSpec == RelaySpec /\ RelayFairness

-----------------------------------------------------------------------------
(* Properties *)

\* A data connection in the channel of a stream has a handler that will take
\* it: a claim that races the 15 s time-out does not leak its connection.
NobodyStranded ==
    \A s \in Streams : back[s] \in {"claimed", "handed"} =>
        stream[s] \in {"waiting", "expired", "draining"}

Tunnelled(b) ==
    /\ client[b] = "serving" /\ tunnels[b] = link[b]
    /\ nearOpen[link[b]] /\ farOpen[link[b]]

\* "Run keeps the control channel connected, reconnecting on drop": however
\* connections break, and relay and daemon restart, once they no longer do a
\* Bailey whose client runs is reachable and stays so, unless its token has been
\* replaced since it was launched.  startRelayTunnel gives the client the token it
\* has read, once: after another registration, or new credentials, a client that
\* loses its connection may be refused until the daemon restarts.
TunnelComesBack ==
    \A b \in Baileys : <>[](client[b] = "off" \/ stale[b] \/ Tunnelled(b))

\* No browser waits for ever: its stream is spliced or closed in the end.
StreamsAnswered ==
    \A s \in Streams : stream[s] # "new" ~> stream[s] \in {"spliced", "closed"}

\* When a public host has moved to another server, or nobody has it any more,
\* the relay stops sending its streams to the old one (publicHostTTL).
MovesAreSeen == \A h \in PublicHosts : <>[](PubCacheGet(h) \in {Nobody, publisher[h]})

=============================================================================
