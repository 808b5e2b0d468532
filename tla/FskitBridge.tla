----------------------------- MODULE FskitBridge -----------------------------
(***************************************************************************)
(* The bridge between the FSKit extension and the daemon: Socket.swift in  *)
(* the extension, session.rs, socket.rs and handler.rs of fskit-rs in the  *)
(* daemon.                                                                 *)
(*                                                                         *)
(* The extension has one Socket for all its volumes.  Calls of its volumes *)
(* run on their own threads: they share a connection, which the first one  *)
(* that finds none opens, and a table of promises by request id.  All that *)
(* happens on a connection runs on one event loop.  Each FSKit mount has a *)
(* session in the daemon, which listens on the extension's only port and   *)
(* answers a connection's requests one after the other.                    *)
(***************************************************************************)
EXTENDS Naturals, Sequences

CONSTANTS
    Calls,          \* calls of the volumes, one send each
    Conns,          \* bound: connections
    Sessions,       \* sessions of the daemon, in time, each with its volume
    Tokens,         \* authentication tokens
    None,
    MaxFaults       \* bound: crashes, and unmounts that fail

ASSUME BridgeAssumption ==
    /\ None \notin Calls \cup Conns \cup Sessions \cup Tokens
    /\ MaxFaults \in Nat

VARIABLES
    expected,   \* the token that sessions expect, or None
    token,      \* the token of the extension, or None
    session,    \* "off", "up", "stopped"
    stale,      \* sessions that have ended and left their volume mounted
    conn,       \* connections, both ends
    channel,    \* Socket.channel
    lock,       \* channelLock: the call that is opening a connection
    loop,       \* the connection that the event loop is taking down
    pending,    \* pendingPromises
    call,
    nextId,     \* request ids are random and 64 bits wide: none is drawn twice
    faults

vars == <<expected, token, session, stale, conn, channel, lock, loop, pending,
          call, nextId, faults>>

-----------------------------------------------------------------------------
\* A request or an answer; `by` is the session that answers, `of` the call whose
\* request it is.
Request(id, kind, c) == [id |-> id, kind |-> kind, of |-> c, by |-> None]
Response(f, kind, s) == [f EXCEPT !.kind = kind, !.by = s]

\* One end of the connection each, what is under way between them, and the
\* request that the session's handler is at.
NoConn == [at |-> None, client |-> "none", server |-> "none", auth |-> FALSE,
           up |-> <<>>, down |-> <<>>, busy |-> None]

NoCall == [pc |-> "idle", vol |-> None, conn |-> None, id |-> 0, unsent |-> FALSE,
           result |-> "none", answer |-> None]

Init ==
    /\ expected \in Tokens \cup {None}
    /\ token \in Tokens \cup {None}
    /\ session = [s \in Sessions |-> "off"]
    /\ stale = {}
    /\ conn = [k \in Conns |-> NoConn]
    /\ channel = None
    /\ lock = None
    /\ loop = None
    /\ pending = {}
    /\ call = [c \in Calls |-> NoCall]
    /\ nextId = 1
    /\ faults = 0

daemon == <<session, stale, faults>>
setup == <<expected, token>>

IsOpen(k) == conn[k].client = "open"
Up == {s \in Sessions : session[s] = "up"}

\* The call that c is, ended.
Ended(c, result) == [call[c] EXCEPT !.pc = "done", !.result = result]

-----------------------------------------------------------------------------
(* The extension *)

\* A volume's operation calls send.
Send(c, s) ==
    /\ call[c].pc = "idle"
    /\ s \in Up \cup stale
    /\ call' = [call EXCEPT ![c].pc = "locking", ![c].vol = s]
    /\ UNCHANGED <<setup, daemon, conn, channel, lock, loop, pending, nextId>>

\* getChannel under channelLock: the channel when it is active.
GetChannel(c) ==
    /\ call[c].pc = "locking"
    /\ lock = None
    /\ channel # None /\ IsOpen(channel)
    /\ call' = [call EXCEPT ![c].pc = "got", ![c].conn = channel]
    /\ UNCHANGED <<setup, daemon, conn, channel, lock, loop, pending, nextId>>

\* Otherwise a new one, with the lock held meanwhile.
Reconnect(c) ==
    /\ call[c].pc = "locking"
    /\ lock = None
    /\ channel # None => ~IsOpen(channel)
    /\ lock' = c
    /\ call' = [call EXCEPT ![c].pc = "connecting"]
    /\ UNCHANGED <<setup, daemon, conn, channel, loop, pending, nextId>>

Opened(s) == [NoConn EXCEPT !.at = s, !.client = "open", !.server = "queued"]

\* Mutant: a second event loop connects while the first takes a channel down.
ConnectAside(c, k, s) ==
    /\ call[c].pc = "connecting"
    /\ conn[k] = NoConn
    /\ s \in Up
    /\ conn' = [conn EXCEPT ![k] = Opened(s)]
    /\ IF token = None
       THEN /\ channel' = k /\ lock' = None
            /\ call' = [call EXCEPT ![c].pc = "got", ![c].conn = k]
       ELSE /\ call' = [call EXCEPT ![c].pc = "opened", ![c].conn = k]
            /\ UNCHANGED <<channel, lock>>
    /\ UNCHANGED <<setup, daemon, loop, pending, nextId>>

\* Mutant: the connection is shared before it is authenticated.
ConnectShares(c, k, s) ==
    /\ call[c].pc = "connecting"
    /\ loop = None
    /\ conn[k] = NoConn
    /\ s \in Up
    /\ conn' = [conn EXCEPT ![k] = Opened(s)]
    /\ channel' = k
    /\ lock' = None
    /\ call' = [call EXCEPT ![c].pc = IF token = None THEN "got" ELSE "opened",
                            ![c].conn = k]
    /\ UNCHANGED <<setup, daemon, loop, pending, nextId>>

\* connect; without a token the connection is the channel at once.
Connect(c, k, s) ==
    /\ call[c].pc = "connecting"
    /\ loop = None
    /\ conn[k] = NoConn
    /\ s \in Up
    /\ conn' = [conn EXCEPT ![k] = Opened(s)]
    /\ IF token = None
       THEN /\ channel' = k /\ lock' = None
            /\ call' = [call EXCEPT ![c].pc = "got", ![c].conn = k]
       ELSE /\ call' = [call EXCEPT ![c].pc = "opened", ![c].conn = k]
            /\ UNCHANGED <<channel, lock>>
    /\ UNCHANGED <<setup, daemon, loop, pending, nextId>>

\* Nobody listens, or the connection cannot be made.
ConnectFails(c) ==
    /\ call[c].pc = "connecting"
    /\ loop = None
    /\ lock' = None
    /\ call' = [call EXCEPT ![c] = Ended(c, "failed")]
    /\ UNCHANGED <<setup, daemon, conn, channel, loop, pending, nextId>>

\* The authenticate frame, with a promise of its own that nobody removes when
\* the write or the answer fails.
AuthSend(c) ==
    LET k == call[c].conn IN
    /\ call[c].pc = "opened"
    /\ loop = None
    /\ pending' = pending \cup {[id |-> nextId, call |-> c, auth |-> TRUE]}
    /\ nextId' = nextId + 1
    /\ IF IsOpen(k)
       THEN /\ conn' = [conn EXCEPT ![k].up = Append(@, Request(nextId, "auth", c))]
            /\ call' = [call EXCEPT ![c].pc = "authing"]
            /\ UNCHANGED lock
       ELSE /\ call' = [call EXCEPT ![c] = Ended(c, "failed")]
            /\ lock' = None
            /\ UNCHANGED conn
    /\ UNCHANGED <<setup, daemon, channel, loop>>

AuthTimeout(c) ==
    /\ call[c].pc = "authing"
    /\ loop = None
    /\ call' = [call EXCEPT ![c].pc = "closing"]
    /\ UNCHANGED <<setup, daemon, conn, channel, lock, loop, pending, nextId>>

\* A connection goes down: the channel is inactive, channelInactive is next.
TakeDown(k) ==
    /\ conn' = [conn EXCEPT ![k].client = "down", ![k].down = <<>>]
    /\ loop' = k

\* The connection that failed to authenticate is closed, then the call ends.
AuthClose(c) ==
    LET k == call[c].conn IN
    /\ call[c].pc = "closing"
    /\ loop = None
    /\ IF IsOpen(k)
       THEN /\ TakeDown(k)
            /\ UNCHANGED <<lock, call>>
       ELSE /\ lock' = None
            /\ call' = [call EXCEPT ![c] = Ended(c, "failed")]
            /\ UNCHANGED <<conn, loop>>
    /\ UNCHANGED <<setup, daemon, channel, pending, nextId>>

\* Mutant: ids are the least that are free.
RegisterReuses(c) ==
    LET id == CHOOSE i \in 1..nextId :
                 /\ \A p \in pending : p.id # i
                 /\ \A j \in 1..i - 1 : \E p \in pending : p.id = j
    IN
    /\ call[c].pc = "got"
    /\ pending' = pending \cup {[id |-> id, call |-> c, auth |-> FALSE]}
    /\ call' = [call EXCEPT ![c].pc = "waiting", ![c].id = id, ![c].unsent = TRUE]
    /\ nextId' = nextId + 1
    /\ UNCHANGED <<setup, daemon, conn, channel, lock, loop>>

\* registerPromise; the timer is set and the frame handed to the event loop.
Register(c) ==
    /\ call[c].pc = "got"
    /\ pending' = pending \cup {[id |-> nextId, call |-> c, auth |-> FALSE]}
    /\ call' = [call EXCEPT ![c].pc = "waiting", ![c].id = nextId, ![c].unsent = TRUE]
    /\ nextId' = nextId + 1
    /\ UNCHANGED <<setup, daemon, conn, channel, lock, loop>>

\* failPromise: a promise is failed once, by whoever removes it.
Waits(c) == \E p \in pending : p.id = call[c].id
Others(c) == {p \in pending : p.id # call[c].id}

\* The event loop writes the frame; the call may have timed out before.
Write(c) ==
    LET k == call[c].conn IN
    /\ call[c].unsent
    /\ loop = None
    /\ IF IsOpen(k)
       THEN /\ conn' = [conn EXCEPT ![k].up = Append(@, Request(call[c].id, "request", c))]
            /\ call' = [call EXCEPT ![c].unsent = FALSE]
            /\ UNCHANGED pending
       ELSE /\ pending' = Others(c)
            /\ call' = [call EXCEPT ![c] =
                  [IF Waits(c) THEN Ended(c, "failed") ELSE @ EXCEPT !.unsent = FALSE]]
            /\ UNCHANGED conn
    /\ UNCHANGED <<setup, daemon, channel, lock, loop, nextId>>

\* Five seconds are over.
Timeout(c) ==
    /\ call[c].pc = "waiting" /\ Waits(c)
    /\ loop = None
    /\ pending' = Others(c)
    /\ call' = [call EXCEPT ![c] = Ended(c, "timeout")]
    /\ UNCHANGED <<setup, daemon, conn, channel, lock, loop, nextId>>

\* What a promise's answer does to its call.
Answered(p, f) ==
    LET c == p.call IN
    IF ~p.auth THEN
        [Ended(c, IF f.kind = "content" THEN "ok" ELSE "refused") EXCEPT !.answer = f]
    ELSE IF call[c].pc # "authing" THEN call[c]
    ELSE IF f.kind = "success" THEN [call[c] EXCEPT !.pc = "got"]
    ELSE [call[c] EXCEPT !.pc = "closing"]

\* channelRead and fulfillPromise.  An answer that nobody waits for is dropped;
\* with the handshake done, the connection becomes the channel.
Receive(k) ==
    LET f == Head(conn[k].down) IN
    /\ loop = None
    /\ IsOpen(k)
    /\ conn[k].down # <<>>
    /\ conn' = [conn EXCEPT ![k].down = Tail(@)]
    /\ pending' = {p \in pending : p.id # f.id}
    /\ \/ /\ \A p \in pending : p.id # f.id
          /\ UNCHANGED <<call, channel, lock>>
       \/ \E p \in pending :
             /\ p.id = f.id
             /\ call' = [call EXCEPT ![p.call] = Answered(p, f)]
             /\ IF p.auth /\ call'[p.call].pc = "got"
                THEN channel' = k /\ lock' = None
                ELSE UNCHANGED <<channel, lock>>
    /\ UNCHANGED <<setup, daemon, loop, nextId>>

\* The session has closed its end, or the connection is reset.
PeerClosed(k) ==
    /\ loop = None
    /\ IsOpen(k)
    /\ conn[k].server = "closed"
    /\ conn[k].down = <<>>
    /\ TakeDown(k)
    /\ UNCHANGED <<setup, daemon, channel, lock, pending, call, nextId>>

\* Mutant: the promises are forgotten and not failed.
InactiveForgets(k) ==
    /\ loop = k
    /\ loop' = None
    /\ pending' = {}
    /\ UNCHANGED <<setup, daemon, conn, channel, lock, call, nextId>>

\* channelInactive: failAllPromises.
Inactive(k) ==
    /\ loop = k
    /\ loop' = None
    /\ pending' = {}
    /\ call' = [c \in Calls |->
          IF call[c].pc = "authing" /\ \E p \in pending : p.call = c /\ p.auth
          THEN [call[c] EXCEPT !.pc = "closing"]
          ELSE IF \E p \in pending : p.call = c /\ ~p.auth THEN Ended(c, "down")
          ELSE call[c]]
    /\ UNCHANGED <<setup, daemon, conn, channel, lock, nextId>>

-----------------------------------------------------------------------------
(* The daemon *)
client == <<channel, lock, loop, pending, call, nextId>>

\* Session::new binds the port that the extension's Info.plist names.
Listen(s) ==
    /\ session[s] = "off"
    /\ Up = {}
    /\ session' = [session EXCEPT ![s] = "up"]
    /\ UNCHANGED <<setup, stale, faults, conn, client>>

\* spawn_loop accepts; without a token the connection counts as authenticated.
Accept(k) ==
    /\ conn[k].server = "queued"
    /\ conn[k].at \in Up
    /\ conn' = [conn EXCEPT ![k].server = "serving", ![k].auth = (expected = None)]
    /\ UNCHANGED <<setup, daemon, client>>

\* The answer is written; the client may be gone.
Reply(q, f) == [q EXCEPT !.down = IF q.client = "open" THEN Append(@, f) ELSE @]

\* Mutant: a second authenticate counts as a request without content.
HandshakeInvalid(k) ==
    LET q == conn[k]
        f == Head(q.up)
        rest == [q EXCEPT !.up = Tail(@)]
        reply(kind) == Reply(rest, Response(f, kind, q.at))
    IN
    /\ q.server = "serving" /\ q.busy = None /\ q.up # <<>>
    /\ ~(q.auth /\ f.kind = "request")
    /\ conn' = [conn EXCEPT ![k] =
          IF q.auth THEN reply("EINVAL")
          ELSE IF f.kind = "auth" /\ token = expected
               THEN [reply("success") EXCEPT !.auth = TRUE]
          ELSE [reply("EACCES") EXCEPT !.server = "closed"]]
    /\ UNCHANGED <<setup, daemon, client>>

\* One frame of handle_stream, when it is not handed to the handler.
Handshake(k) ==
    LET q == conn[k]
        f == Head(q.up)
        rest == [q EXCEPT !.up = Tail(@)]
        reply(kind) == Reply(rest, Response(f, kind, q.at))
    IN
    /\ q.server = "serving" /\ q.busy = None /\ q.up # <<>>
    /\ ~(q.auth /\ f.kind = "request")
    /\ conn' = [conn EXCEPT ![k] =
          IF q.auth THEN [reply("EPROTO") EXCEPT !.server = "closed"]
          ELSE IF f.kind = "auth" /\ token = expected
               THEN [reply("success") EXCEPT !.auth = TRUE]
          ELSE [reply("EACCES") EXCEPT !.server = "closed"]]
    /\ UNCHANGED <<setup, daemon, client>>

\* Handler::handle is given the request ...
Handle(k) ==
    LET q == conn[k] IN
    /\ q.server = "serving" /\ q.busy = None /\ q.up # <<>>
    /\ q.auth /\ Head(q.up).kind = "request"
    /\ conn' = [conn EXCEPT ![k].busy = Head(q.up), ![k].up = Tail(@)]
    /\ UNCHANGED <<setup, daemon, client>>

\* ... and answers it, with what was asked for or a POSIX error, in its time.
Answer(k) ==
    LET q == conn[k] IN
    /\ q.server = "serving" /\ q.busy # None
    /\ conn' = [conn EXCEPT ![k] =
          [Reply(q, Response(q.busy, "content", q.at)) EXCEPT
             !.busy = None, !.server = IF q.client = "open" THEN @ ELSE "closed"]]
    /\ UNCHANGED <<setup, daemon, client>>

\* The extension has closed its end.
ClientGone(k) ==
    LET q == conn[k] IN
    /\ q.server = "serving" /\ q.busy = None
    /\ q.client = "down" /\ q.up = <<>>
    /\ conn' = [conn EXCEPT ![k].server = "closed"]
    /\ UNCHANGED <<setup, daemon, client>>

\* A connection that ends with requests unread is reset: answers may be lost.
Closed(q) ==
    {[q EXCEPT !.server = "closed", !.up = <<>>, !.down = d] :
       d \in IF q.up = <<>> THEN {q.down} ELSE {q.down, <<>>}}

\* The listener is dropped, and with it what it has not accepted.
Refused == [k \in Conns |-> IF conn[k].server = "queued" /\ conn[k].at \in Up
                            THEN [conn[k] EXCEPT !.server = "closed"]
                            ELSE conn[k]]

\* Session::drop: the volume is unmounted, by force, with calls of it perhaps
\* under way; then stop.
Stop(s) ==
    /\ session[s] = "up"
    /\ session' = [session EXCEPT ![s] = "stopped"]
    /\ conn' = Refused
    /\ UNCHANGED <<setup, stale, faults, client>>

\* The unmount fails, which is only logged.
StopAnyway(s) ==
    /\ session[s] = "up"
    /\ faults < MaxFaults
    /\ faults' = faults + 1
    /\ session' = [session EXCEPT ![s] = "stopped"]
    /\ stale' = stale \cup {s}
    /\ conn' = Refused
    /\ UNCHANGED <<setup, client>>

\* handle_stream takes the broadcast, when it is not at a request.
Shutdown(k) ==
    LET q == conn[k] IN
    /\ q.server = "serving" /\ q.busy = None
    /\ session[q.at] = "stopped"
    /\ \E closed \in Closed(q) : conn' = [conn EXCEPT ![k] = closed]
    /\ UNCHANGED <<setup, daemon, client>>

\* The daemon dies.
Crash(s) ==
    /\ session[s] = "up"
    /\ faults < MaxFaults
    /\ faults' = faults + 1
    /\ session' = [session EXCEPT ![s] = "stopped"]
    /\ stale' = stale \cup {s}
    /\ \E lost \in SUBSET Conns :
          conn' = [k \in Conns |->
             IF conn[k].server \notin {"queued", "serving"} THEN conn[k]
             ELSE [conn[k] EXCEPT !.server = "closed", !.up = <<>>, !.busy = None,
                                  !.down = IF k \in lost THEN <<>> ELSE @]]
    /\ UNCHANGED <<setup, client>>

-----------------------------------------------------------------------------
Advance(c) ==
    \/ GetChannel(c) \/ Reconnect(c)
    \/ \E k \in Conns, s \in Sessions : Connect(c, k, s)
    \/ ConnectFails(c)
    \/ AuthSend(c) \/ AuthTimeout(c) \/ AuthClose(c)
    \/ Register(c) \/ Write(c) \/ Timeout(c)

Serve(k) ==
    \/ Accept(k) \/ Handshake(k) \/ Handle(k) \/ Answer(k) \/ ClientGone(k)
    \/ Shutdown(k)

Next ==
    \/ \E c \in Calls : (\E s \in Sessions : Send(c, s)) \/ Advance(c)
    \/ \E k \in Conns : Receive(k) \/ PeerClosed(k) \/ Inactive(k) \/ Serve(k)
    \/ \E s \in Sessions : Listen(s) \/ Stop(s) \/ StopAnyway(s) \/ Crash(s)

Spec == Init /\ [][Next]_vars

\* Threads and the event loop run, and timers fire.  Nothing is assumed of the
\* daemon.
FairSpec ==
    /\ Spec
    /\ \A c \in Calls : WF_vars(Advance(c))
    /\ \A k \in Conns : WF_vars(Inactive(k))

-----------------------------------------------------------------------------
(* Properties *)

Frames == [id : Nat, kind : {"auth", "request", "success", "content", "EACCES", "EPROTO"},
           of : Calls, by : Sessions \cup {None}]

\* Type invariant of both ends and of what is under way between them.
TypeOK ==
    /\ expected \in Tokens \cup {None}
    /\ token \in Tokens \cup {None}
    /\ session \in [Sessions -> {"off", "up", "stopped"}]
    /\ stale \subseteq Sessions
    /\ conn \in [Conns -> [at : Sessions \cup {None}, client : {"none", "open", "down"},
                           server : {"none", "queued", "serving", "closed"},
                           auth : BOOLEAN, up : Seq(Frames), down : Seq(Frames),
                           busy : Frames \cup {None}]]
    /\ channel \in Conns \cup {None}
    /\ lock \in Calls \cup {None}
    /\ loop \in Conns \cup {None}
    /\ pending \subseteq [id : Nat, call : Calls, auth : BOOLEAN]
    /\ call \in [Calls ->
          [pc : {"idle", "locking", "connecting", "opened", "authing", "closing", "got",
                 "waiting", "done"},
           vol : Sessions \cup {None}, conn : Conns \cup {None}, id : Nat,
           unsent : BOOLEAN, result : {"none", "ok", "refused", "failed", "timeout", "down"},
           answer : Frames \cup {None}]]
    /\ nextId \in Nat
    /\ faults \in 0..MaxFaults

\* send returns the answer to its own request (Socket.swift, fulfillPromise),
\* whatever came late, after a timeout, or over an earlier connection.
AnswersAreOwn ==
    \A c \in Calls : call[c].result = "ok" => call[c].answer.of = c

\* A connection that goes down fails only the calls that used it, although
\* failAllPromises knows nothing of connections: the one event loop has emptied
\* the table before the next connection can be made.
DownFailsOnlyItsOwn ==
    \A c \in Calls : call[c].result = "down" => conn[call[c].conn].client = "down"

\* When the extension has the daemon's token, no request is turned down for want
\* of authentication (socket.rs, handle_stream): none overtakes the handshake.
NoRefusals ==
    token = expected => \A c \in Calls : call[c].result # "refused"

\* Every call of a volume returns, with its answer or an error, whatever the
\* daemon does (Socket.swift, send waits with no timeout of its own).
EveryCallReturns ==
    \A c \in Calls : call[c].pc # "idle" ~> call[c].pc = "done"
=============================================================================
