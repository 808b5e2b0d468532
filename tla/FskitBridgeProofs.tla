-------------------------- MODULE FskitBridgeProofs --------------------------
(***************************************************************************)
(* Proofs about the bridge of FskitBridge, for any number of calls,        *)
(* connections, sessions, tokens and faults.                               *)
(*                                                                         *)
(* The properties rest on one inductive invariant, BridgeInv.  Request ids *)
(* are fresh (Ids), so a promise has one call (Promises) and a frame with  *)
(* its id is that call's, on that call's connection (Routed).  channelLock *)
(* (Held) and the one event loop (Down) leave at most one connection open, *)
(* so that channelInactive finds only promises of connections that are     *)
(* down.  With the right token a connection is shared only once the        *)
(* session has authenticated it (Handshakes).  The daemon only moves       *)
(* frames and answers them (Moves), so all of its steps are one case.      *)
(***************************************************************************)
EXTENDS FskitBridge, TLAPS

-----------------------------------------------------------------------------
\* The types of connections, calls and promises, as in TypeOK.
ConnType ==
    [at : Sessions \cup {None}, client : {"none", "open", "down"},
     server : {"none", "queued", "serving", "closed"}, auth : BOOLEAN,
     up : Seq(Frames), down : Seq(Frames), busy : Frames \cup {None}]

CallType ==
    [pc : {"idle", "locking", "connecting", "opened", "authing", "closing", "got",
           "waiting", "done"},
     vol : Sessions \cup {None}, conn : Conns \cup {None}, id : Nat,
     unsent : BOOLEAN, result : {"none", "ok", "refused", "failed", "timeout", "down"},
     answer : Frames \cup {None}]

Promise == [id : Nat, call : Calls, auth : BOOLEAN]

\* The frames of a sequence.
Elems(s) == {s[i] : i \in 1..Len(s)}

-----------------------------------------------------------------------------
(* Sequences, frames and records.                                          *)

\* Nothing is in the empty sequence.
LEMMA ElemsEmpty == Elems(<<>>) = {}
BY DEF Elems

\* What is appended joins the elements.
LEMMA ElemsAppend ==
    ASSUME NEW S, NEW s \in Seq(S), NEW x \in S
    PROVE  /\ Append(s, x) \in Seq(S)
           /\ Elems(Append(s, x)) = Elems(s) \cup {x}
           /\ Len(Append(s, x)) = Len(s) + 1
BY DEF Elems

\* The head of a sequence is an element, and the others are the tail's.
LEMMA ElemsTail ==
    ASSUME NEW S, NEW s \in Seq(S), s # <<>>
    PROVE  /\ Head(s) \in S
           /\ Tail(s) \in Seq(S)
           /\ Head(s) \in Elems(s)
           /\ Elems(Tail(s)) \subseteq Elems(s)
           /\ Len(Tail(s)) = Len(s) - 1
BY DEF Elems

\* Only the empty sequence has no length.
LEMMA LenNat ==
    ASSUME NEW S, NEW s \in Seq(S)
    PROVE  Len(s) \in Nat /\ (Len(s) = 0 => s = <<>>) /\ (s # <<>> => Len(s) >= 1)
OBVIOUS

\* Nothing is left of a sequence of one.
LEMMA TailOfOne ==
    ASSUME NEW S, NEW s \in Seq(S), s # <<>>, Len(s) <= 1
    PROVE  Tail(s) = <<>>
<1>0. Len(s) \in Nat /\ Len(s) >= 1
  BY LenNat
<1>1. Len(s) = 1
  <2>1. ASSUME NEW n \in Nat, n >= 1, n <= 1
        PROVE  n = 1
    BY <2>1
  <2>2. QED
    BY <1>0, <2>1, Zenon
<1>2. Len(Tail(s)) = 0
  BY <1>1
<1>3. Tail(s) \in Seq(S)
  OBVIOUS
<1>4. QED
  BY <1>2, <1>3

\* An element is of the sequence's type.
LEMMA ElemsType ==
    ASSUME NEW S, NEW s \in Seq(S)
    PROVE  Elems(s) \subseteq S
BY DEF Elems

\* A request is a frame.
LEMMA RequestType ==
    ASSUME NEW id \in Nat, NEW kind \in {"auth", "request"}, NEW c \in Calls
    PROVE  /\ Request(id, kind, c) \in Frames
           /\ Request(id, kind, c).id = id
           /\ Request(id, kind, c).kind = kind
           /\ Request(id, kind, c).of = c
BY DEF Request, Frames

\* An answer has the id and the call of what it answers.
LEMMA ResponseType ==
    ASSUME NEW f \in Frames, NEW kind \in {"success", "content", "EACCES", "EPROTO"},
           NEW s \in Sessions \cup {None}
    PROVE  /\ Response(f, kind, s) \in Frames
           /\ Response(f, kind, s).id = f.id
           /\ Response(f, kind, s).kind = kind
           /\ Response(f, kind, s).of = f.of
BY DEF Response, Frames

\* Reply adds an answer, or nothing.
LEMMA ReplyType ==
    ASSUME NEW q \in ConnType, NEW f \in Frames
    PROVE  /\ Reply(q, f) \in ConnType
           /\ Reply(q, f).at = q.at /\ Reply(q, f).client = q.client
           /\ Reply(q, f).server = q.server /\ Reply(q, f).auth = q.auth
           /\ Reply(q, f).up = q.up /\ Reply(q, f).busy = q.busy
           /\ Reply(q, f).down \in Seq(Frames)
           /\ Elems(Reply(q, f).down) \subseteq Elems(q.down) \cup {f}
<1>1. q.down \in Seq(Frames)
  BY DEF ConnType
<1>2. CASE q.client = "open"
  <2>1. Reply(q, f) = [q EXCEPT !.down = Append(q.down, f)]
    BY <1>2 DEF Reply
  <2>2. Append(q.down, f) \in Seq(Frames) /\ Elems(Append(q.down, f)) = Elems(q.down) \cup {f}
    BY <1>1, ElemsAppend
  <2>3. QED
    BY <2>1, <2>2 DEF ConnType
<1>3. CASE q.client # "open"
  <2>1. Reply(q, f) = [q EXCEPT !.down = q.down]
    BY <1>3 DEF Reply
  <2>2. QED
    BY <1>1, <2>1 DEF ConnType
<1>4. QED
  BY <1>2, <1>3

-----------------------------------------------------------------------------
(* The inductive invariant.                                                *)

\* The frames that a connection carries, the one being handled too.
Carried(q) == Elems(q.up) \cup Elems(q.down) \cup ({q.busy} \ {None})

\* Request ids are fresh: what has an id has one that was drawn before.
Ids ==
    /\ nextId >= 1
    /\ \A c \in Calls : call[c].id < nextId
    /\ \A p \in pending : 1 <= p.id /\ p.id < nextId
    /\ \A k \in Conns : \A f \in Carried(conn[k]) : f.id < nextId

\* A promise belongs to the one call that waits for it.
Promises ==
    /\ \A p \in pending : \A c \in Calls : p.id = call[c].id => p.call = c /\ ~p.auth
    /\ \A p \in pending : ~p.auth => p.id = call[p.call].id
    /\ \A p, q \in pending : p.call = q.call => p.id = q.id
    /\ \A p \in pending :
          IF p.auth THEN call[p.call].pc \in {"authing", "closing", "done"}
          ELSE call[p.call].pc = "waiting"
    /\ \A c \in Calls : call[c].pc # "done" => call[c].result = "none"
    /\ \A c \in Calls : call[c].unsent => call[c].pc \in {"waiting", "done"}

\* The steps of a call that holds channelLock.
Opening == {"connecting", "opened", "authing", "closing"}

\* The calls that have a connection.
HasConn(c) ==
    \/ call[c].pc \in {"opened", "authing", "closing", "got", "waiting"}
    \/ call[c].unsent \/ call[c].result = "down"

\* channelLock: its holder is the call that opens a connection, and while it
\* is held no other connection is open.
Held ==
    /\ \A c \in Calls : call[c].pc \in Opening <=> lock = c
    /\ lock # None => \A k \in Conns : IsOpen(k) => channel # k
    /\ \A k \in Conns : IsOpen(k) =>
          \/ channel = k
          \/ \E c \in Calls : lock = c /\ call[c].pc # "connecting" /\ call[c].conn = k

\* Who knows a connection knows one that was made.
Made ==
    /\ channel # None => conn[channel].client # "none"
    /\ \A c \in Calls : HasConn(c) => call[c].conn \in Conns /\ conn[call[c].conn].client # "none"

\* While the event loop takes a connection down no other one is open.
Down == loop # None => conn[loop].client = "down" /\ \A k \in Conns : ~IsOpen(k)

\* A session handles requests, and the extension sends no answers.
Sent(q) ==
    /\ q.busy # None => q.busy.kind = "request"
    /\ \A f \in Elems(q.up) : f.kind \in {"auth", "request"}

\* A frame is on the connection of the call whose promise has its id.
Routed ==
    \A k \in Conns : \A f \in Carried(conn[k]) : \A p \in pending :
       p.id = f.id =>
          /\ f.of = p.call
          /\ call[p.call].conn = k
          /\ IF p.auth THEN f.kind \notin {"request", "content"}
             ELSE f.kind \notin {"auth", "success"}

\* A connection that requests may be sent on.
Shared(k) ==
    \/ channel = k
    \/ \E c \in Calls : call[c].conn = k /\ (call[c].pc \in {"got", "waiting"} \/ call[c].unsent)

\* A connection with the right token: requests follow the authentication.
Met(q) ==
    /\ q.server = "queued" => ~q.auth
    /\ \A f \in Elems(q.down) : f.kind \in {"success", "content"}
    /\ token = None =>
          /\ \A f \in Elems(q.up) : f.kind = "request"
          /\ q.server = "serving" => q.auth
    /\ token # None /\ q.auth => \A f \in Elems(q.up) : f.kind = "request"
    /\ token # None /\ ~q.auth =>
          /\ \A f \in Elems(q.up) : f.kind = "auth"
          /\ Len(q.up) <= 1
          /\ \A f \in Elems(q.down) : f.kind # "success"

\* With the right token no request overtakes the handshake.
Handshakes ==
    token = expected =>
       /\ \A k \in Conns : Met(conn[k])
       /\ \A k \in Conns : token # None /\ ~conn[k].auth => ~Shared(k)
       /\ \A c \in Calls : call[c].pc = "opened" =>
             conn[call[c].conn].up = <<>> /\ ~conn[call[c].conn].auth
       /\ token = None => \A c \in Calls : call[c].pc \notin {"opened", "authing", "closing"}

\* How calls end.
Results ==
    /\ \A c \in Calls : call[c].result = "ok" => call[c].answer.of = c
    /\ \A c \in Calls : call[c].result = "down" => conn[call[c].conn].client = "down"
    /\ token = expected => \A c \in Calls : call[c].result # "refused"

BridgeInv ==
    /\ TypeOK /\ Ids /\ Promises /\ Held /\ Made /\ Down
    /\ \A k \in Conns : Sent(conn[k])
    /\ Routed /\ Handshakes /\ Results

\* What a connection carries are frames.
LEMMA CarriedType ==
    ASSUME NEW q \in ConnType
    PROVE  Carried(q) \subseteq Frames /\ \A f \in Carried(q) : f.id \in Nat
<1>1. Elems(q.up) \subseteq Frames /\ Elems(q.down) \subseteq Frames
  BY ElemsType DEF ConnType
<1>2. Carried(q) \subseteq Frames
  BY <1>1 DEF Carried, ConnType
<1>3. \A f \in Frames : f.id \in Nat
  BY DEF Frames
<1>4. QED
  BY <1>2, <1>3

-----------------------------------------------------------------------------
(* What a session does to a connection.                                    *)

\* g is the request f or an answer to it.
Follows(f, g) ==
    /\ g.id = f.id /\ g.of = f.of
    /\ g.kind \in {"request", "content"} => f.kind \in {"request", "content"}
    /\ g.kind \in {"auth", "success"} => f.kind \in {"auth", "success"}

\* r is q after a step of the daemon.
Moves(q, r) ==
    /\ r \in ConnType
    /\ r.client = q.client
    /\ \A g \in Carried(r) : \E f \in Carried(q) : Follows(f, g)
    /\ Sent(r)
    /\ token = expected /\ Met(q) =>
          /\ Met(r)
          /\ q.auth => r.auth
          /\ token # None /\ q.up = <<>> /\ ~q.auth => r.up = <<>> /\ ~r.auth

\* A connection that the step does not touch.
LEMMA MovesSame ==
    ASSUME NEW q \in ConnType, Sent(q)
    PROVE  Moves(q, q)
<1>1. \A g \in Carried(q) : Follows(g, g)
  BY DEF Follows
<1>2. QED
  BY <1>1 DEF Moves

\* The session accepts: nothing was answered on a connection in the queue.
LEMMA MovesAccept ==
    ASSUME NEW q \in ConnType, Sent(q), q.server = "queued",
           NEW r, r = [q EXCEPT !.server = "serving", !.auth = (expected = None)]
    PROVE  Moves(q, r)
<1>1. /\ r \in ConnType /\ r.client = q.client /\ r.up = q.up /\ r.down = q.down
      /\ r.busy = q.busy /\ r.server = "serving" /\ r.auth = (expected = None)
  BY DEF ConnType
<1>2. Carried(r) = Carried(q) /\ Sent(r)
  BY <1>1 DEF Carried, Sent
<1>3. \A g \in Carried(r) : \E f \in Carried(q) : Follows(f, g)
  BY <1>2 DEF Follows
<1>4. ASSUME token = expected, Met(q)
      PROVE  /\ Met(r)
             /\ q.auth => r.auth
             /\ token # None /\ q.up = <<>> /\ ~q.auth => r.up = <<>> /\ ~r.auth
  BY <1>1, <1>4 DEF Met
<1>5. QED
  BY <1>1, <1>2, <1>3, <1>4 DEF Moves

\* The session closes its end, with what was not read or not taken lost.
LEMMA MovesClose ==
    ASSUME NEW q \in ConnType, Sent(q), NEW r \in ConnType,
           r.client = q.client, r.server = "closed", r.auth = q.auth,
           r.up \in {q.up, <<>>}, r.down \in {q.down, <<>>}, r.busy \in {q.busy, None}
    PROVE  Moves(q, r)
<1>1. Elems(r.up) \subseteq Elems(q.up) /\ Elems(r.down) \subseteq Elems(q.down)
  BY ElemsEmpty
<1>2. Carried(r) \subseteq Carried(q) /\ Sent(r)
  BY <1>1 DEF Carried, Sent
<1>3. \A g \in Carried(r) : \E f \in Carried(q) : Follows(f, g)
  BY <1>2 DEF Follows
<1>4. Len(r.up) <= Len(q.up)
  BY DEF ConnType
<1>5. Len(r.up) \in Nat /\ Len(q.up) \in Nat
  BY DEF ConnType
<1>6. ASSUME Met(q)
      PROVE  Met(r)
  BY <1>1, <1>4, <1>5, <1>6 DEF Met
<1>7. QED
  BY <1>2, <1>3, <1>6 DEF Moves

\* A frame is taken from the queue: a request by the handler ...
LEMMA MovesHandle ==
    ASSUME NEW q \in ConnType, Sent(q), q.server = "serving", q.up # <<>>, q.auth,
           Head(q.up).kind = "request",
           NEW r, r = [q EXCEPT !.busy = Head(q.up), !.up = Tail(q.up)]
    PROVE  Moves(q, r)
<1>0. q.up \in Seq(Frames)
  BY DEF ConnType
<1>1. /\ Head(q.up) \in Frames /\ Tail(q.up) \in Seq(Frames) /\ Head(q.up) \in Elems(q.up)
      /\ Elems(Tail(q.up)) \subseteq Elems(q.up) /\ Len(Tail(q.up)) = Len(q.up) - 1
  BY <1>0, ElemsTail
<1>2. /\ r \in ConnType /\ r.client = q.client /\ r.up = Tail(q.up) /\ r.down = q.down
      /\ r.busy = Head(q.up) /\ r.server = q.server /\ r.auth = q.auth
  BY <1>1 DEF ConnType
<1>3. Carried(r) \subseteq Carried(q)
  BY <1>1, <1>2 DEF Carried
<1>4. Sent(r)
  BY <1>1, <1>2 DEF Sent
<1>5. \A g \in Carried(r) : \E f \in Carried(q) : Follows(f, g)
  BY <1>3 DEF Follows
<1>6. ASSUME Met(q)
      PROVE  Met(r)
  BY <1>1, <1>2, <1>6 DEF Met
<1>7. QED
  BY <1>2, <1>3, <1>4, <1>5, <1>6 DEF Moves

\* ... which answers it ...
LEMMA MovesAnswer ==
    ASSUME NEW q \in ConnType, Sent(q), q.server = "serving", q.busy # None,
           q.at \in Sessions \cup {None},
           NEW r, r = [Reply(q, Response(q.busy, "content", q.at)) EXCEPT
                         !.busy = None, !.server = IF q.client = "open" THEN @ ELSE "closed"]
    PROVE  Moves(q, r)
<1>0. q.busy \in Frames /\ q.busy.kind = "request"
  BY DEF ConnType, Sent
<1>1. PICK a : a = Response(q.busy, "content", q.at)
  OBVIOUS
<1>2. a \in Frames /\ a.id = q.busy.id /\ a.of = q.busy.of /\ a.kind = "content"
  <2>1. q.busy \in Frames /\ q.at \in Sessions \cup {None}
        /\ "content" \in {"success", "content", "EACCES", "EPROTO"}
    BY <1>0
  <2>2. PICK f \in Frames, s \in Sessions \cup {None} : f = q.busy /\ s = q.at
    BY ONLY <2>1
  <2>3. a = [f EXCEPT !.kind = "content", !.by = s]
    BY ONLY <1>1, <2>2 DEF Response
  <2>4. a \in Frames /\ a.id = f.id /\ a.of = f.of /\ a.kind = "content"
    BY ONLY <2>2, <2>3 DEF Frames
  <2>5. QED
    BY ONLY <2>2, <2>4
<1>3. PICK t : t = Reply(q, a)
  OBVIOUS
<1>4. /\ t \in ConnType /\ t.client = q.client /\ t.server = q.server /\ t.auth = q.auth
      /\ t.up = q.up /\ Elems(t.down) \subseteq Elems(q.down) \cup {a}
  BY <1>2, <1>3, ReplyType
<1>5. r = [t EXCEPT !.busy = None, !.server = IF q.client = "open" THEN @ ELSE "closed"]
  BY <1>1, <1>3
<1>6. /\ r \in ConnType /\ r.client = q.client /\ r.auth = q.auth /\ r.up = q.up
      /\ r.down = t.down /\ r.busy = None /\ r.server \in {"serving", "closed"}
  BY <1>4, <1>5 DEF ConnType
<1>7. Follows(q.busy, a)
  BY <1>0, <1>2 DEF Follows
<1>8. \A g \in Carried(r) : \E f \in Carried(q) : Follows(f, g)
  <2>1. TAKE g \in Carried(r)
  <2>2. g \in Carried(q) \/ g = a
    BY <1>4, <1>6 DEF Carried
  <2>3. q.busy \in Carried(q)
    BY DEF Carried
  <2>4. g \in Carried(q) => Follows(g, g)
    BY DEF Follows
  <2>5. QED
    BY <2>2, <2>3, <2>4, <1>7
<1>9. Sent(r)
  BY <1>6 DEF Sent
<1>10. ASSUME Met(q)
       PROVE  Met(r)
  BY <1>2, <1>4, <1>6, <1>10 DEF Met
<1>11. QED
  BY <1>6, <1>8, <1>9, <1>10 DEF Moves

\* ... and any other frame by handle_stream.
LEMMA MovesHandshake ==
    ASSUME NEW q \in ConnType, Sent(q), q.server = "serving", q.up # <<>>,
           NEW kind \in {"success", "EACCES", "EPROTO"}, NEW auth, NEW server,
           ~(q.auth /\ Head(q.up).kind = "request"),
           IF q.auth THEN kind = "EPROTO" /\ auth = q.auth /\ server = "closed"
           ELSE IF Head(q.up).kind = "auth" /\ token = expected
                THEN kind = "success" /\ auth = TRUE /\ server = q.server
           ELSE kind = "EACCES" /\ auth = q.auth /\ server = "closed",
           NEW r, r = [Reply([q EXCEPT !.up = Tail(q.up)], Response(Head(q.up), kind, q.at))
                         EXCEPT !.server = server, !.auth = auth]
    PROVE  Moves(q, r)
<1>0. q.up \in Seq(Frames) /\ q.at \in Sessions \cup {None} /\ q.auth \in BOOLEAN
  BY DEF ConnType
<1>1. /\ Head(q.up) \in Frames /\ Tail(q.up) \in Seq(Frames) /\ Head(q.up) \in Elems(q.up)
      /\ Elems(Tail(q.up)) \subseteq Elems(q.up) /\ Len(Tail(q.up)) = Len(q.up) - 1
  BY <1>0, ElemsTail
<1>2. PICK f : f = Head(q.up)
  OBVIOUS
<1>3. PICK a : a = Response(f, kind, q.at)
  OBVIOUS
<1>4. a \in Frames /\ a.id = f.id /\ a.of = f.of /\ a.kind = kind
  <2>1. f \in Frames /\ kind \in {"success", "content", "EACCES", "EPROTO"}
        /\ q.at \in Sessions \cup {None}
    BY <1>0, <1>1, <1>2
  <2>2. PICK s \in Sessions \cup {None} : s = q.at
    BY ONLY <2>1
  <2>3. a = [f EXCEPT !.kind = kind, !.by = s]
    BY ONLY <1>3, <2>2 DEF Response
  <2>4. QED
    BY ONLY <2>1, <2>2, <2>3 DEF Frames
<1>5. PICK u : u = [q EXCEPT !.up = Tail(q.up)]
  OBVIOUS
<1>6. /\ u \in ConnType /\ u.client = q.client /\ u.server = q.server /\ u.auth = q.auth
      /\ u.up = Tail(q.up) /\ u.down = q.down /\ u.busy = q.busy
  BY <1>1, <1>5 DEF ConnType
<1>7. PICK t : t = Reply(u, a)
  OBVIOUS
<1>8. /\ t \in ConnType /\ t.client = q.client /\ t.server = q.server /\ t.auth = q.auth
      /\ t.up = Tail(q.up) /\ t.busy = q.busy
      /\ Elems(t.down) \subseteq Elems(q.down) \cup {a}
  BY <1>4, <1>6, <1>7, ReplyType
<1>9. r = [t EXCEPT !.server = server, !.auth = auth]
  BY <1>2, <1>3, <1>5, <1>7
<1>10. auth \in BOOLEAN /\ server \in {"serving", "closed"}
  BY <1>0
<1>11. /\ r \in ConnType /\ r.client = q.client /\ r.auth = auth /\ r.up = Tail(q.up)
       /\ r.down = t.down /\ r.busy = q.busy /\ r.server = server
  BY <1>8, <1>9, <1>10 DEF ConnType
<1>12. Follows(f, a)
  BY <1>2, <1>4 DEF Follows
<1>13. \A g \in Carried(r) : \E h \in Carried(q) : Follows(h, g)
  <2>1. TAKE g \in Carried(r)
  <2>2. g \in Carried(q) \/ g = a
    BY <1>1, <1>8, <1>11 DEF Carried
  <2>3. f \in Carried(q)
    BY <1>1, <1>2 DEF Carried
  <2>4. g \in Carried(q) => Follows(g, g)
    BY DEF Follows
  <2>5. QED
    BY <2>2, <2>3, <2>4, <1>12
<1>14. Sent(r)
  BY <1>1, <1>11 DEF Sent
<1>15. f.kind \in {"auth", "request"}
  BY <1>1, <1>2 DEF Sent
<1>16. ASSUME token = expected, Met(q)
       PROVE  /\ Met(r)
              /\ q.auth => r.auth
              /\ token # None /\ q.up = <<>> /\ ~q.auth => r.up = <<>> /\ ~r.auth
  <2>1. ~q.auth /\ token # None
    BY <1>0, <1>1, <1>2, <1>15, <1>16 DEF Met
  <2>2. f.kind = "auth" /\ Len(q.up) <= 1
    BY <1>1, <1>2, <1>16, <2>1 DEF Met
  <2>3. kind = "success" /\ auth = TRUE /\ server = q.server
    BY <1>2, <1>16, <2>1, <2>2
  <2>4. r.up = <<>>
    BY <1>0, <1>11, <2>2, TailOfOne
  <2>5. \A g \in Elems(r.down) : g.kind \in {"success", "content"}
    BY <1>4, <1>8, <1>11, <1>16, <2>3 DEF Met
  <2>6. r.auth /\ r.server = "serving"
    BY <1>11, <2>3
  <2>7. QED
    BY <2>1, <2>4, <2>5, <2>6, ElemsEmpty DEF Met
<1>17. QED
  BY <1>11, <1>13, <1>14, <1>16 DEF Moves

-----------------------------------------------------------------------------
(* Steps of the daemon.                                                    *)

\* What TypeOK says of the connections and of the calls.
LEMMA Types ==
    TypeOK <=>
       /\ expected \in Tokens \cup {None} /\ token \in Tokens \cup {None}
       /\ session \in [Sessions -> {"off", "up", "stopped"}]
       /\ stale \subseteq Sessions /\ faults \in 0..MaxFaults
       /\ conn \in [Conns -> ConnType]
       /\ channel \in Conns \cup {None} /\ lock \in Calls \cup {None}
       /\ loop \in Conns \cup {None} /\ pending \subseteq Promise
       /\ call \in [Calls -> CallType] /\ nextId \in Nat
BY DEF TypeOK, ConnType, CallType, Promise

\* A connection after a step of the daemon.
LEMMA ServeMoves ==
    ASSUME TypeOK, \A j \in Conns : Sent(conn[j]), NEW k \in Conns, Serve(k)
    PROVE  conn' \in [Conns -> ConnType] /\ \A j \in Conns : Moves(conn[j], conn'[j])
<1>1. conn \in [Conns -> ConnType]
  BY Types
<1>2. PICK q : q = conn[k]
  OBVIOUS
<1>3. q \in ConnType /\ Sent(q)
  BY <1>1, <1>2
<1>4. SUFFICES ASSUME NEW r, conn' = [conn EXCEPT ![k] = r]
               PROVE  Moves(q, r)
  <2>1. \E r : conn' = [conn EXCEPT ![k] = r]
    BY DEF Serve, Accept, Handshake, Handle, Answer, ClientGone, Shutdown
  <2>2. PICK r : conn' = [conn EXCEPT ![k] = r]
    BY <2>1
  <2>3. Moves(q, r) => r \in ConnType
    BY DEF Moves
  <2>4. \A j \in Conns : j # k => conn'[j] = conn[j] /\ Moves(conn[j], conn[j])
    BY <1>1, <2>2, MovesSame
  <2>5. conn'[k] = r
    BY <1>1, <2>2
  <2>6. Moves(q, r)
    BY <1>4, <2>2
  <2>7. QED
    BY <1>1, <1>2, <2>2, <2>3, <2>4, <2>5, <2>6
<1>5. conn'[k] = r
  BY <1>1, <1>4
<1>6. CASE Accept(k)
  <2>1. q.server = "queued" /\ r = [q EXCEPT !.server = "serving", !.auth = (expected = None)]
    BY <1>1, <1>2, <1>5, <1>6 DEF Accept
  <2>2. QED
    BY <1>3, <2>1, MovesAccept
<1>7. CASE Handshake(k)
  <2>1. /\ q.server = "serving" /\ q.up # <<>> /\ ~(q.auth /\ Head(q.up).kind = "request")
    BY <1>2, <1>7 DEF Handshake
  <2>2. q.auth \in BOOLEAN
    BY <1>3 DEF ConnType
  <2>3. PICK u : u = [q EXCEPT !.up = Tail(q.up)]
    OBVIOUS
  <2>4. PICK f : f = Head(q.up)
    OBVIOUS
  <2>5. r = IF q.auth THEN [Reply(u, Response(f, "EPROTO", q.at)) EXCEPT !.server = "closed"]
            ELSE IF f.kind = "auth" /\ token = expected
                 THEN [Reply(u, Response(f, "success", q.at)) EXCEPT !.auth = TRUE]
            ELSE [Reply(u, Response(f, "EACCES", q.at)) EXCEPT !.server = "closed"]
    BY <1>1, <1>2, <1>5, <1>7, <2>3, <2>4 DEF Handshake
  <2>6. /\ f \in Frames /\ u \in ConnType /\ u.server = q.server /\ u.auth = q.auth
        /\ q.at \in Sessions \cup {None}
    <3>1. q.up \in Seq(Frames) /\ q.at \in Sessions \cup {None}
      BY <1>3 DEF ConnType
    <3>2. f \in Frames /\ Tail(q.up) \in Seq(Frames)
      BY <3>1, <2>1, <2>4, ElemsTail
    <3>3. QED
      BY <1>3, <2>3, <3>1, <3>2 DEF ConnType
  <2>7. ASSUME NEW kind \in {"success", "EACCES", "EPROTO"}
        PROVE  /\ Reply(u, Response(f, kind, q.at)) \in ConnType
               /\ Reply(u, Response(f, kind, q.at)).server = q.server
               /\ Reply(u, Response(f, kind, q.at)).auth = q.auth
    <3>1. Response(f, kind, q.at) \in Frames
      <4>1. kind \in {"success", "content", "EACCES", "EPROTO"}
        OBVIOUS
      <4>2. QED
        BY <4>1, <2>6, ResponseType
    <3>2. QED
      BY <3>1, <2>6, ReplyType
  <2>8. ASSUME NEW t \in ConnType
        PROVE  /\ [t EXCEPT !.server = "closed"] = [t EXCEPT !.server = "closed", !.auth = t.auth]
               /\ [t EXCEPT !.auth = TRUE] = [t EXCEPT !.server = t.server, !.auth = TRUE]
    BY DEF ConnType
  <2>9. CASE q.auth
    <3>1. r = [Reply(u, Response(f, "EPROTO", q.at)) EXCEPT !.server = "closed", !.auth = q.auth]
      BY <2>5, <2>7, <2>8, <2>9
    <3>2. QED
      BY <1>3, <2>1, <2>3, <2>4, <2>9, <3>1, MovesHandshake
  <2>10. CASE ~q.auth /\ f.kind = "auth" /\ token = expected
    <3>1. r = [Reply(u, Response(f, "success", q.at)) EXCEPT !.server = q.server, !.auth = TRUE]
      BY <2>5, <2>7, <2>8, <2>10
    <3>2. QED
      BY <1>3, <2>1, <2>3, <2>4, <2>10, <3>1, MovesHandshake
  <2>11. CASE ~q.auth /\ ~(f.kind = "auth" /\ token = expected)
    <3>1. r = [Reply(u, Response(f, "EACCES", q.at)) EXCEPT !.server = "closed", !.auth = q.auth]
      BY <2>5, <2>7, <2>8, <2>11
    <3>2. QED
      BY <1>3, <2>1, <2>3, <2>4, <2>11, <3>1, MovesHandshake
  <2>12. QED
    BY <2>2, <2>9, <2>10, <2>11
<1>8. CASE Handle(k)
  <2>1. /\ q.server = "serving" /\ q.up # <<>> /\ q.auth /\ Head(q.up).kind = "request"
        /\ r = [q EXCEPT !.busy = Head(q.up), !.up = Tail(q.up)]
    BY <1>1, <1>2, <1>5, <1>8 DEF Handle
  <2>2. QED
    BY <1>3, <2>1, MovesHandle
<1>9. CASE Answer(k)
  <2>1. /\ q.server = "serving" /\ q.busy # None
        /\ r = [Reply(q, Response(q.busy, "content", q.at)) EXCEPT
                  !.busy = None, !.server = IF q.client = "open" THEN @ ELSE "closed"]
    BY <1>1, <1>2, <1>5, <1>9 DEF Answer
  <2>2. q.at \in Sessions \cup {None}
    BY <1>3 DEF ConnType
  <2>3. QED
    BY <1>3, <2>1, <2>2, MovesAnswer
<1>10. CASE ClientGone(k)
  <2>1. r = [q EXCEPT !.server = "closed"]
    BY <1>1, <1>2, <1>5, <1>10 DEF ClientGone
  <2>2. /\ r \in ConnType /\ r.client = q.client /\ r.server = "closed" /\ r.auth = q.auth
        /\ r.up = q.up /\ r.down = q.down /\ r.busy = q.busy
    BY <1>3, <2>1 DEF ConnType
  <2>3. QED
    BY <1>3, <2>2, MovesClose
<1>11. CASE Shutdown(k)
  <2>1. r \in Closed(q)
    BY <1>1, <1>2, <1>5, <1>11 DEF Shutdown
  <2>2. PICK d \in {q.down, <<>>} : r = [q EXCEPT !.server = "closed", !.up = <<>>, !.down = d]
    BY <2>1 DEF Closed
  <2>3. d \in Seq(Frames) /\ <<>> \in Seq(Frames)
    <3>1. q.down \in Seq(Frames)
      BY <1>3 DEF ConnType
    <3>2. <<>> \in Seq(Frames)
      OBVIOUS
    <3>3. QED
      BY <3>1, <3>2
  <2>4. /\ r \in ConnType /\ r.client = q.client /\ r.server = "closed" /\ r.auth = q.auth
        /\ r.up = <<>> /\ r.down = d /\ r.busy = q.busy
    BY <1>3, <2>2, <2>3 DEF ConnType
  <2>5. QED
    BY <1>3, <2>2, <2>4, MovesClose
<1>12. QED
  BY <1>6, <1>7, <1>8, <1>9, <1>10, <1>11 DEF Serve

\* The connections when a session ends.
LEMMA StopMoves ==
    ASSUME TypeOK, \A j \in Conns : Sent(conn[j]), NEW s \in Sessions,
           Listen(s) \/ Stop(s) \/ StopAnyway(s) \/ Crash(s)
    PROVE  conn' \in [Conns -> ConnType] /\ \A j \in Conns : Moves(conn[j], conn'[j])
<1>1. conn \in [Conns -> ConnType]
  BY Types
<1>2. CASE Listen(s)
  BY <1>1, <1>2, MovesSame DEF Listen
<1>3. CASE Stop(s) \/ StopAnyway(s)
  <2>1. conn' = Refused
    BY <1>3 DEF Stop, StopAnyway
  <2>2. ASSUME NEW j \in Conns
        PROVE  Moves(conn[j], conn'[j])
    <3>1. conn'[j] \in {conn[j], [conn[j] EXCEPT !.server = "closed"]}
      BY <2>1 DEF Refused
    <3>2. PICK r : r = [conn[j] EXCEPT !.server = "closed"]
      OBVIOUS
    <3>3. PICK q : q = conn[j]
      OBVIOUS
    <3>4. q \in ConnType /\ Sent(q)
      BY <1>1, <3>3
    <3>5. /\ r \in ConnType /\ r.client = q.client /\ r.server = "closed" /\ r.auth = q.auth
          /\ r.up = q.up /\ r.down = q.down /\ r.busy = q.busy
      BY <3>2, <3>3, <3>4 DEF ConnType
    <3>6. Moves(q, r) /\ Moves(q, q)
      BY <3>4, <3>5, MovesClose, MovesSame
    <3>7. QED
      BY <3>1, <3>2, <3>3, <3>6
  <2>3. DOMAIN conn' = Conns /\ conn' = [j \in Conns |-> conn'[j]]
    BY <2>1 DEF Refused
  <2>4. QED
    BY <2>2, <2>3 DEF Moves
<1>4. CASE Crash(s)
  <2>1. PICK lost \in SUBSET Conns :
          conn' = [k \in Conns |->
             IF conn[k].server \notin {"queued", "serving"} THEN conn[k]
             ELSE [conn[k] EXCEPT !.server = "closed", !.up = <<>>, !.busy = None,
                                  !.down = IF k \in lost THEN <<>> ELSE @]]
    BY <1>4 DEF Crash
  <2>2. ASSUME NEW j \in Conns
        PROVE  Moves(conn[j], conn'[j])
    <3>1. PICK q : q = conn[j]
      OBVIOUS
    <3>2. q \in ConnType /\ Sent(q)
      BY <1>1, <3>1
    <3>3. PICK d \in {q.down, <<>>} :
             conn'[j] \in {q, [q EXCEPT !.server = "closed", !.up = <<>>, !.busy = None, !.down = d]}
      <4>1. CASE j \in lost
        <5>1. conn'[j] \in {q, [q EXCEPT !.server = "closed", !.up = <<>>, !.busy = None, !.down = <<>>]}
          BY <2>1, <3>1, <4>1
        <5>2. QED
          BY <5>1
      <4>2. CASE j \notin lost
        <5>1. conn'[j] \in {q, [q EXCEPT !.server = "closed", !.up = <<>>, !.busy = None, !.down = q.down]}
          BY <2>1, <3>1, <4>2
        <5>2. QED
          BY <5>1
      <4>3. QED
        BY <4>1, <4>2
    <3>4. PICK r : r = [q EXCEPT !.server = "closed", !.up = <<>>, !.busy = None, !.down = d]
      OBVIOUS
    <3>5. d \in Seq(Frames) /\ <<>> \in Seq(Frames)
      <4>1. q.down \in Seq(Frames)
        BY <3>2 DEF ConnType
      <4>2. <<>> \in Seq(Frames)
        OBVIOUS
      <4>3. QED
        BY <4>1, <4>2
    <3>6. /\ r \in ConnType /\ r.client = q.client /\ r.server = "closed" /\ r.auth = q.auth
          /\ r.up = <<>> /\ r.down = d /\ r.busy = None
      BY <3>2, <3>4, <3>5 DEF ConnType
    <3>7. Moves(q, r) /\ Moves(q, q)
      BY <3>2, <3>3, <3>6, MovesClose, MovesSame
    <3>8. QED
      BY <3>1, <3>3, <3>4, <3>7
  <2>3. DOMAIN conn' = Conns /\ conn' = [j \in Conns |-> conn'[j]]
    BY <2>1
  <2>4. QED
    BY <2>2, <2>3 DEF Moves
<1>5. QED
  BY <1>2, <1>3, <1>4

\* BridgeInv when the extension does nothing and the daemon moves frames.
LEMMA DaemonStep ==
    ASSUME BridgeInv, TypeOK', \A j \in Conns : Moves(conn[j], conn'[j]),
           UNCHANGED <<setup, client>>
    PROVE  BridgeInv'
<1>1. /\ channel' = channel /\ lock' = lock /\ loop' = loop /\ pending' = pending
      /\ call' = call /\ nextId' = nextId /\ token' = token /\ expected' = expected
  BY DEF setup, client
<1>2. \A j \in Conns : conn'[j].client = conn[j].client
  BY DEF Moves
<1>3. channel \in Conns \cup {None} /\ loop \in Conns \cup {None} /\ conn \in [Conns -> ConnType]
  BY Types DEF BridgeInv
<1>4. Ids'
  BY <1>1 DEF BridgeInv, Ids, Moves, Follows
<1>5. Promises'
  BY <1>1 DEF BridgeInv, Promises
<1>6. Held'
  BY <1>1, <1>2 DEF BridgeInv, Held, IsOpen
<1>7. Made'
  BY <1>1, <1>2, <1>3 DEF BridgeInv, Made, HasConn
<1>8. Down'
  BY <1>1, <1>2, <1>3 DEF BridgeInv, Down, IsOpen
<1>9. \A k \in Conns : Sent(conn'[k])
  BY DEF Moves
<1>10. Routed'
  <2>1. SUFFICES ASSUME NEW k \in Conns, NEW g \in Carried(conn'[k]), NEW p \in pending,
                        p.id = g.id
                 PROVE  /\ g.of = p.call
                        /\ call[p.call].conn = k
                        /\ IF p.auth THEN g.kind \notin {"request", "content"}
                           ELSE g.kind \notin {"auth", "success"}
    BY <1>1 DEF Routed
  <2>2. PICK f \in Carried(conn[k]) : Follows(f, g)
    BY DEF Moves
  <2>3. /\ f.of = p.call
        /\ call[p.call].conn = k
        /\ IF p.auth THEN f.kind \notin {"request", "content"}
           ELSE f.kind \notin {"auth", "success"}
    BY <2>1, <2>2 DEF BridgeInv, Routed, Follows
  <2>4. QED
    BY <2>2, <2>3 DEF Follows
<1>11. Handshakes'
  <2>1. SUFFICES ASSUME token = expected
                 PROVE  Handshakes'
    BY <1>1 DEF Handshakes
  <2>2. \A k \in Conns : Met(conn[k])
    BY <2>1 DEF BridgeInv, Handshakes
  <2>3. \A k \in Conns : /\ Met(conn'[k])
                         /\ conn[k].auth => conn'[k].auth
                         /\ token # None /\ conn[k].up = <<>> /\ ~conn[k].auth =>
                               conn'[k].up = <<>> /\ ~conn'[k].auth
    BY <2>1, <2>2 DEF Moves
  <2>4. \A k \in Conns : Met(conn[k])'
    BY <1>1, <2>3 DEF Met
  <2>5. \A k \in Conns : token # None /\ ~conn'[k].auth => ~Shared(k)'
    BY <1>1, <2>1, <2>3 DEF BridgeInv, Handshakes, Shared
  <2>6. \A c \in Calls : call[c].pc = "opened" => call[c].conn \in Conns /\ token # None
    BY <2>1 DEF BridgeInv, Made, HasConn, Handshakes
  <2>7. \A c \in Calls : call[c].pc = "opened" =>
           conn'[call[c].conn].up = <<>> /\ ~conn'[call[c].conn].auth
    BY <2>1, <2>3, <2>6 DEF BridgeInv, Handshakes
  <2>8. token = None => \A c \in Calls : call[c].pc \notin {"opened", "authing", "closing"}
    BY <2>1 DEF BridgeInv, Handshakes
  <2>9. QED
    BY <1>1, <2>4, <2>5, <2>7, <2>8 DEF Handshakes
<1>12. Results'
  <2>1. \A c \in Calls : call[c].result = "down" => call[c].conn \in Conns
    BY DEF BridgeInv, Made, HasConn
  <2>2. QED
    BY <1>1, <1>2, <2>1 DEF BridgeInv, Results
<1>13. QED
  BY <1>4, <1>5, <1>6, <1>7, <1>8, <1>9, <1>10, <1>11, <1>12 DEF BridgeInv

-----------------------------------------------------------------------------
(* Steps of the extension that leave the connections alone.                *)

\* A call after a step of its own.
LEMMA CallUpdate ==
    ASSUME TypeOK, NEW c \in Calls, NEW x \in CallType, call' = [call EXCEPT ![c] = x]
    PROVE  /\ call' \in [Calls -> CallType]
           /\ call'[c] = x
           /\ \A d \in Calls \ {c} : call'[d] = call[d]
<1>1. call \in [Calls -> CallType]
  BY Types
<1>2. QED
  BY <1>1

\* A call that has ended.
LEMMA EndedCall ==
    ASSUME TypeOK, NEW c \in Calls, NEW result \in {"ok", "refused", "failed", "timeout", "down"}
    PROVE  /\ Ended(c, result) \in CallType
           /\ Ended(c, result).pc = "done" /\ Ended(c, result).result = result
           /\ Ended(c, result).conn = call[c].conn /\ Ended(c, result).id = call[c].id
           /\ Ended(c, result).unsent = call[c].unsent
           /\ Ended(c, result).answer = call[c].answer
<1>1. call[c] \in CallType
  BY Types
<1>2. QED
  BY <1>1 DEF CallType, Ended

\* A call after a change of its pc alone.
LEMMA PcCall ==
    ASSUME TypeOK, NEW c \in Calls,
           NEW pc \in {"locking", "connecting", "authing", "closing", "got"},
           NEW x, x = [call[c] EXCEPT !.pc = pc]
    PROVE  /\ x \in CallType
           /\ x.pc = pc /\ x.result = call[c].result /\ x.conn = call[c].conn
           /\ x.id = call[c].id /\ x.unsent = call[c].unsent /\ x.answer = call[c].answer
<1>1. call[c] \in CallType
  BY Types
<1>2. QED
  BY <1>1 DEF CallType

\* TypeOK of the next state.
LEMMA NextTypes ==
    ASSUME TypeOK,
           conn' \in [Conns -> ConnType], call' \in [Calls -> CallType],
           channel' \in Conns \cup {None}, lock' \in Calls \cup {None},
           loop' \in Conns \cup {None}, pending' \subseteq Promise, nextId' \in Nat,
           UNCHANGED <<setup, daemon>>
    PROVE  TypeOK'
BY DEF TypeOK, ConnType, CallType, Promise, setup, daemon

\* Ids and Routed when no frame and no promise is added.
LEMMA Fewer ==
    ASSUME BridgeInv, pending' \subseteq pending, nextId' = nextId,
           \A k \in Conns : Carried(conn'[k]) \subseteq Carried(conn[k]),
           \A d \in Calls : call'[d].id = call[d].id,
           \A p \in pending' : call'[p.call].conn = call[p.call].conn
    PROVE  Ids' /\ Routed'
<1>1. Ids'
  BY DEF BridgeInv, Ids
<1>2. Routed'
  <2>1. SUFFICES ASSUME NEW k \in Conns, NEW f \in Carried(conn'[k]), NEW p \in pending',
                        p.id = f.id
                 PROVE  /\ f.of = p.call
                        /\ call'[p.call].conn = k
                        /\ IF p.auth THEN f.kind \notin {"request", "content"}
                           ELSE f.kind \notin {"auth", "success"}
    BY DEF Routed
  <2>2. f \in Carried(conn[k]) /\ p \in pending
    OBVIOUS
  <2>3. QED
    BY <2>1, <2>2 DEF BridgeInv, Routed
<1>3. QED
  BY <1>1, <1>2

\* Handshakes when no frame is added and no connection shared before its time.
LEMMA Quiet ==
    ASSUME BridgeInv, UNCHANGED setup,
           \A k \in Conns : /\ conn'[k].auth = conn[k].auth
                            /\ conn'[k].up = conn[k].up
                            /\ conn'[k].server = conn[k].server
                            /\ Elems(conn'[k].down) \subseteq Elems(conn[k].down),
           token = expected => \A k \in Conns : Shared(k)' => Shared(k) \/ conn[k].auth,
           \A c \in Calls : call'[c].pc = "opened" =>
              call[c].pc = "opened" /\ call'[c].conn = call[c].conn,
           token = None => \A c \in Calls : call'[c].pc \in {"authing", "closing"} =>
              call[c].pc \in {"authing", "closing"}
    PROVE  Handshakes'
<1>1. token' = token /\ expected' = expected
  BY DEF setup
<1>2. SUFFICES ASSUME token = expected
               PROVE  Handshakes'
  BY <1>1 DEF Handshakes
<1>3. \A k \in Conns : Met(conn[k])'
  <2>1. \A k \in Conns : Met(conn[k])
    BY <1>2 DEF BridgeInv, Handshakes
  <2>2. QED
    BY <1>1, <2>1 DEF Met
<1>4. \A k \in Conns : token # None /\ ~conn'[k].auth => ~Shared(k)'
  BY <1>2 DEF BridgeInv, Handshakes
<1>5. \A c \in Calls : call'[c].pc = "opened" =>
         conn'[call'[c].conn].up = <<>> /\ ~conn'[call'[c].conn].auth
  <2>1. SUFFICES ASSUME NEW c \in Calls, call'[c].pc = "opened"
                 PROVE  conn'[call'[c].conn].up = <<>> /\ ~conn'[call'[c].conn].auth
    OBVIOUS
  <2>2. call[c].pc = "opened" /\ call'[c].conn = call[c].conn
    BY <2>1
  <2>3. call[c].conn \in Conns
    BY <2>2 DEF BridgeInv, Made, HasConn
  <2>4. conn[call[c].conn].up = <<>> /\ ~conn[call[c].conn].auth
    BY <1>2, <2>2 DEF BridgeInv, Handshakes
  <2>5. QED
    BY <2>2, <2>3, <2>4
<1>6. token = None => \A c \in Calls : call'[c].pc \notin {"opened", "authing", "closing"}
  BY <1>2 DEF BridgeInv, Handshakes
<1>7. QED
  BY <1>1, <1>3, <1>4, <1>5, <1>6 DEF Handshakes

\* A call takes a step that leaves the connections and the promises alone.
LEMMA QuietCall ==
    ASSUME BridgeInv, NEW c \in Calls, NEW x \in CallType, call' = [call EXCEPT ![c] = x],
           UNCHANGED <<setup, daemon, conn, channel, loop, pending, nextId>>,
           lock' \in Calls \cup {None}, Held',
           x.id = call[c].id, x.answer = call[c].answer, x.unsent = call[c].unsent,
           x.conn = call[c].conn,
           \/ x.result = call[c].result /\ x.pc # "done"
           \/ x.result = "failed" /\ x.pc = "done",
           \/ call[c].pc \in {"idle", "locking", "connecting"} /\ x.pc \in {"locking", "connecting", "done"}
           \/ call[c].pc \in {"authing", "closing"} /\ x.pc \in {"closing", "done"}
    PROVE  BridgeInv'
<1>0. TypeOK
  BY DEF BridgeInv
<1>1. /\ call' \in [Calls -> CallType] /\ call'[c] = x
      /\ \A d \in Calls \ {c} : call'[d] = call[d]
  BY <1>0, CallUpdate
<1>2. /\ channel' = channel /\ loop' = loop /\ pending' = pending /\ nextId' = nextId
      /\ token' = token /\ expected' = expected /\ conn' = conn
  BY DEF setup
<1>3. TypeOK'
  BY <1>0, <1>1, <1>2, NextTypes, Types
<1>4. \A p \in pending : p \in Promise /\ p.call \in Calls /\ p.auth \in BOOLEAN
  BY <1>0, Types DEF Promise
<1>5. ~x.unsent /\ x.result \in {"none", "failed"} /\ x.unsent \in BOOLEAN
  BY DEF BridgeInv, Promises, CallType
<1>6. Promises'
  <2>1. \A p \in pending : \A d \in Calls : p.id = call'[d].id => p.call = d /\ ~p.auth
    BY <1>1 DEF BridgeInv, Promises
  <2>2. \A p \in pending : ~p.auth => p.id = call'[p.call].id
    BY <1>1, <1>4 DEF BridgeInv, Promises
  <2>3. \A p \in pending :
          IF p.auth THEN call'[p.call].pc \in {"authing", "closing", "done"}
          ELSE call'[p.call].pc = "waiting"
    BY <1>1, <1>4 DEF BridgeInv, Promises
  <2>4. \A d \in Calls : call'[d].pc # "done" => call'[d].result = "none"
    BY <1>1 DEF BridgeInv, Promises
  <2>5. \A d \in Calls : call'[d].unsent => call'[d].pc \in {"waiting", "done"}
    BY <1>1, <1>5 DEF BridgeInv, Promises
  <2>6. QED
    BY <1>2, <2>1, <2>2, <2>3, <2>4, <2>5 DEF BridgeInv, Promises
<1>7. Made'
  BY <1>1, <1>2, <1>5 DEF BridgeInv, Made, HasConn
<1>8. Down' /\ \A k \in Conns : Sent(conn'[k])
  BY <1>2 DEF BridgeInv, Down, IsOpen
<1>9. Ids' /\ Routed'
  <2>1. \A d \in Calls : call'[d].id = call[d].id /\ call'[d].conn = call[d].conn
    BY <1>1
  <2>2. QED
    BY <1>2, <1>4, <2>1, Fewer
<1>10. Handshakes'
  <2>1. \A k \in Conns : Shared(k)' => Shared(k)
    BY <1>1, <1>2, <1>5 DEF Shared
  <2>2. QED
    BY <1>1, <1>2, <2>1, Quiet
<1>11. Results'
  BY <1>1, <1>2, <1>5 DEF BridgeInv, Results
<1>12. QED
  BY <1>3, <1>6, <1>7, <1>8, <1>9, <1>10, <1>11 DEF BridgeInv

\* send is called.
LEMMA SendStep ==
    ASSUME BridgeInv, NEW c \in Calls, NEW s \in Sessions, Send(c, s)
    PROVE  BridgeInv'
<1>0. TypeOK
  BY DEF BridgeInv
<1>1. PICK x : x = [call[c] EXCEPT !.pc = "locking", !.vol = s]
  OBVIOUS
<1>2. call[c] \in CallType /\ call \in [Calls -> CallType] /\ lock \in Calls \cup {None}
  BY <1>0, Types
<1>3. /\ x \in CallType
      /\ x.pc = "locking" /\ x.result = call[c].result /\ x.conn = call[c].conn
      /\ x.id = call[c].id /\ x.unsent = call[c].unsent /\ x.answer = call[c].answer
  BY <1>1, <1>2 DEF CallType
<1>4. call' = [call EXCEPT ![c] = x]
  BY <1>1, <1>2 DEF Send
<1>5. call'[c] = x /\ \A d \in Calls \ {c} : call'[d] = call[d]
  BY <1>0, <1>3, <1>4, CallUpdate
<1>6. call[c].pc = "idle" /\ lock' = lock
  BY DEF Send
<1>7. UNCHANGED <<setup, daemon, conn, channel, loop, pending, nextId>>
  BY DEF Send
<1>8. Held'
  BY <1>3, <1>5, <1>6, <1>7 DEF BridgeInv, Held, IsOpen, Opening
<1>9. QED
  BY <1>2, <1>3, <1>4, <1>6, <1>7, <1>8, QuietCall

\* channelLock is taken to make a connection: the old one is not open.
LEMMA ReconnectStep ==
    ASSUME BridgeInv, NEW c \in Calls, Reconnect(c)
    PROVE  BridgeInv'
<1>0. TypeOK
  BY DEF BridgeInv
<1>1. PICK x : x = [call[c] EXCEPT !.pc = "connecting"]
  OBVIOUS
<1>2. call[c] \in CallType /\ call \in [Calls -> CallType]
  BY <1>0, Types
<1>3. /\ x \in CallType
      /\ x.pc = "connecting" /\ x.result = call[c].result /\ x.conn = call[c].conn
      /\ x.id = call[c].id /\ x.unsent = call[c].unsent /\ x.answer = call[c].answer
  BY <1>0, <1>1, PcCall
<1>4. call' = [call EXCEPT ![c] = x]
  BY <1>1, <1>2 DEF Reconnect
<1>5. call'[c] = x /\ \A d \in Calls \ {c} : call'[d] = call[d]
  BY <1>0, <1>3, <1>4, CallUpdate
<1>6. call[c].pc = "locking" /\ lock' = c /\ lock = None /\ (channel # None => ~IsOpen(channel))
  BY DEF Reconnect
<1>7. UNCHANGED <<setup, daemon, conn, channel, loop, pending, nextId>>
  BY DEF Reconnect
<1>8. Held'
  <2>1. \A d \in Calls : call'[d].pc \in Opening <=> lock' = d
    BY <1>3, <1>5, <1>6, BridgeAssumption DEF BridgeInv, Held, Opening
  <2>2. \A k \in Conns : ~IsOpen(k)
    BY <1>6, BridgeAssumption DEF BridgeInv, Held
  <2>3. QED
    BY <1>7, <2>1, <2>2 DEF Held, IsOpen
<1>9. QED
  BY <1>3, <1>4, <1>6, <1>7, <1>8, QuietCall

\* The connection cannot be made.
LEMMA ConnectFailsStep ==
    ASSUME BridgeInv, NEW c \in Calls, ConnectFails(c)
    PROVE  BridgeInv'
<1>0. TypeOK
  BY DEF BridgeInv
<1>1. PICK x : x = Ended(c, "failed")
  OBVIOUS
<1>2. /\ x \in CallType
      /\ x.pc = "done" /\ x.result = "failed" /\ x.conn = call[c].conn
      /\ x.id = call[c].id /\ x.unsent = call[c].unsent /\ x.answer = call[c].answer
  BY <1>0, <1>1, EndedCall
<1>3. call' = [call EXCEPT ![c] = x]
  BY <1>1 DEF ConnectFails
<1>4. call'[c] = x /\ \A d \in Calls \ {c} : call'[d] = call[d]
  BY <1>0, <1>2, <1>3, CallUpdate
<1>5. call[c].pc = "connecting" /\ lock' = None
  BY DEF ConnectFails
<1>6. UNCHANGED <<setup, daemon, conn, channel, loop, pending, nextId>>
  BY DEF ConnectFails
<1>7. Held'
  <2>1. lock = c /\ \A d \in Calls : call[d].pc \in Opening <=> lock = d
    BY <1>5 DEF BridgeInv, Held, Opening
  <2>2. \A d \in Calls : call'[d].pc \in Opening <=> lock' = d
    BY <1>2, <1>4, <1>5, <2>1, BridgeAssumption DEF Opening
  <2>3. \A k \in Conns : ~IsOpen(k)
    BY <1>5, <2>1, BridgeAssumption DEF BridgeInv, Held
  <2>4. QED
    BY <1>5, <1>6, <2>2, <2>3 DEF Held, IsOpen
<1>8. QED
  BY <1>2, <1>3, <1>5, <1>6, <1>7, QuietCall

\* The answer to the handshake is late.
LEMMA AuthTimeoutStep ==
    ASSUME BridgeInv, NEW c \in Calls, AuthTimeout(c)
    PROVE  BridgeInv'
<1>0. TypeOK
  BY DEF BridgeInv
<1>1. PICK x : x = [call[c] EXCEPT !.pc = "closing"]
  OBVIOUS
<1>2. call[c] \in CallType /\ call \in [Calls -> CallType] /\ lock \in Calls \cup {None}
  BY <1>0, Types
<1>3. /\ x \in CallType
      /\ x.pc = "closing" /\ x.result = call[c].result /\ x.conn = call[c].conn
      /\ x.id = call[c].id /\ x.unsent = call[c].unsent /\ x.answer = call[c].answer
  BY <1>0, <1>1, PcCall
<1>4. call' = [call EXCEPT ![c] = x]
  BY <1>1, <1>2 DEF AuthTimeout
<1>5. call'[c] = x /\ \A d \in Calls \ {c} : call'[d] = call[d]
  BY <1>0, <1>3, <1>4, CallUpdate
<1>6. call[c].pc = "authing" /\ lock' = lock
  BY DEF AuthTimeout
<1>7. UNCHANGED <<setup, daemon, conn, channel, loop, pending, nextId>>
  BY DEF AuthTimeout
<1>8. Held'
  BY <1>3, <1>5, <1>6, <1>7 DEF BridgeInv, Held, IsOpen, Opening
<1>9. QED
  BY <1>2, <1>3, <1>4, <1>6, <1>7, <1>8, QuietCall

\* A connection is down: it was the only one that was open.
LEMMA TakeDownStep ==
    ASSUME BridgeInv, NEW k \in Conns, loop = None, IsOpen(k), TakeDown(k),
           UNCHANGED <<setup, daemon, channel, lock, pending, call, nextId>>
    PROVE  BridgeInv'
<1>0. TypeOK /\ conn \in [Conns -> ConnType]
  BY Types DEF BridgeInv
<1>1. PICK q : q = conn[k]
  OBVIOUS
<1>2. PICK r : r = [q EXCEPT !.client = "down", !.down = <<>>]
  OBVIOUS
<1>3. q \in ConnType /\ conn' = [conn EXCEPT ![k] = r]
  BY <1>0, <1>1, <1>2 DEF TakeDown
<1>4. <<>> \in Seq(Frames)
  OBVIOUS
<1>5. /\ r \in ConnType /\ r.client = "down" /\ r.server = q.server /\ r.auth = q.auth
      /\ r.up = q.up /\ r.down = <<>> /\ r.busy = q.busy
  BY <1>2, <1>3, <1>4 DEF ConnType
<1>6. /\ conn' \in [Conns -> ConnType] /\ conn'[k] = r
      /\ \A j \in Conns \ {k} : conn'[j] = conn[j]
  BY <1>0, <1>3, <1>5
<1>7. /\ channel' = channel /\ lock' = lock /\ loop' = k /\ pending' = pending
      /\ call' = call /\ nextId' = nextId /\ token' = token /\ expected' = expected
  BY DEF setup, TakeDown
<1>8. TypeOK'
  BY <1>0, <1>6, <1>7, NextTypes, Types
<1>9. \A j \in Conns \ {k} : ~IsOpen(j)
  BY BridgeAssumption DEF BridgeInv, Held
<1>10. \A j \in Conns : ~IsOpen(j)'
  BY <1>5, <1>6, <1>9 DEF IsOpen
<1>11. Promises'
  BY <1>7 DEF BridgeInv, Promises
<1>12. Held'
  BY <1>7, <1>10 DEF BridgeInv, Held
<1>13. \A j \in Conns : conn[j].client # "none" => conn'[j].client # "none"
  BY <1>5, <1>6
<1>14. Made'
  <2>1. channel \in Conns \cup {None}
    BY <1>0, Types
  <2>2. QED
    BY <1>7, <1>13, <2>1 DEF BridgeInv, Made, HasConn
<1>15. Down'
  BY <1>5, <1>6, <1>7, <1>10 DEF Down
<1>16. \A j \in Conns : Sent(conn'[j])
  <2>1. Sent(r)
    BY <1>1, <1>5 DEF BridgeInv, Sent
  <2>2. QED
    BY <1>6, <2>1 DEF BridgeInv
<1>17. \A j \in Conns : /\ conn'[j].auth = conn[j].auth /\ conn'[j].up = conn[j].up
                        /\ conn'[j].server = conn[j].server
                        /\ Elems(conn'[j].down) \subseteq Elems(conn[j].down)
                        /\ conn'[j].busy = conn[j].busy
  BY <1>1, <1>5, <1>6, ElemsEmpty
<1>18. Ids' /\ Routed'
  <2>1. \A j \in Conns : Carried(conn'[j]) \subseteq Carried(conn[j])
    BY <1>17 DEF Carried
  <2>2. QED
    BY <1>7, <2>1, Fewer
<1>19. Handshakes'
  <2>1. \A j \in Conns : Shared(j)' => Shared(j)
    BY <1>7 DEF Shared
  <2>2. QED
    BY <1>7, <1>17, <2>1, Quiet
<1>20. Results'
  <2>1. \A c \in Calls : call[c].result = "down" => call[c].conn \in Conns
    BY DEF BridgeInv, Made, HasConn
  <2>2. QED
    BY <1>5, <1>6, <1>7, <2>1 DEF BridgeInv, Results
<1>21. QED
  BY <1>8, <1>11, <1>12, <1>14, <1>15, <1>16, <1>18, <1>19, <1>20 DEF BridgeInv

\* The connection is closed after a handshake that failed.
LEMMA AuthCloseStep ==
    ASSUME BridgeInv, NEW c \in Calls, AuthClose(c)
    PROVE  BridgeInv'
<1>0. TypeOK
  BY DEF BridgeInv
<1>1. call[c].pc = "closing" /\ call[c].conn \in Conns /\ loop = None
  BY DEF BridgeInv, Made, HasConn, AuthClose
<1>2. CASE IsOpen(call[c].conn)
  <2>1. TakeDown(call[c].conn) /\ UNCHANGED <<setup, daemon, channel, lock, pending, call, nextId>>
    BY <1>2 DEF AuthClose
  <2>2. QED
    BY <1>1, <1>2, <2>1, TakeDownStep
<1>3. CASE ~IsOpen(call[c].conn)
  <2>1. PICK x : x = Ended(c, "failed")
    OBVIOUS
  <2>2. /\ x \in CallType
        /\ x.pc = "done" /\ x.result = "failed" /\ x.conn = call[c].conn
        /\ x.id = call[c].id /\ x.unsent = call[c].unsent /\ x.answer = call[c].answer
    BY <1>0, <2>1, EndedCall
  <2>3. call' = [call EXCEPT ![c] = x] /\ lock' = None
    BY <1>3, <2>1 DEF AuthClose
  <2>4. call'[c] = x /\ \A d \in Calls \ {c} : call'[d] = call[d]
    BY <1>0, <2>2, <2>3, CallUpdate
  <2>5. UNCHANGED <<setup, daemon, conn, channel, loop, pending, nextId>>
    BY <1>3 DEF AuthClose
  <2>6. Held'
    <3>1. lock = c /\ \A d \in Calls : call[d].pc \in Opening <=> lock = d
      BY <1>1 DEF BridgeInv, Held, Opening
    <3>2. \A d \in Calls : call'[d].pc \in Opening <=> lock' = d
      BY <2>2, <2>3, <2>4, <3>1, BridgeAssumption DEF Opening
    <3>3. \A k \in Conns : ~IsOpen(k)
      BY <1>3, <3>1, BridgeAssumption DEF BridgeInv, Held
    <3>4. QED
      BY <2>3, <2>5, <3>2, <3>3 DEF Held, IsOpen
  <2>7. QED
    BY <1>1, <2>2, <2>3, <2>5, <2>6, QuietCall
<1>4. QED
  BY <1>2, <1>3

\* The session has closed its end.
LEMMA PeerClosedStep ==
    ASSUME BridgeInv, NEW k \in Conns, PeerClosed(k)
    PROVE  BridgeInv'
BY TakeDownStep DEF PeerClosed

-----------------------------------------------------------------------------
(* Steps of the extension with a connection, a promise or a frame.         *)

\* What a promise is.
LEMMA PromiseType ==
    ASSUME TypeOK
    PROVE  \A p \in pending : p \in Promise /\ p.call \in Calls /\ p.auth \in BOOLEAN /\ p.id \in Nat
BY Types DEF Promise

\* The open channel is handed out.
LEMMA GetChannelStep ==
    ASSUME BridgeInv, NEW c \in Calls, GetChannel(c)
    PROVE  BridgeInv'
<1>0. TypeOK
  BY DEF BridgeInv
<1>1. PICK x : x = [call[c] EXCEPT !.pc = "got", !.conn = channel]
  OBVIOUS
<1>2. call[c] \in CallType /\ call \in [Calls -> CallType] /\ channel \in Conns
  BY <1>0, Types DEF GetChannel
<1>3. /\ x \in CallType
      /\ x.pc = "got" /\ x.result = call[c].result /\ x.conn = channel
      /\ x.id = call[c].id /\ x.unsent = call[c].unsent /\ x.answer = call[c].answer
  BY <1>1, <1>2 DEF CallType
<1>4. call' = [call EXCEPT ![c] = x]
  BY <1>1, <1>2 DEF GetChannel
<1>5. /\ call' \in [Calls -> CallType] /\ call'[c] = x
      /\ \A d \in Calls \ {c} : call'[d] = call[d]
  BY <1>0, <1>3, <1>4, CallUpdate
<1>6. /\ call[c].pc = "locking" /\ channel' = channel /\ lock' = lock /\ loop' = loop
      /\ pending' = pending /\ nextId' = nextId /\ conn' = conn
      /\ UNCHANGED setup /\ UNCHANGED daemon /\ channel # None
      /\ token' = token /\ expected' = expected
  BY DEF GetChannel, setup
<1>7. TypeOK'
  BY <1>0, <1>5, <1>6, NextTypes, Types
<1>8. ~x.unsent /\ x.unsent \in BOOLEAN /\ x.result = "none"
  BY <1>3, <1>6 DEF BridgeInv, Promises, CallType
<1>9. \A p \in pending : p.call # c
  BY <1>6 DEF BridgeInv, Promises
<1>10. Promises'
  BY <1>0, <1>3, <1>5, <1>6, <1>8, <1>9, PromiseType DEF BridgeInv, Promises
<1>11. Held'
  BY <1>3, <1>5, <1>6 DEF BridgeInv, Held, IsOpen, Opening
<1>12. Made'
  BY <1>2, <1>3, <1>5, <1>6 DEF BridgeInv, Made, HasConn
<1>13. Down' /\ \A k \in Conns : Sent(conn'[k])
  BY <1>6 DEF BridgeInv, Down, IsOpen
<1>14. Ids' /\ Routed'
  <2>1. \A d \in Calls : call'[d].id = call[d].id
    BY <1>3, <1>5
  <2>2. \A p \in pending : call'[p.call].conn = call[p.call].conn
    BY <1>0, <1>5, <1>9, PromiseType
  <2>3. QED
    BY <1>6, <2>1, <2>2, Fewer
<1>15. Handshakes'
  <2>1. \A k \in Conns : Shared(k)' => Shared(k)
    BY <1>3, <1>5, <1>6, <1>8 DEF Shared
  <2>2. QED
    BY <1>3, <1>5, <1>6, <2>1, Quiet
<1>16. Results'
  BY <1>3, <1>5, <1>6, <1>8 DEF BridgeInv, Results
<1>17. QED
  BY <1>7, <1>10, <1>11, <1>12, <1>13, <1>14, <1>15, <1>16 DEF BridgeInv

\* registerPromise: the id is fresh.
LEMMA RegisterStep ==
    ASSUME BridgeInv, NEW c \in Calls, Register(c)
    PROVE  BridgeInv'
<1>0. TypeOK
  BY DEF BridgeInv
<1>1. PICK x : x = [call[c] EXCEPT !.pc = "waiting", !.id = nextId, !.unsent = TRUE]
  OBVIOUS
<1>2. call[c] \in CallType /\ call \in [Calls -> CallType] /\ nextId \in Nat
  BY <1>0, Types
<1>3. /\ x \in CallType
      /\ x.pc = "waiting" /\ x.result = call[c].result /\ x.conn = call[c].conn
      /\ x.id = nextId /\ x.unsent /\ x.answer = call[c].answer
  BY <1>1, <1>2 DEF CallType
<1>4. call' = [call EXCEPT ![c] = x]
  BY <1>1, <1>2 DEF Register
<1>5. /\ call' \in [Calls -> CallType] /\ call'[c] = x
      /\ \A d \in Calls \ {c} : call'[d] = call[d]
  BY <1>0, <1>3, <1>4, CallUpdate
<1>6. PICK n : n = [id |-> nextId, call |-> c, auth |-> FALSE]
  OBVIOUS
<1>7. n \in Promise /\ n.id = nextId /\ n.call = c /\ ~n.auth
  BY <1>2, <1>6 DEF Promise
<1>8. /\ call[c].pc = "got" /\ channel' = channel /\ lock' = lock /\ loop' = loop
      /\ pending' = pending \cup {n} /\ nextId' = nextId + 1 /\ conn' = conn
      /\ UNCHANGED setup /\ UNCHANGED daemon
      /\ token' = token /\ expected' = expected
  BY <1>6 DEF Register, setup
<1>9. TypeOK'
  BY <1>0, <1>2, <1>5, <1>7, <1>8, NextTypes, Types
<1>10. x.result = "none"
  BY <1>3, <1>8 DEF BridgeInv, Promises
<1>11. \A p \in pending : p.call # c
  BY <1>8 DEF BridgeInv, Promises
<1>12. \A d \in Calls : call[d].id \in Nat /\ call[d].id < nextId
  BY <1>2 DEF BridgeInv, Ids, CallType
<1>13. \A p \in pending : p.id < nextId /\ p.id # nextId
  BY <1>0, <1>2, PromiseType DEF BridgeInv, Ids
<1>14. \A k \in Conns : \A f \in Carried(conn[k]) : f.id < nextId /\ f.id # nextId
  <2>1. SUFFICES ASSUME NEW k \in Conns, NEW f \in Carried(conn[k])
                 PROVE  f.id < nextId /\ f.id # nextId
    OBVIOUS
  <2>2. f.id \in Nat
    <3>1. conn[k] \in ConnType
      BY <1>0, Types
    <3>2. QED
      BY <3>1, CarriedType
  <2>3. f.id < nextId
    BY DEF BridgeInv, Ids
  <2>4. QED
    BY <1>2, <2>2, <2>3
<1>15. Ids'
  <2>1. \A m \in Nat : m < nextId => m < nextId + 1
    BY <1>2
  <2>2. nextId >= 1 /\ nextId < nextId + 1 /\ nextId + 1 >= 1
    BY <1>2 DEF BridgeInv, Ids
  <2>3. \A d \in Calls : call'[d].id < nextId'
    BY <1>2, <1>3, <1>5, <1>8, <1>12, <2>1, <2>2
  <2>4. \A p \in pending' : 1 <= p.id /\ p.id < nextId'
    BY <1>0, <1>2, <1>7, <1>8, <2>1, <2>2, PromiseType DEF BridgeInv, Ids
  <2>5. \A k \in Conns : \A f \in Carried(conn'[k]) : f.id < nextId'
    BY <1>0, <1>8, <2>1, CarriedType, Types DEF BridgeInv, Ids
  <2>6. QED
    BY <1>8, <2>2, <2>3, <2>4, <2>5 DEF Ids
<1>16. Promises'
  <2>1. \A p \in pending' : \A d \in Calls : p.id = call'[d].id => p.call = d /\ ~p.auth
    <3>1. SUFFICES ASSUME NEW p \in pending', NEW d \in Calls, p.id = call'[d].id
                   PROVE  p.call = d /\ ~p.auth
      OBVIOUS
    <3>2. CASE d = c
      BY <1>3, <1>5, <1>7, <1>8, <1>13, <3>1, <3>2
    <3>3. CASE d # c
      <4>1. call'[d] = call[d] /\ call[d].id # nextId
        BY <1>2, <1>5, <1>12, <3>3
      <4>2. p \in pending
        BY <1>7, <1>8, <3>1, <4>1
      <4>3. QED
        BY <3>1, <4>1, <4>2 DEF BridgeInv, Promises
    <3>4. QED
      BY <3>2, <3>3
  <2>2. \A p \in pending' : ~p.auth => p.id = call'[p.call].id
    BY <1>0, <1>3, <1>5, <1>7, <1>8, <1>11, PromiseType DEF BridgeInv, Promises
  <2>3. \A p \in pending' :
          IF p.auth THEN call'[p.call].pc \in {"authing", "closing", "done"}
          ELSE call'[p.call].pc = "waiting"
    BY <1>0, <1>3, <1>5, <1>7, <1>8, <1>11, PromiseType DEF BridgeInv, Promises
  <2>4. \A d \in Calls : call'[d].pc # "done" => call'[d].result = "none"
    BY <1>5, <1>10 DEF BridgeInv, Promises
  <2>5. \A d \in Calls : call'[d].unsent => call'[d].pc \in {"waiting", "done"}
    BY <1>3, <1>5 DEF BridgeInv, Promises
  <2>6. \A p, q \in pending' : p.call = q.call => p.id = q.id
    BY <1>7, <1>8, <1>11 DEF BridgeInv, Promises
  <2>7. QED
    BY <2>1, <2>2, <2>3, <2>4, <2>5, <2>6 DEF Promises
<1>17. Held'
  BY <1>3, <1>5, <1>8 DEF BridgeInv, Held, IsOpen, Opening
<1>18. Made'
  BY <1>3, <1>5, <1>8 DEF BridgeInv, Made, HasConn
<1>19. Down' /\ \A k \in Conns : Sent(conn'[k])
  BY <1>8 DEF BridgeInv, Down, IsOpen
<1>20. Routed'
  <2>1. \A k \in Conns : \A f \in Carried(conn[k]) : f.id # n.id
    BY <1>7, <1>14
  <2>2. \A p \in pending : call'[p.call] = call[p.call]
    BY <1>0, <1>5, <1>11, PromiseType
  <2>3. QED
    BY <1>8, <2>1, <2>2 DEF BridgeInv, Routed
<1>21. Handshakes'
  <2>1. \A k \in Conns : Shared(k)' => Shared(k)
    BY <1>3, <1>5, <1>8 DEF Shared
  <2>2. QED
    BY <1>3, <1>5, <1>8, <2>1, Quiet
<1>22. Results'
  BY <1>3, <1>5, <1>8, <1>10 DEF BridgeInv, Results
<1>23. QED
  BY <1>9, <1>15, <1>16, <1>17, <1>18, <1>19, <1>20, <1>21, <1>22 DEF BridgeInv

\* A call that waits, or waited, ends; its promise is gone, or was not there.
LEMMA EndStep ==
    ASSUME BridgeInv, NEW c \in Calls, NEW x \in CallType, call' = [call EXCEPT ![c] = x],
           UNCHANGED <<setup, daemon, conn, channel, lock, loop, nextId>>,
           pending' = Others(c), x.id = call[c].id, x.conn = call[c].conn,
           x.answer = call[c].answer, x.unsent = call[c].unsent \/ ~x.unsent,
           call[c].pc \in {"waiting", "done"},
           \/ x.pc = "done" /\ x.result \in {"failed", "timeout"}
           \/ x.pc = call[c].pc /\ x.result = call[c].result /\ ~Waits(c)
    PROVE  BridgeInv'
<1>0. TypeOK
  BY DEF BridgeInv
<1>1. /\ call' \in [Calls -> CallType] /\ call'[c] = x
      /\ \A d \in Calls \ {c} : call'[d] = call[d]
  BY <1>0, CallUpdate
<1>2. /\ channel' = channel /\ lock' = lock /\ loop' = loop /\ nextId' = nextId
      /\ token' = token /\ expected' = expected /\ conn' = conn
      /\ UNCHANGED setup /\ UNCHANGED daemon
  BY DEF setup
<1>3. pending' \subseteq pending /\ \A p \in pending' : p.id # call[c].id
  BY DEF Others
<1>4. TypeOK'
  BY <1>0, <1>1, <1>2, <1>3, NextTypes, Types
<1>5. \A p \in pending' : p.call = c => p.auth /\ call[c].pc = "done"
  BY <1>0, <1>3, PromiseType DEF BridgeInv, Promises
<1>6. x.unsent \in BOOLEAN /\ (x.unsent => call[c].unsent)
  BY DEF CallType
<1>7. Promises'
  <2>1. \A p \in pending' : \A d \in Calls : p.id = call'[d].id => p.call = d /\ ~p.auth
    BY <1>1, <1>3 DEF BridgeInv, Promises
  <2>2. \A p \in pending' : ~p.auth => p.id = call'[p.call].id
    BY <1>0, <1>1, <1>3, PromiseType DEF BridgeInv, Promises
  <2>3. \A p \in pending' :
          IF p.auth THEN call'[p.call].pc \in {"authing", "closing", "done"}
          ELSE call'[p.call].pc = "waiting"
    BY <1>0, <1>1, <1>3, <1>5, PromiseType DEF BridgeInv, Promises
  <2>4. \A d \in Calls : call'[d].pc # "done" => call'[d].result = "none"
    BY <1>1 DEF BridgeInv, Promises
  <2>5. \A d \in Calls : call'[d].unsent => call'[d].pc \in {"waiting", "done"}
    BY <1>1, <1>6 DEF BridgeInv, Promises
  <2>6. \A p, q \in pending' : p.call = q.call => p.id = q.id
    BY <1>3 DEF BridgeInv, Promises
  <2>7. QED
    BY <2>1, <2>2, <2>3, <2>4, <2>5, <2>6 DEF Promises
<1>8. Held'
  BY <1>1, <1>2 DEF BridgeInv, Held, IsOpen, Opening
<1>9. Made'
  BY <1>1, <1>2, <1>6 DEF BridgeInv, Made, HasConn
<1>10. Down' /\ \A k \in Conns : Sent(conn'[k])
  BY <1>2 DEF BridgeInv, Down, IsOpen
<1>11. Ids' /\ Routed'
  <2>1. \A d \in Calls : call'[d].id = call[d].id /\ call'[d].conn = call[d].conn
    BY <1>1
  <2>2. \A p \in pending' : call'[p.call].conn = call[p.call].conn
    BY <1>0, <1>3, <2>1, PromiseType
  <2>3. QED
    BY <1>2, <1>3, <2>1, <2>2, Fewer
<1>12. Handshakes'
  <2>1. \A k \in Conns : Shared(k)' => Shared(k)
    BY <1>1, <1>2, <1>6 DEF Shared
  <2>2. QED
    BY <1>1, <1>2, <2>1, Quiet
<1>13. Results'
  BY <1>1, <1>2 DEF BridgeInv, Results
<1>14. QED
  BY <1>4, <1>7, <1>8, <1>9, <1>10, <1>11, <1>12, <1>13 DEF BridgeInv

\* The timer fires.
LEMMA TimeoutStep ==
    ASSUME BridgeInv, NEW c \in Calls, Timeout(c)
    PROVE  BridgeInv'
<1>0. TypeOK
  BY DEF BridgeInv
<1>1. PICK x : x = Ended(c, "timeout")
  OBVIOUS
<1>2. /\ x \in CallType
      /\ x.pc = "done" /\ x.result = "timeout" /\ x.conn = call[c].conn
      /\ x.id = call[c].id /\ x.unsent = call[c].unsent /\ x.answer = call[c].answer
  BY <1>0, <1>1, EndedCall
<1>3. call' = [call EXCEPT ![c] = x] /\ call[c].pc = "waiting" /\ pending' = Others(c)
  BY <1>1 DEF Timeout
<1>4. UNCHANGED <<setup, daemon, conn, channel, lock, loop, nextId>>
  BY DEF Timeout
<1>5. QED
  BY <1>2, <1>3, <1>4, EndStep

\* The event loop writes a request, or finds the connection gone.
LEMMA WriteStep ==
    ASSUME BridgeInv, NEW c \in Calls, Write(c)
    PROVE  BridgeInv'
<1>0. TypeOK
  BY DEF BridgeInv
<1>1. call[c] \in CallType /\ call \in [Calls -> CallType] /\ call[c].id \in Nat
  BY <1>0, Types DEF CallType
<1>2. PICK k : k = call[c].conn
  OBVIOUS
<1>3. /\ call[c].unsent /\ call[c].pc \in {"waiting", "done"} /\ loop = None
      /\ k \in Conns /\ conn[k].client # "none"
  BY <1>2 DEF Write, BridgeInv, Promises, Made, HasConn
<1>4. CASE ~IsOpen(k)
  <2>1. PICK y : y = IF Waits(c) THEN Ended(c, "failed") ELSE call[c]
    OBVIOUS
  <2>2. PICK x : x = [y EXCEPT !.unsent = FALSE]
    OBVIOUS
  <2>3. /\ y \in CallType
        /\ y.conn = call[c].conn /\ y.id = call[c].id /\ y.answer = call[c].answer
        /\ \/ y.pc = "done" /\ y.result = "failed"
           \/ y.pc = call[c].pc /\ y.result = call[c].result /\ ~Waits(c)
    BY <1>0, <1>1, <2>1, EndedCall
  <2>4. /\ x \in CallType /\ ~x.unsent
        /\ x.conn = y.conn /\ x.id = y.id /\ x.answer = y.answer
        /\ x.pc = y.pc /\ x.result = y.result
    BY <2>2, <2>3 DEF CallType
  <2>5. call' = [call EXCEPT ![c] = x] /\ pending' = Others(c)
    BY <1>1, <1>2, <1>4, <2>1, <2>2 DEF Write
  <2>6. UNCHANGED <<setup, daemon, conn, channel, lock, loop, nextId>>
    BY <1>2, <1>4 DEF Write
  <2>7. QED
    BY <1>3, <2>3, <2>4, <2>5, <2>6, EndStep
<1>5. CASE IsOpen(k)
  <2>1. PICK f : f = Request(call[c].id, "request", c)
    OBVIOUS
  <2>2. f \in Frames /\ f.id = call[c].id /\ f.kind = "request" /\ f.of = c
    BY <1>1, <2>1, RequestType
  <2>3. PICK x : x = [call[c] EXCEPT !.unsent = FALSE]
    OBVIOUS
  <2>4. /\ x \in CallType /\ ~x.unsent
        /\ x.conn = call[c].conn /\ x.id = call[c].id /\ x.answer = call[c].answer
        /\ x.pc = call[c].pc /\ x.result = call[c].result
    BY <1>1, <2>3 DEF CallType
  <2>5. call' = [call EXCEPT ![c] = x]
    BY <1>1, <1>2, <1>5, <2>3 DEF Write
  <2>6. /\ call' \in [Calls -> CallType] /\ call'[c] = x
        /\ \A d \in Calls \ {c} : call'[d] = call[d]
    BY <1>0, <2>4, <2>5, CallUpdate
  <2>7. PICK r : r = [conn[k] EXCEPT !.up = Append(conn[k].up, f)]
    OBVIOUS
  <2>8. conn[k] \in ConnType /\ conn \in [Conns -> ConnType] /\ conn[k].up \in Seq(Frames)
    BY <1>0, <1>3, Types DEF ConnType
  <2>9. /\ Append(conn[k].up, f) \in Seq(Frames)
        /\ Elems(Append(conn[k].up, f)) = Elems(conn[k].up) \cup {f}
    BY <2>2, <2>8, ElemsAppend
  <2>10. /\ r \in ConnType /\ r.client = conn[k].client /\ r.server = conn[k].server
         /\ r.auth = conn[k].auth /\ r.down = conn[k].down /\ r.busy = conn[k].busy
         /\ r.up \in Seq(Frames) /\ Elems(r.up) = Elems(conn[k].up) \cup {f}
    BY <2>7, <2>8, <2>9 DEF ConnType
  <2>11. conn' = [conn EXCEPT ![k] = r] /\ pending' = pending
    BY <1>2, <1>5, <2>1, <2>7, <2>8 DEF Write
  <2>12. /\ conn' \in [Conns -> ConnType] /\ conn'[k] = r
         /\ \A j \in Conns \ {k} : conn'[j] = conn[j]
    BY <1>3, <2>8, <2>10, <2>11
  <2>13. /\ channel' = channel /\ lock' = lock /\ loop' = loop /\ nextId' = nextId
         /\ token' = token /\ expected' = expected /\ UNCHANGED setup /\ UNCHANGED daemon
    BY DEF Write, setup
  <2>14. TypeOK'
    BY <1>0, <2>6, <2>11, <2>12, <2>13, NextTypes, Types
  <2>15. \A j \in Conns : conn'[j].client = conn[j].client
    BY <2>10, <2>12
  <2>16. Carried(r) \subseteq Carried(conn[k]) \cup {f}
    BY <2>10 DEF Carried
  <2>17. Ids'
    <3>1. \A j \in Conns : \A g \in Carried(conn'[j]) : g.id < nextId
      BY <2>2, <2>12, <2>16 DEF BridgeInv, Ids
    <3>2. QED
      BY <2>4, <2>6, <2>11, <2>13, <3>1 DEF BridgeInv, Ids
  <2>18. Promises'
    BY <1>0, <2>4, <2>6, <2>11, PromiseType DEF BridgeInv, Promises
  <2>19. Held'
    BY <2>4, <2>6, <2>13, <2>15 DEF BridgeInv, Held, IsOpen
  <2>20. Made'
    <3>1. channel \in Conns \cup {None}
      BY <1>0, Types
    <3>2. QED
      BY <2>4, <2>6, <2>13, <2>15, <3>1 DEF BridgeInv, Made, HasConn
  <2>21. Down'
    BY <1>3, <2>13 DEF Down
  <2>22. \A j \in Conns : Sent(conn'[j])
    <3>1. Sent(r)
      BY <1>3, <2>2, <2>10 DEF BridgeInv, Sent
    <3>2. QED
      BY <2>12, <3>1 DEF BridgeInv
  <2>23. Routed'
    <3>1. SUFFICES ASSUME NEW j \in Conns, NEW g \in Carried(conn'[j]), NEW p \in pending,
                          p.id = g.id
                   PROVE  /\ g.of = p.call
                          /\ call'[p.call].conn = j
                          /\ IF p.auth THEN g.kind \notin {"request", "content"}
                             ELSE g.kind \notin {"auth", "success"}
      BY <2>11 DEF Routed
    <3>2. call'[p.call].conn = call[p.call].conn
      BY <1>0, <2>4, <2>6, PromiseType
    <3>3. CASE g \in Carried(conn[j])
      BY <3>1, <3>2, <3>3 DEF BridgeInv, Routed
    <3>4. CASE g \notin Carried(conn[j])
      <4>1. g = f /\ j = k
        BY <2>12, <2>16, <3>1, <3>4
      <4>2. p.call = c /\ ~p.auth
        BY <2>2, <3>1, <4>1 DEF BridgeInv, Promises
      <4>3. QED
        BY <1>2, <2>2, <3>2, <4>1, <4>2
    <3>5. QED
      BY <3>3, <3>4
  <2>24. Handshakes'
    <3>1. SUFFICES ASSUME token = expected
                   PROVE  Handshakes'
      BY <2>13 DEF Handshakes
    <3>2. Shared(k)
      BY <1>2, <1>3 DEF Shared
    <3>3. token # None => conn[k].auth
      BY <1>3, <3>1, <3>2 DEF BridgeInv, Handshakes
    <3>4. Met(r)
      <4>1. Met(conn[k])
        BY <1>3, <3>1 DEF BridgeInv, Handshakes
      <4>2. QED
        BY <2>2, <2>10, <3>3, <4>1 DEF Met
    <3>5. \A j \in Conns : Met(conn[j])'
      <4>1. \A j \in Conns : Met(conn'[j])
        BY <2>12, <3>1, <3>4 DEF BridgeInv, Handshakes
      <4>2. QED
        BY <2>13, <4>1 DEF Met
    <3>6. \A j \in Conns : conn'[j].auth = conn[j].auth
      BY <2>10, <2>12
    <3>7. \A j \in Conns : Shared(j)' => Shared(j)
      BY <2>4, <2>6, <2>13 DEF Shared
    <3>8. \A j \in Conns : token # None /\ ~conn'[j].auth => ~Shared(j)'
      BY <3>1, <3>6, <3>7 DEF BridgeInv, Handshakes
    <3>9. \A d \in Calls : call'[d].pc = call[d].pc /\ call'[d].conn = call[d].conn
      BY <2>4, <2>6
    <3>10. \A d \in Calls : call[d].pc = "opened" => call[d].conn \in Conns \ {k}
      BY <3>1, <3>3 DEF BridgeInv, Handshakes, Made, HasConn
    <3>11. \A d \in Calls : call'[d].pc = "opened" =>
              conn'[call'[d].conn].up = <<>> /\ ~conn'[call'[d].conn].auth
      BY <2>12, <3>1, <3>9, <3>10 DEF BridgeInv, Handshakes
    <3>12. token = None => \A d \in Calls : call'[d].pc \notin {"opened", "authing", "closing"}
      BY <3>1, <3>9 DEF BridgeInv, Handshakes
    <3>13. QED
      BY <2>13, <3>5, <3>8, <3>11, <3>12 DEF Handshakes
  <2>25. Results'
    <3>1. \A d \in Calls : call[d].result = "down" => call[d].conn \in Conns
      BY DEF BridgeInv, Made, HasConn
    <3>2. QED
      BY <2>4, <2>6, <2>13, <2>15, <3>1 DEF BridgeInv, Results
  <2>26. QED
    BY <2>14, <2>17, <2>18, <2>19, <2>20, <2>21, <2>22, <2>23, <2>24, <2>25 DEF BridgeInv
<1>6. QED
  BY <1>4, <1>5

\* channelInactive: only connections that are down had promises.
LEMMA InactiveStep ==
    ASSUME BridgeInv, NEW k \in Conns, Inactive(k)
    PROVE  BridgeInv'
<1>0. TypeOK
  BY DEF BridgeInv
<1>1. call \in [Calls -> CallType] /\ conn \in [Conns -> ConnType] /\ channel \in Conns \cup {None}
  BY <1>0, Types
<1>2. ASSUME NEW c \in Calls
      PROVE  /\ call'[c] \in CallType
             /\ \/ call[c].pc = "authing" /\ call'[c] = [call[c] EXCEPT !.pc = "closing"]
                \/ call[c].pc = "waiting" /\ call'[c] = Ended(c, "down")
                \/ call'[c] = call[c]
  <2>1. call'[c] = IF call[c].pc = "authing" /\ \E p \in pending : p.call = c /\ p.auth
                   THEN [call[c] EXCEPT !.pc = "closing"]
                   ELSE IF \E p \in pending : p.call = c /\ ~p.auth THEN Ended(c, "down")
                   ELSE call[c]
    BY DEF Inactive
  <2>2. (\E p \in pending : p.call = c /\ ~p.auth) => call[c].pc = "waiting"
    BY DEF BridgeInv, Promises
  <2>3. \/ call[c].pc = "authing" /\ call'[c] = [call[c] EXCEPT !.pc = "closing"]
        \/ call[c].pc = "waiting" /\ call'[c] = Ended(c, "down")
        \/ call'[c] = call[c]
    BY <2>1, <2>2
  <2>4. Ended(c, "down") \in CallType /\ [call[c] EXCEPT !.pc = "closing"] \in CallType
        /\ call[c] \in CallType
    BY <1>0, <1>1, EndedCall, PcCall
  <2>5. QED
    BY <2>3, <2>4
<1>3. ASSUME NEW c \in Calls
      PROVE  /\ call'[c].conn = call[c].conn /\ call'[c].id = call[c].id
             /\ call'[c].unsent = call[c].unsent /\ call'[c].answer = call[c].answer
             /\ \/ call[c].pc = "authing" /\ call'[c].pc = "closing" /\ call'[c].result = call[c].result
                \/ call[c].pc = "waiting" /\ call'[c].pc = "done" /\ call'[c].result = "down"
                \/ call'[c].pc = call[c].pc /\ call'[c].result = call[c].result
  <2>1. PICK x : x = [call[c] EXCEPT !.pc = "closing"]
    OBVIOUS
  <2>2. /\ x.pc = "closing" /\ x.result = call[c].result /\ x.conn = call[c].conn
        /\ x.id = call[c].id /\ x.unsent = call[c].unsent /\ x.answer = call[c].answer
    BY <1>0, <2>1, PcCall
  <2>3. PICK y : y = Ended(c, "down")
    OBVIOUS
  <2>4. /\ y.pc = "done" /\ y.result = "down" /\ y.conn = call[c].conn
        /\ y.id = call[c].id /\ y.unsent = call[c].unsent /\ y.answer = call[c].answer
    BY <1>0, <2>3, EndedCall
  <2>5. \/ call[c].pc = "authing" /\ call'[c] = x
        \/ call[c].pc = "waiting" /\ call'[c] = y
        \/ call'[c] = call[c]
    BY <1>2, <2>1, <2>3
  <2>6. QED
    BY <2>2, <2>4, <2>5
<1>4. call' \in [Calls -> CallType]
  <2>1. DOMAIN call' = Calls /\ call' = [c \in Calls |-> call'[c]]
    BY DEF Inactive
  <2>2. QED
    BY <1>2, <2>1
<1>5. /\ channel' = channel /\ lock' = lock /\ loop' = None /\ pending' = {} /\ loop = k
      /\ nextId' = nextId /\ conn' = conn /\ token' = token /\ expected' = expected
      /\ UNCHANGED setup /\ UNCHANGED daemon
  BY DEF Inactive, setup
<1>6. TypeOK'
  <2>1. pending' \subseteq Promise
    BY <1>5
  <2>2. QED
    BY <1>0, <1>1, <1>4, <1>5, <2>1, NextTypes, Types
<1>7. Ids' /\ Routed'
  BY <1>3, <1>5, Fewer
<1>8. Promises'
  BY <1>3, <1>5 DEF BridgeInv, Promises
<1>9. Held'
  <2>1. \A c \in Calls : /\ call'[c].pc \in Opening <=> call[c].pc \in Opening
                         /\ call[c].pc # "connecting" => call'[c].pc # "connecting"
    BY <1>3 DEF Opening
  <2>2. QED
    BY <1>3, <1>5, <2>1 DEF BridgeInv, Held, IsOpen
<1>10. Made'
  <2>1. \A c \in Calls : HasConn(c)' => HasConn(c)
    BY <1>3 DEF HasConn
  <2>2. QED
    BY <1>3, <1>5, <2>1 DEF BridgeInv, Made
<1>11. Down' /\ \A j \in Conns : Sent(conn'[j])
  BY <1>5 DEF BridgeInv, Down
<1>12. Handshakes'
  <2>1. \A j \in Conns : Shared(j)' => Shared(j)
    <3>1. SUFFICES ASSUME NEW j \in Conns, Shared(j)'
                   PROVE  Shared(j)
      OBVIOUS
    <3>2. CASE channel' = j
      BY <1>5, <3>2 DEF Shared
    <3>3. CASE channel' # j
      <4>1. PICK c \in Calls : call'[c].conn = j /\ (call'[c].pc \in {"got", "waiting"} \/ call'[c].unsent)
        BY <3>1, <3>3 DEF Shared
      <4>2. call[c].conn = j /\ (call[c].pc \in {"got", "waiting"} \/ call[c].unsent)
        BY <1>3, <4>1
      <4>3. QED
        BY <4>2 DEF Shared
    <3>4. QED
      BY <3>2, <3>3
  <2>2. \A c \in Calls : call'[c].pc = "opened" => call[c].pc = "opened" /\ call'[c].conn = call[c].conn
    BY <1>3
  <2>3. \A c \in Calls : call'[c].pc \in {"authing", "closing"} => call[c].pc \in {"authing", "closing"}
    BY <1>3
  <2>4. QED
    BY <1>5, <2>1, <2>2, <2>3, Quiet
<1>13. Results'
  <2>1. \A c \in Calls : call[c].pc = "waiting" =>
           call[c].conn \in Conns /\ conn[call[c].conn].client # "none"
    BY DEF BridgeInv, Made, HasConn
  <2>2. \A j \in Conns : conn[j].client \in {"none", "down"}
    <3>1. \A j \in Conns : conn[j].client # "open" /\ conn[j].client \in {"none", "open", "down"}
      BY <1>1, <1>5, BridgeAssumption DEF BridgeInv, Down, IsOpen, ConnType
    <3>2. QED
      BY <3>1
  <2>3. \A c \in Calls : call[c].pc = "waiting" => conn[call[c].conn].client = "down"
    BY <2>1, <2>2
  <2>4. \A c \in Calls : call'[c].result = "down" => conn'[call'[c].conn].client = "down"
    BY <1>3, <1>5, <2>3 DEF BridgeInv, Results
  <2>5. \A c \in Calls : call'[c].result = "ok" => call'[c].answer.of = c
    BY <1>3 DEF BridgeInv, Results
  <2>6. token' = expected' => \A c \in Calls : call'[c].result # "refused"
    BY <1>3, <1>5 DEF BridgeInv, Results
  <2>7. QED
    BY <2>4, <2>5, <2>6 DEF Results
<1>14. QED
  BY <1>6, <1>7, <1>8, <1>9, <1>10, <1>11, <1>12, <1>13 DEF BridgeInv

\* The fresh id of a promise is nobody's.
LEMMA FreshId ==
    ASSUME BridgeInv
    PROVE  /\ nextId \in Nat /\ nextId >= 1
           /\ \A d \in Calls : call[d].id \in Nat /\ call[d].id < nextId /\ call[d].id # nextId
           /\ \A p \in pending : p.id \in Nat /\ 1 <= p.id /\ p.id < nextId /\ p.id # nextId
           /\ \A k \in Conns : \A f \in Carried(conn[k]) :
                 f.id \in Nat /\ f.id < nextId /\ f.id # nextId
           /\ \A m \in Nat : m <= nextId => m < nextId + 1
<1>0. TypeOK
  BY DEF BridgeInv
<1>1. nextId \in Nat /\ nextId >= 1
  BY <1>0, Types DEF BridgeInv, Ids
<1>2. \A m \in Nat : m < nextId => m # nextId
  BY <1>1
<1>3. \A d \in Calls : call[d].id \in Nat
  BY <1>0, Types DEF CallType
<1>4. \A k \in Conns : conn[k] \in ConnType
  BY <1>0, Types
<1>5. \A k \in Conns : \A f \in Carried(conn[k]) : f.id \in Nat
  BY <1>4, CarriedType
<1>6. \A m \in Nat : m <= nextId => m < nextId + 1
  BY <1>1
<1>7. \A p \in pending : p.id \in Nat
  BY <1>0, PromiseType
<1>8. QED
  BY <1>1, <1>2, <1>3, <1>5, <1>6, <1>7 DEF BridgeInv, Ids

\* The handshake is sent, or the connection was lost before.
LEMMA AuthSendStep ==
    ASSUME BridgeInv, NEW c \in Calls, AuthSend(c)
    PROVE  BridgeInv'
<1>0. TypeOK
  BY DEF BridgeInv
<1>1. call[c] \in CallType /\ call \in [Calls -> CallType] /\ conn \in [Conns -> ConnType]
  BY <1>0, Types
<1>2. PICK k : k = call[c].conn
  OBVIOUS
<1>3. call[c].pc = "opened" /\ loop = None /\ k \in Conns /\ conn[k].client # "none"
  BY <1>2 DEF AuthSend, BridgeInv, Made, HasConn
<1>4. PICK n : n = [id |-> nextId, call |-> c, auth |-> TRUE]
  OBVIOUS
<1>5. n \in Promise /\ n.id = nextId /\ n.call = c /\ n.auth
  BY <1>4, FreshId DEF Promise
<1>6. /\ pending' = pending \cup {n} /\ nextId' = nextId + 1 /\ channel' = channel
      /\ loop' = loop /\ token' = token /\ expected' = expected
      /\ UNCHANGED setup /\ UNCHANGED daemon
  BY <1>4 DEF AuthSend, setup
<1>7. PICK f : f = Request(nextId, "auth", c)
  OBVIOUS
<1>8. f \in Frames /\ f.id = nextId /\ f.kind = "auth" /\ f.of = c
  BY <1>7, RequestType, FreshId
<1>9. call[c].result = "none" /\ ~call[c].unsent /\ lock = c
  BY <1>1, <1>3 DEF BridgeInv, Promises, Held, Opening, CallType
<1>10. PICK x : /\ call' = [call EXCEPT ![c] = x]
                /\ IF IsOpen(k) THEN x = [call[c] EXCEPT !.pc = "authing"] ELSE x = Ended(c, "failed")
  BY <1>1, <1>2 DEF AuthSend
<1>11. /\ x \in CallType /\ x.conn = k /\ x.id = call[c].id /\ ~x.unsent
       /\ IF IsOpen(k) THEN x.pc = "authing" /\ x.result = "none" ELSE x.pc = "done" /\ x.result = "failed"
  BY <1>0, <1>2, <1>9, <1>10, PcCall, EndedCall
<1>12. /\ call' \in [Calls -> CallType] /\ call'[c] = x
       /\ \A d \in Calls \ {c} : call'[d] = call[d]
  BY <1>0, <1>10, <1>11, CallUpdate
<1>13. PICK r : r = IF IsOpen(k) THEN [conn[k] EXCEPT !.up = Append(conn[k].up, f)] ELSE conn[k]
  OBVIOUS
<1>14. conn' = [conn EXCEPT ![k] = r]
  BY <1>1, <1>2, <1>3, <1>7, <1>13 DEF AuthSend
<1>15. conn[k] \in ConnType /\ conn[k].up \in Seq(Frames)
  BY <1>1, <1>3 DEF ConnType
<1>16. /\ Append(conn[k].up, f) \in Seq(Frames)
       /\ Elems(Append(conn[k].up, f)) = Elems(conn[k].up) \cup {f}
       /\ Len(Append(conn[k].up, f)) = Len(conn[k].up) + 1
  BY <1>8, <1>15, ElemsAppend
<1>17. /\ r \in ConnType /\ r.client = conn[k].client /\ r.server = conn[k].server
       /\ r.auth = conn[k].auth /\ r.down = conn[k].down /\ r.busy = conn[k].busy
       /\ r.up = IF IsOpen(k) THEN Append(conn[k].up, f) ELSE conn[k].up
  BY <1>13, <1>15, <1>16 DEF ConnType
<1>18. /\ conn' \in [Conns -> ConnType] /\ conn'[k] = r
       /\ \A j \in Conns \ {k} : conn'[j] = conn[j]
  BY <1>1, <1>3, <1>14, <1>17
<1>19. Elems(r.up) \subseteq Elems(conn[k].up) \cup {f}
  BY <1>16, <1>17
<1>20. lock' = IF IsOpen(k) THEN lock ELSE None
  BY <1>2 DEF AuthSend
<1>21. TypeOK'
  <2>1. nextId' \in Nat
    BY <1>6, FreshId
  <2>2. lock' \in Calls \cup {None} /\ loop' \in Conns \cup {None} /\ channel' \in Conns \cup {None}
    BY <1>0, <1>6, <1>20, Types
  <2>3. pending' \subseteq Promise
    BY <1>0, <1>5, <1>6, Types
  <2>4. QED
    BY <1>0, <1>6, <1>12, <1>18, <2>1, <2>2, <2>3, NextTypes
<1>22. \A j \in Conns : conn'[j].client = conn[j].client
  BY <1>17, <1>18
<1>23. Carried(r) \subseteq Carried(conn[k]) \cup {f}
  BY <1>17, <1>19 DEF Carried
<1>24. Ids'
  <2>1. nextId + 1 >= 1 /\ nextId <= nextId
    BY FreshId
  <2>2. \A m \in Nat : m < nextId => m <= nextId
    BY FreshId
  <2>3. \A d \in Calls : call'[d].id < nextId + 1
    BY <1>11, <1>12, <2>2, FreshId
  <2>4. \A p \in pending' : 1 <= p.id /\ p.id < nextId + 1
    BY <1>5, <1>6, <2>1, <2>2, FreshId
  <2>5. \A j \in Conns : \A g \in Carried(conn'[j]) : g.id < nextId + 1
    BY <1>8, <1>18, <1>23, <2>1, <2>2, FreshId
  <2>6. QED
    BY <1>6, <2>1, <2>3, <2>4, <2>5 DEF Ids
<1>25. \A p \in pending : p.call # c
  BY <1>3 DEF BridgeInv, Promises
<1>26. Promises'
  <2>1. \A d \in Calls : call'[d].id = call[d].id
    BY <1>11, <1>12
  <2>2. \A p \in pending' : \A d \in Calls : p.id = call'[d].id => p.call = d /\ ~p.auth
    BY <1>5, <1>6, <2>1, FreshId DEF BridgeInv, Promises
  <2>3. \A p \in pending' : ~p.auth => p.id = call'[p.call].id
    BY <1>0, <1>5, <1>6, <2>1, PromiseType DEF BridgeInv, Promises
  <2>4. call'[c].pc \in {"authing", "done"} /\ (call'[c].pc # "done" => call'[c].result = "none")
    BY <1>11, <1>12
  <2>5. \A p \in pending' :
          IF p.auth THEN call'[p.call].pc \in {"authing", "closing", "done"}
          ELSE call'[p.call].pc = "waiting"
    BY <1>0, <1>5, <1>6, <1>12, <1>25, <2>4, PromiseType DEF BridgeInv, Promises
  <2>6. \A d \in Calls : call'[d].pc # "done" => call'[d].result = "none"
    BY <1>12, <2>4 DEF BridgeInv, Promises
  <2>7. \A d \in Calls : call'[d].unsent => call'[d].pc \in {"waiting", "done"}
    BY <1>11, <1>12 DEF BridgeInv, Promises
  <2>8. \A p, q \in pending' : p.call = q.call => p.id = q.id
    BY <1>5, <1>6, <1>25 DEF BridgeInv, Promises
  <2>9. QED
    BY <2>2, <2>3, <2>5, <2>6, <2>7, <2>8 DEF Promises
<1>27. Held'
  <2>1. \A d \in Calls : call[d].pc \in Opening <=> lock = d
    BY DEF BridgeInv, Held
  <2>2. \A d \in Calls : call'[d].pc \in Opening <=> lock' = d
    BY <1>9, <1>11, <1>12, <1>20, <2>1, BridgeAssumption DEF Opening
  <2>3. \A j \in Conns : IsOpen(j) => j = k /\ channel # j
    BY <1>2, <1>9, BridgeAssumption DEF BridgeInv, Held
  <2>4. \A j \in Conns : IsOpen(j)' => j = k /\ channel' # j /\ IsOpen(k)
    BY <1>6, <1>22, <2>3 DEF IsOpen
  <2>5. IsOpen(k) => lock' = c /\ call'[c].pc # "connecting" /\ call'[c].conn = k
    BY <1>9, <1>11, <1>12, <1>20
  <2>6. QED
    BY <2>2, <2>4, <2>5 DEF Held
<1>28. Made'
  <2>1. channel \in Conns \cup {None}
    BY <1>0, Types
  <2>2. call'[c].conn \in Conns /\ conn'[call'[c].conn].client # "none"
    BY <1>3, <1>11, <1>12, <1>22
  <2>3. QED
    BY <1>6, <1>12, <1>22, <2>1, <2>2 DEF BridgeInv, Made, HasConn
<1>29. Down'
  BY <1>3, <1>6 DEF Down
<1>30. \A j \in Conns : Sent(conn'[j])
  <2>1. Sent(r)
    BY <1>3, <1>8, <1>17, <1>19 DEF BridgeInv, Sent
  <2>2. QED
    BY <1>18, <2>1 DEF BridgeInv
<1>31. Routed'
  <2>1. SUFFICES ASSUME NEW j \in Conns, NEW g \in Carried(conn'[j]), NEW p \in pending',
                        p.id = g.id
                 PROVE  /\ g.of = p.call
                        /\ call'[p.call].conn = j
                        /\ IF p.auth THEN g.kind \notin {"request", "content"}
                           ELSE g.kind \notin {"auth", "success"}
    BY DEF Routed
  <2>2. \A d \in Calls : call'[d].conn = call[d].conn
    BY <1>2, <1>11, <1>12
  <2>3. CASE g \in Carried(conn[j])
    <3>1. p \in pending
      BY <1>5, <1>6, <2>1, <2>3, FreshId
    <3>2. QED
      BY <1>0, <2>1, <2>2, <2>3, <3>1, PromiseType DEF BridgeInv, Routed
  <2>4. CASE g \notin Carried(conn[j])
    <3>1. g = f /\ j = k
      BY <1>18, <1>23, <2>1, <2>4
    <3>2. p = n
      BY <1>6, <1>8, <2>1, <3>1, FreshId
    <3>3. QED
      BY <1>5, <1>8, <1>11, <1>12, <3>1, <3>2
  <2>5. QED
    BY <2>3, <2>4
<1>32. Handshakes'
  <2>1. SUFFICES ASSUME token = expected
                 PROVE  Handshakes'
    BY <1>6 DEF Handshakes
  <2>2. token # None /\ conn[k].up = <<>> /\ ~conn[k].auth
    BY <1>2, <1>3, <2>1 DEF BridgeInv, Handshakes
  <2>3. Met(r)
    <3>1. Met(conn[k])
      BY <1>3, <2>1 DEF BridgeInv, Handshakes
    <3>2. Elems(r.up) \subseteq {f}
      BY <1>19, <2>2, ElemsEmpty
    <3>3. Len(r.up) <= 1
      BY <1>16, <1>17, <2>2
    <3>4. QED
      BY <1>8, <1>17, <2>2, <3>1, <3>2, <3>3 DEF Met
  <2>4. \A j \in Conns : Met(conn[j])'
    <3>1. \A j \in Conns : Met(conn'[j])
      BY <1>18, <2>1, <2>3 DEF BridgeInv, Handshakes
    <3>2. QED
      BY <1>6, <3>1 DEF Met
  <2>5. \A j \in Conns : conn'[j].auth = conn[j].auth
    BY <1>17, <1>18
  <2>6. \A j \in Conns : Shared(j)' => Shared(j)
    BY <1>6, <1>11, <1>12 DEF Shared
  <2>7. \A j \in Conns : token # None /\ ~conn'[j].auth => ~Shared(j)'
    BY <2>1, <2>5, <2>6 DEF BridgeInv, Handshakes
  <2>8. \A d \in Calls : call'[d].pc # "opened"
    BY <1>9, <1>11, <1>12 DEF BridgeInv, Held, Opening
  <2>9. QED
    BY <1>6, <2>2, <2>4, <2>7, <2>8 DEF Handshakes
<1>33. Results'
  <2>1. \A d \in Calls : call[d].result = "down" => call[d].conn \in Conns
    BY DEF BridgeInv, Made, HasConn
  <2>2. call'[c].result \in {"none", "failed"}
    BY <1>11, <1>12
  <2>3. QED
    BY <1>6, <1>12, <1>22, <2>1, <2>2 DEF BridgeInv, Results
<1>34. QED
  BY <1>21, <1>24, <1>26, <1>27, <1>28, <1>29, <1>30, <1>31, <1>32, <1>33 DEF BridgeInv

\* A connection is made: it is the only one that is open.
LEMMA ConnectStep ==
    ASSUME BridgeInv, NEW c \in Calls, NEW k \in Conns, NEW s \in Sessions, Connect(c, k, s)
    PROVE  BridgeInv'
<1>0. TypeOK
  BY DEF BridgeInv
<1>1. call[c] \in CallType /\ call \in [Calls -> CallType] /\ conn \in [Conns -> ConnType]
  BY <1>0, Types
<1>2. call[c].pc = "connecting" /\ loop = None /\ conn[k] = NoConn /\ conn[k].client = "none"
  BY DEF Connect, NoConn
<1>3. PICK r : r = Opened(s)
  OBVIOUS
<1>4. /\ r \in ConnType /\ r.client = "open" /\ r.server = "queued" /\ r.auth = FALSE
      /\ r.up = <<>> /\ r.down = <<>> /\ r.busy = None
  <2>1. <<>> \in Seq(Frames)
    OBVIOUS
  <2>2. r = [at |-> s, client |-> "open", server |-> "queued", auth |-> FALSE,
             up |-> <<>>, down |-> <<>>, busy |-> None]
    BY <1>3 DEF Opened, NoConn
  <2>3. QED
    BY <2>1, <2>2 DEF ConnType
<1>5. conn' = [conn EXCEPT ![k] = r]
  BY <1>3 DEF Connect
<1>6. /\ conn' \in [Conns -> ConnType] /\ conn'[k] = r
      /\ \A j \in Conns \ {k} : conn'[j] = conn[j]
  BY <1>1, <1>4, <1>5
<1>7. PICK x : x = [call[c] EXCEPT !.pc = IF token = None THEN "got" ELSE "opened", !.conn = k]
  OBVIOUS
<1>8. /\ x \in CallType /\ x.conn = k /\ x.id = call[c].id /\ x.unsent = call[c].unsent
      /\ x.result = call[c].result /\ x.answer = call[c].answer
      /\ x.pc = IF token = None THEN "got" ELSE "opened"
  BY <1>1, <1>7 DEF CallType
<1>9. call' = [call EXCEPT ![c] = x]
  BY <1>1, <1>7 DEF Connect
<1>10. /\ call' \in [Calls -> CallType] /\ call'[c] = x
       /\ \A d \in Calls \ {c} : call'[d] = call[d]
  BY <1>0, <1>8, <1>9, CallUpdate
<1>11. /\ pending' = pending /\ nextId' = nextId /\ loop' = loop
       /\ token' = token /\ expected' = expected /\ UNCHANGED setup /\ UNCHANGED daemon
  BY DEF Connect, setup
<1>12. /\ channel' = IF token = None THEN k ELSE channel
       /\ lock' = IF token = None THEN None ELSE lock
  BY DEF Connect
<1>13. TypeOK'
  BY <1>0, <1>6, <1>10, <1>11, <1>12, NextTypes, Types
<1>14. call[c].result = "none" /\ ~call[c].unsent /\ lock = c /\ \A p \in pending : p.call # c
  BY <1>1, <1>2 DEF BridgeInv, Promises, Held, Opening, CallType
<1>15. /\ channel # k
       /\ \A d \in Calls : HasConn(d) => call[d].conn # k
  BY <1>2, BridgeAssumption DEF BridgeInv, Made
<1>16. \A j \in Conns : ~IsOpen(j)
  BY <1>2, <1>14, BridgeAssumption DEF BridgeInv, Held
<1>17. Carried(r) = {}
  BY <1>4, ElemsEmpty DEF Carried
<1>18. Ids' /\ Routed'
  <2>1. \A j \in Conns : Carried(conn'[j]) \subseteq Carried(conn[j])
    BY <1>6, <1>17
  <2>2. \A d \in Calls : call'[d].id = call[d].id
    BY <1>8, <1>10
  <2>3. \A p \in pending : call'[p.call].conn = call[p.call].conn
    BY <1>0, <1>10, <1>14, PromiseType
  <2>4. QED
    BY <1>11, <2>1, <2>2, <2>3, Fewer
<1>19. Promises'
  BY <1>0, <1>8, <1>10, <1>11, <1>14, PromiseType DEF BridgeInv, Promises
<1>20. \A j \in Conns : IsOpen(j)' => j = k
  BY <1>6, <1>16 DEF IsOpen
<1>21. Held'
  <2>1. \A d \in Calls : call[d].pc \in Opening <=> lock = d
    BY DEF BridgeInv, Held
  <2>2. \A d \in Calls : call'[d].pc \in Opening <=> lock' = d
    BY <1>8, <1>10, <1>12, <1>14, <2>1, BridgeAssumption DEF Opening
  <2>3. lock' # None => channel' # k
    BY <1>12, <1>15
  <2>4. \/ channel' = k
        \/ lock' = c /\ call'[c].pc # "connecting" /\ call'[c].conn = k
    BY <1>8, <1>10, <1>12, <1>14
  <2>5. QED
    BY <1>20, <2>2, <2>3, <2>4 DEF Held
<1>22. \A j \in Conns : conn[j].client # "none" => conn'[j].client # "none"
  BY <1>4, <1>6
<1>23. Made'
  <2>1. channel \in Conns \cup {None} /\ conn'[k].client # "none"
    BY <1>0, <1>4, <1>6, Types
  <2>2. channel' # None => conn'[channel'].client # "none"
    BY <1>12, <1>22, <2>1 DEF BridgeInv, Made
  <2>3. \A d \in Calls : HasConn(d)' => call'[d].conn \in Conns /\ conn'[call'[d].conn].client # "none"
    BY <1>8, <1>10, <1>22, <2>1 DEF BridgeInv, Made, HasConn
  <2>4. QED
    BY <2>2, <2>3 DEF Made
<1>24. Down'
  BY <1>2, <1>11 DEF Down
<1>25. \A j \in Conns : Sent(conn'[j])
  <2>1. Sent(r)
    BY <1>4, ElemsEmpty DEF Sent
  <2>2. QED
    BY <1>6, <2>1 DEF BridgeInv
<1>26. Handshakes'
  <2>1. SUFFICES ASSUME token = expected
                 PROVE  Handshakes'
    BY <1>11 DEF Handshakes
  <2>2. Met(r)
    BY <1>4, ElemsEmpty DEF Met
  <2>3. \A j \in Conns : Met(conn[j])'
    <3>1. \A j \in Conns : Met(conn'[j])
      BY <1>6, <2>1, <2>2 DEF BridgeInv, Handshakes
    <3>2. QED
      BY <1>11, <3>1 DEF Met
  <2>4. token # None => ~Shared(k)'
    <3>1. SUFFICES ASSUME token # None, Shared(k)'
                   PROVE  FALSE
      OBVIOUS
    <3>2. channel' # k
      BY <1>12, <1>15, <3>1
    <3>3. PICK d \in Calls : call'[d].conn = k /\ (call'[d].pc \in {"got", "waiting"} \/ call'[d].unsent)
      BY <3>1, <3>2 DEF Shared
    <3>4. d # c
      BY <1>8, <1>10, <1>14, <3>1, <3>3
    <3>5. HasConn(d) /\ call[d].conn = k
      BY <1>10, <3>3, <3>4 DEF HasConn
    <3>6. QED
      BY <1>15, <3>5
  <2>5. \A j \in Conns \ {k} : token # None /\ Shared(j)' => Shared(j)
    BY <1>8, <1>10, <1>12 DEF Shared
  <2>6. \A j \in Conns : token # None /\ ~conn'[j].auth => ~Shared(j)'
    BY <1>6, <2>1, <2>4, <2>5 DEF BridgeInv, Handshakes
  <2>7. \A d \in Calls : call'[d].pc = "opened" =>
           conn'[call'[d].conn].up = <<>> /\ ~conn'[call'[d].conn].auth
    <3>1. \A d \in Calls \ {c} : call[d].pc # "opened"
      BY <1>14 DEF BridgeInv, Held, Opening
    <3>2. QED
      BY <1>4, <1>6, <1>8, <1>10, <3>1
  <2>8. token = None => \A d \in Calls : call'[d].pc \notin {"opened", "authing", "closing"}
    BY <1>8, <1>10, <2>1 DEF BridgeInv, Handshakes
  <2>9. QED
    BY <1>11, <2>3, <2>6, <2>7, <2>8 DEF Handshakes
<1>27. Results'
  <2>1. \A d \in Calls : call[d].result = "down" => call[d].conn \in Conns /\ call[d].conn # k
    BY <1>15 DEF BridgeInv, Made, HasConn
  <2>2. QED
    BY <1>6, <1>8, <1>10, <1>11, <1>14, <2>1 DEF BridgeInv, Results
<1>28. QED
  BY <1>13, <1>18, <1>19, <1>21, <1>23, <1>24, <1>25, <1>26, <1>27 DEF BridgeInv

\* What an answer makes of the call whose promise it fulfils.
LEMMA AnsweredCall ==
    ASSUME BridgeInv, NEW p \in pending, NEW f \in Frames, NEW x, x = Answered(p, f)
    PROVE  /\ p.call \in Calls
           /\ x \in CallType /\ x.id = call[p.call].id /\ x.conn = call[p.call].conn
           /\ x.unsent = call[p.call].unsent
           /\ \/ /\ ~p.auth /\ x.pc = "done" /\ x.answer = f
                 /\ x.result = IF f.kind = "content" THEN "ok" ELSE "refused"
              \/ p.auth /\ call[p.call].pc # "authing" /\ x = call[p.call]
              \/ /\ p.auth /\ call[p.call].pc = "authing"
                 /\ x.answer = call[p.call].answer /\ x.result = call[p.call].result
                 /\ x.pc = IF f.kind = "success" THEN "got" ELSE "closing"
<1>0. TypeOK /\ p.call \in Calls /\ p.auth \in BOOLEAN
  BY PromiseType DEF BridgeInv
<1>1. call[p.call] \in CallType
  BY <1>0, Types
<1>2. CASE ~p.auth
  <2>1. PICK result \in {"ok", "refused"} : result = IF f.kind = "content" THEN "ok" ELSE "refused"
    OBVIOUS
  <2>2. PICK y : y = Ended(p.call, result)
    OBVIOUS
  <2>3. /\ y \in CallType /\ y.pc = "done" /\ y.result = result
        /\ y.id = call[p.call].id /\ y.conn = call[p.call].conn /\ y.unsent = call[p.call].unsent
    <3>1. result \in {"ok", "refused", "failed", "timeout", "down"}
      BY <2>1
    <3>2. QED
      BY <1>0, <2>2, <3>1, EndedCall
  <2>4. x = [y EXCEPT !.answer = f]
    BY <1>2, <2>1, <2>2 DEF Answered
  <2>5. /\ x \in CallType /\ x.pc = "done" /\ x.result = result /\ x.answer = f
        /\ x.id = call[p.call].id /\ x.conn = call[p.call].conn /\ x.unsent = call[p.call].unsent
    BY <2>3, <2>4 DEF CallType
  <2>6. QED
    BY <1>0, <1>2, <2>1, <2>5
<1>3. CASE p.auth /\ call[p.call].pc # "authing"
  BY <1>0, <1>1, <1>3 DEF Answered
<1>4. CASE p.auth /\ call[p.call].pc = "authing"
  <2>1. PICK pc \in {"got", "closing"} : pc = IF f.kind = "success" THEN "got" ELSE "closing"
    OBVIOUS
  <2>2. x = [call[p.call] EXCEPT !.pc = pc]
    BY <1>4, <2>1 DEF Answered
  <2>3. pc \in {"locking", "connecting", "authing", "closing", "got"}
    BY <2>1
  <2>4. /\ x \in CallType
        /\ x.pc = pc /\ x.result = call[p.call].result /\ x.conn = call[p.call].conn
        /\ x.id = call[p.call].id /\ x.unsent = call[p.call].unsent /\ x.answer = call[p.call].answer
    BY <1>0, <2>2, <2>3, PcCall
  <2>5. QED
    BY <1>0, <1>4, <2>1, <2>4
<1>5. QED
  BY <1>0, <1>2, <1>3, <1>4

\* An answer arrives.
LEMMA ReceiveStep ==
    ASSUME BridgeInv, NEW k \in Conns, Receive(k)
    PROVE  BridgeInv'
<1>0. TypeOK
  BY DEF BridgeInv
<1>1. /\ call \in [Calls -> CallType] /\ conn \in [Conns -> ConnType] /\ conn[k] \in ConnType
      /\ channel \in Conns \cup {None} /\ lock \in Calls \cup {None}
  BY <1>0, Types
<1>2. conn[k].down \in Seq(Frames) /\ conn[k].down # <<>> /\ IsOpen(k) /\ loop = None
  BY <1>1 DEF Receive, ConnType
<1>3. PICK f : f = Head(conn[k].down)
  OBVIOUS
<1>4. /\ f \in Frames /\ Tail(conn[k].down) \in Seq(Frames) /\ f \in Elems(conn[k].down)
      /\ Elems(Tail(conn[k].down)) \subseteq Elems(conn[k].down)
  BY <1>2, <1>3, ElemsTail
<1>5. PICK r : r = [conn[k] EXCEPT !.down = Tail(conn[k].down)]
  OBVIOUS
<1>6. /\ r \in ConnType /\ r.client = conn[k].client /\ r.server = conn[k].server
      /\ r.auth = conn[k].auth /\ r.up = conn[k].up /\ r.busy = conn[k].busy
      /\ Elems(r.down) \subseteq Elems(conn[k].down)
  BY <1>1, <1>4, <1>5 DEF ConnType
<1>7. conn' = [conn EXCEPT ![k] = r]
  BY <1>1, <1>5 DEF Receive
<1>8. /\ conn' \in [Conns -> ConnType] /\ conn'[k] = r
      /\ \A j \in Conns \ {k} : conn'[j] = conn[j]
  BY <1>1, <1>6, <1>7
<1>9. \A j \in Conns : /\ conn'[j].auth = conn[j].auth /\ conn'[j].up = conn[j].up
                       /\ conn'[j].server = conn[j].server /\ conn'[j].client = conn[j].client
                       /\ Elems(conn'[j].down) \subseteq Elems(conn[j].down)
                       /\ conn'[j].busy = conn[j].busy
  BY <1>6, <1>8
<1>10. \A j \in Conns : Carried(conn'[j]) \subseteq Carried(conn[j])
  BY <1>9 DEF Carried
<1>11. \A j \in Conns : Sent(conn'[j])
  BY <1>9 DEF BridgeInv, Sent
<1>12. /\ nextId' = nextId /\ loop' = None /\ token' = token /\ expected' = expected
       /\ UNCHANGED setup /\ UNCHANGED daemon
       /\ pending' = {p \in pending : p.id # f.id} /\ pending' \subseteq pending
  BY <1>2, <1>3 DEF Receive, setup
<1>13. Down'
  BY <1>12 DEF Down
<1>14. f \in Carried(conn[k])
  BY <1>4 DEF Carried
<1>15. \A j \in Conns : IsOpen(j)' <=> IsOpen(j)
  BY <1>9 DEF IsOpen
<1>16. CASE UNCHANGED <<call, channel, lock>>
  <2>1. call' = call /\ channel' = channel /\ lock' = lock
    BY <1>16
  <2>2. TypeOK'
    BY <1>0, <1>1, <1>8, <1>12, <2>1, NextTypes, Types
  <2>3. Promises'
    BY <1>12, <2>1 DEF BridgeInv, Promises
  <2>4. Held'
    BY <1>15, <2>1 DEF BridgeInv, Held
  <2>5. Made'
    BY <1>1, <1>9, <2>1 DEF BridgeInv, Made, HasConn
  <2>6. Ids' /\ Routed'
    BY <1>10, <1>12, <2>1, Fewer
  <2>7. Handshakes'
    <3>1. \A j \in Conns : Shared(j)' => Shared(j)
      BY <2>1 DEF Shared
    <3>2. QED
      BY <1>9, <1>12, <2>1, <3>1, Quiet
  <2>8. Results'
    <3>1. \A c \in Calls : call[c].result = "down" => call[c].conn \in Conns
      BY DEF BridgeInv, Made, HasConn
    <3>2. QED
      BY <1>9, <1>12, <2>1, <3>1 DEF BridgeInv, Results
  <2>9. QED
    BY <1>11, <1>13, <2>2, <2>3, <2>4, <2>5, <2>6, <2>7, <2>8 DEF BridgeInv
<1>17. ASSUME NEW p \in pending, p.id = f.id, call' = [call EXCEPT ![p.call] = Answered(p, f)],
              IF p.auth /\ call'[p.call].pc = "got"
              THEN channel' = k /\ lock' = None
              ELSE UNCHANGED <<channel, lock>>
       PROVE  BridgeInv'
  <2>1. PICK c : c = p.call
    OBVIOUS
  <2>2. PICK x : x = Answered(p, f)
    OBVIOUS
  <2>3. /\ c \in Calls /\ p.auth \in BOOLEAN
        /\ x \in CallType /\ x.id = call[c].id /\ x.conn = call[c].conn
        /\ x.unsent = call[c].unsent
        /\ \/ /\ ~p.auth /\ x.pc = "done" /\ x.answer = f
              /\ x.result = IF f.kind = "content" THEN "ok" ELSE "refused"
           \/ p.auth /\ call[c].pc # "authing" /\ x = call[c]
           \/ /\ p.auth /\ call[c].pc = "authing"
              /\ x.answer = call[c].answer /\ x.result = call[c].result
              /\ x.pc = IF f.kind = "success" THEN "got" ELSE "closing"
    BY <1>0, <1>4, <2>1, <2>2, AnsweredCall, PromiseType
  <2>4. /\ call' \in [Calls -> CallType] /\ call'[c] = x
        /\ \A d \in Calls \ {c} : call'[d] = call[d]
    BY <1>0, <1>17, <2>1, <2>2, <2>3, CallUpdate
  <2>5. /\ f.of = c /\ call[c].conn = k
        /\ IF p.auth THEN f.kind \notin {"request", "content"}
           ELSE f.kind \notin {"auth", "success"}
    BY <1>14, <1>17, <2>1 DEF BridgeInv, Routed
  <2>6. IF p.auth THEN call[c].pc \in {"authing", "closing", "done"} ELSE call[c].pc = "waiting"
    BY <2>1 DEF BridgeInv, Promises
  <2>7. \A q \in pending' : q.call # c
    BY <1>12, <1>17, <2>1 DEF BridgeInv, Promises
  <2>8. \A q \in pending' : q \in pending /\ q.call \in Calls
    BY <1>0, <1>12, PromiseType
  <2>9. \A d \in Calls : call'[d].id = call[d].id /\ call'[d].conn = call[d].conn
                         /\ call'[d].unsent = call[d].unsent
    BY <2>3, <2>4
  <2>10. Ids' /\ Routed'
    BY <1>10, <1>12, <2>8, <2>9, Fewer
  <2>11. \A d \in Calls : call'[d].pc # "done" => call'[d].result = "none"
    BY <2>3, <2>4 DEF BridgeInv, Promises
  <2>12. \A d \in Calls : call'[d].unsent => call'[d].pc \in {"waiting", "done"}
    BY <2>3, <2>4, <2>6 DEF BridgeInv, Promises
  <2>13. Promises'
    <3>1. \A q \in pending' : \A d \in Calls : q.id = call'[d].id => q.call = d /\ ~q.auth
      BY <2>8, <2>9 DEF BridgeInv, Promises
    <3>2. \A q \in pending' : ~q.auth => q.id = call'[q.call].id
      BY <2>8, <2>9 DEF BridgeInv, Promises
    <3>3. \A q, o \in pending' : q.call = o.call => q.id = o.id
      BY <2>8 DEF BridgeInv, Promises
    <3>4. \A q \in pending' :
            IF q.auth THEN call'[q.call].pc \in {"authing", "closing", "done"}
            ELSE call'[q.call].pc = "waiting"
      BY <2>4, <2>7, <2>8 DEF BridgeInv, Promises
    <3>5. QED
      BY <2>11, <2>12, <3>1, <3>2, <3>3, <3>4 DEF Promises
  <2>14. \A d \in Calls : call'[d].pc = "opened" => call[d].pc = "opened"
    BY <2>3, <2>4
  <2>15. \A d \in Calls : call'[d].pc \in {"authing", "closing"} => call[d].pc \in {"authing", "closing"}
    BY <2>3, <2>4
  <2>16. Results'
    <3>1. \A d \in Calls : call[d].result = "down" => call[d].conn \in Conns
      BY DEF BridgeInv, Made, HasConn
    <3>2. token = expected /\ ~p.auth => f.kind = "content"
      BY <1>4, <2>5 DEF BridgeInv, Handshakes, Met
    <3>3. /\ x.result = "ok" => x.answer.of = c
          /\ x.result = "down" => call[c].result = "down"
          /\ token = expected => x.result # "refused"
      BY <2>3, <2>5, <3>2 DEF BridgeInv, Results
    <3>4. QED
      BY <1>9, <1>12, <2>4, <2>9, <3>1, <3>3 DEF BridgeInv, Results
  <2>17. CASE p.auth /\ call[c].pc = "authing" /\ f.kind = "success"
    <3>1. x.pc = "got" /\ channel' = k /\ lock' = None
      BY <1>17, <2>1, <2>3, <2>4, <2>17
    <3>2. TypeOK'
      BY <1>0, <1>8, <1>12, <2>4, <3>1, NextTypes, Types
    <3>3. lock = c /\ \A d \in Calls : call[d].pc \in Opening <=> lock = d
      BY <2>3, <2>17 DEF BridgeInv, Held, Opening
    <3>4. Held'
      <4>1. \A d \in Calls : call'[d].pc \in Opening <=> lock' = d
        BY <2>3, <2>4, <3>1, <3>3, BridgeAssumption DEF Opening
      <4>2. \A j \in Conns : IsOpen(j) => j = k
        BY <2>3, <2>5, <3>3, BridgeAssumption DEF BridgeInv, Held
      <4>3. QED
        BY <1>15, <3>1, <4>1, <4>2 DEF Held
    <3>5. Made'
      <4>1. conn'[k].client # "none"
        BY <1>2, <1>9 DEF IsOpen
      <4>2. \A d \in Calls : HasConn(d)' => HasConn(d)
        BY <2>3, <2>4, <2>17 DEF HasConn
      <4>3. QED
        BY <1>9, <2>9, <3>1, <4>1, <4>2 DEF BridgeInv, Made
    <3>6. Handshakes'
      <4>1. token = expected => conn[k].auth
        <5>1. SUFFICES ASSUME token = expected
                       PROVE  conn[k].auth
          OBVIOUS
        <5>2. token # None
          BY <2>3, <2>17, <5>1 DEF BridgeInv, Handshakes
        <5>3. Met(conn[k])
          BY <5>1 DEF BridgeInv, Handshakes
        <5>4. QED
          BY <1>4, <2>17, <5>2, <5>3 DEF Met
      <4>2. \A j \in Conns \ {k} : Shared(j)' => Shared(j)
        BY <2>3, <2>4, <2>5, <3>1 DEF Shared
      <4>3. token = expected => \A j \in Conns : Shared(j)' => Shared(j) \/ conn[j].auth
        BY <4>1, <4>2
      <4>4. QED
        BY <1>9, <1>12, <2>9, <2>14, <2>15, <4>3, Quiet
    <3>7. QED
      BY <1>11, <1>13, <2>10, <2>13, <2>16, <3>2, <3>4, <3>5, <3>6 DEF BridgeInv
  <2>18. CASE ~(p.auth /\ call[c].pc = "authing" /\ f.kind = "success")
    <3>1. \/ x.pc = "done" /\ ~p.auth
          \/ p.auth /\ call[c].pc = "authing" /\ x.pc = "closing"
          \/ p.auth /\ x = call[c] /\ call[c].pc \in {"closing", "done"}
      BY <2>3, <2>6, <2>18
    <3>2. channel' = channel /\ lock' = lock
      BY <1>17, <2>1, <2>4, <3>1
    <3>3. TypeOK'
      BY <1>0, <1>1, <1>8, <1>12, <2>4, <3>2, NextTypes, Types
    <3>4. Held'
      <4>1. /\ x.pc \in Opening <=> call[c].pc \in Opening
            /\ x.pc # "connecting"
        BY <2>6, <3>1 DEF Opening
      <4>2. \A d \in Calls : /\ call'[d].pc \in Opening <=> call[d].pc \in Opening
                             /\ call[d].pc # "connecting" => call'[d].pc # "connecting"
        BY <2>4, <4>1
      <4>3. QED
        BY <1>15, <2>9, <3>2, <4>2 DEF BridgeInv, Held
    <3>5. Made'
      <4>1. \A d \in Calls : HasConn(d)' => HasConn(d)
        BY <2>3, <2>4, <2>6, <3>1 DEF HasConn
      <4>2. QED
        BY <1>1, <1>9, <2>9, <3>2, <4>1 DEF BridgeInv, Made
    <3>6. Handshakes'
      <4>1. \A j \in Conns : Shared(j)' => Shared(j)
        BY <2>3, <2>4, <3>1, <3>2 DEF Shared
      <4>2. QED
        BY <1>9, <1>12, <2>9, <2>14, <2>15, <4>1, Quiet
    <3>7. QED
      BY <1>11, <1>13, <2>10, <2>13, <2>16, <3>3, <3>4, <3>5, <3>6 DEF BridgeInv
  <2>19. QED
    BY <2>17, <2>18
<1>18. QED
  BY <1>3, <1>16, <1>17 DEF Receive

-----------------------------------------------------------------------------
(* The theorems.                                                           *)

\* BridgeInv holds at first: nobody has called and nothing is connected.
LEMMA BridgeInit == Init => BridgeInv
<1>0. SUFFICES ASSUME Init
               PROVE  BridgeInv
  OBVIOUS
<1>1. NoConn \in ConnType /\ Carried(NoConn) = {} /\ Sent(NoConn) /\ Met(NoConn)
  <2>1. <<>> \in Seq(Frames)
    OBVIOUS
  <2>2. QED
    BY <2>1, ElemsEmpty DEF NoConn, ConnType, Carried, Sent, Met
<1>2. NoCall \in CallType
  BY DEF NoCall, CallType
<1>3. /\ conn \in [Conns -> ConnType] /\ call \in [Calls -> CallType]
      /\ \A k \in Conns : conn[k] = NoConn
      /\ \A c \in Calls : call[c] = NoCall
  BY <1>0, <1>1, <1>2 DEF Init
<1>4. channel = None /\ lock = None /\ loop = None /\ pending = {} /\ nextId = 1
  BY <1>0 DEF Init
<1>5. TypeOK
  <2>1. session \in [Sessions -> {"off", "up", "stopped"}] /\ stale \subseteq Sessions
    BY <1>0 DEF Init
  <2>2. faults \in 0..MaxFaults /\ nextId \in Nat
    BY <1>0, BridgeAssumption DEF Init
  <2>3. expected \in Tokens \cup {None} /\ token \in Tokens \cup {None}
    BY <1>0 DEF Init
  <2>4. QED
    BY <1>3, <1>4, <2>1, <2>2, <2>3, Types
<1>6. \A c \in Calls : /\ call[c].pc = "idle" /\ call[c].id = 0 /\ ~call[c].unsent
                       /\ call[c].result = "none"
  <2>1. /\ NoCall.pc = "idle" /\ NoCall.id = 0 /\ NoCall.unsent = FALSE
        /\ NoCall.result = "none"
    BY DEF NoCall
  <2>2. QED
    BY <1>3, <2>1
<1>7. \A k \in Conns : ~IsOpen(k)
  BY <1>3 DEF NoConn, IsOpen
<1>8. Ids
  BY <1>1, <1>3, <1>4, <1>6 DEF Ids
<1>9. Promises
  BY <1>4, <1>6 DEF Promises
<1>10. Held
  BY <1>4, <1>6, <1>7, BridgeAssumption DEF Held, Opening
<1>11. Made /\ Down
  BY <1>4, <1>6 DEF Made, Down, HasConn
<1>12. (\A k \in Conns : Sent(conn[k])) /\ Routed
  BY <1>1, <1>3, <1>4 DEF Routed
<1>13. Handshakes
  <2>1. \A k \in Conns : ~Shared(k)
    BY <1>4, <1>6, BridgeAssumption DEF Shared
  <2>2. QED
    BY <1>1, <1>3, <1>6, <2>1 DEF Handshakes
<1>14. Results
  BY <1>6 DEF Results
<1>15. QED
  BY <1>5, <1>8, <1>9, <1>10, <1>11, <1>12, <1>13, <1>14 DEF BridgeInv

\* Every step keeps BridgeInv.
LEMMA BridgeNext == BridgeInv /\ [Next]_vars => BridgeInv'
<1>0. SUFFICES ASSUME BridgeInv, [Next]_vars
               PROVE  BridgeInv'
  OBVIOUS
<1>1. ASSUME NEW c \in Calls, NEW s \in Sessions, Send(c, s)
      PROVE  BridgeInv'
  BY <1>0, <1>1, SendStep
<1>2. ASSUME NEW c \in Calls, Advance(c)
      PROVE  BridgeInv'
  BY <1>0, <1>2, GetChannelStep, ReconnectStep, ConnectStep, ConnectFailsStep, AuthSendStep,
     AuthTimeoutStep, AuthCloseStep, RegisterStep, WriteStep, TimeoutStep DEF Advance
<1>3. ASSUME NEW k \in Conns, Receive(k) \/ PeerClosed(k) \/ Inactive(k)
      PROVE  BridgeInv'
  BY <1>0, <1>3, ReceiveStep, PeerClosedStep, InactiveStep
<1>4. ASSUME NEW k \in Conns, Serve(k)
      PROVE  BridgeInv'
  <2>1. conn' \in [Conns -> ConnType] /\ \A j \in Conns : Moves(conn[j], conn'[j])
    BY <1>0, <1>4, ServeMoves DEF BridgeInv
  <2>2. UNCHANGED <<setup, daemon, client>>
    BY <1>4 DEF Serve, Accept, Handshake, Handle, Answer, ClientGone, Shutdown
  <2>3. TypeOK'
    BY <1>0, <2>1, <2>2, NextTypes, Types DEF BridgeInv, client
  <2>4. QED
    BY <1>0, <2>1, <2>2, <2>3, DaemonStep
<1>5. ASSUME NEW s \in Sessions, Listen(s) \/ Stop(s) \/ StopAnyway(s) \/ Crash(s)
      PROVE  BridgeInv'
  <2>1. conn' \in [Conns -> ConnType] /\ \A j \in Conns : Moves(conn[j], conn'[j])
    BY <1>0, <1>5, StopMoves DEF BridgeInv
  <2>2. UNCHANGED <<setup, client>>
    BY <1>5 DEF Listen, Stop, StopAnyway, Crash
  <2>3. TypeOK'
    <3>1. /\ session \in [Sessions -> {"off", "up", "stopped"}]
          /\ stale \subseteq Sessions /\ faults \in 0..MaxFaults
      BY <1>0, Types DEF BridgeInv
    <3>2. /\ \E v \in {"up", "stopped"} : session' = [session EXCEPT ![s] = v]
          /\ stale' = stale \/ stale' = stale \cup {s}
          /\ faults' = faults \/ (faults' = faults + 1 /\ faults < MaxFaults)
      <4>1. CASE Listen(s)
        BY <4>1 DEF Listen
      <4>2. CASE Stop(s)
        BY <4>2 DEF Stop
      <4>3. CASE StopAnyway(s)
        BY <4>3 DEF StopAnyway
      <4>4. CASE Crash(s)
        BY <4>4 DEF Crash
      <4>5. QED
        BY ONLY <1>5, <4>1, <4>2, <4>3, <4>4
    <3>3. session' \in [Sessions -> {"off", "up", "stopped"}]
      <4>1. PICK v \in {"up", "stopped"} : session' = [session EXCEPT ![s] = v]
        BY <3>2
      <4>2. QED
        BY ONLY <3>1, <4>1
    <3>4. stale' \subseteq Sessions
      BY ONLY <3>1, <3>2, s \in Sessions
    <3>5. faults' \in 0..MaxFaults
      BY ONLY <3>1, <3>2, BridgeAssumption
    <3>6. expected' = expected /\ token' = token
      BY <2>2 DEF setup
    <3>7. /\ channel' = channel /\ lock' = lock /\ loop' = loop /\ pending' = pending
          /\ call' = call /\ nextId' = nextId
      BY <2>2 DEF client
    <3>8. /\ expected \in Tokens \cup {None} /\ token \in Tokens \cup {None}
          /\ channel \in Conns \cup {None} /\ lock \in Calls \cup {None}
          /\ loop \in Conns \cup {None} /\ pending \subseteq Promise
          /\ call \in [Calls -> CallType] /\ nextId \in Nat
      BY <1>0, Types DEF BridgeInv
    <3>9. QED
      BY ONLY <2>1, <3>3, <3>4, <3>5, <3>6, <3>7, <3>8 DEF TypeOK, ConnType, CallType, Promise
  <2>4. QED
    BY <1>0, <2>1, <2>2, <2>3, DaemonStep
<1>6. CASE UNCHANGED vars
  <2>1. \A j \in Conns : Moves(conn[j], conn'[j])
    BY <1>0, <1>6, MovesSame, Types DEF BridgeInv, vars
  <2>2. UNCHANGED <<setup, client>> /\ TypeOK'
    BY <1>0, <1>6 DEF BridgeInv, TypeOK, vars, setup, client
  <2>3. QED
    BY <1>0, <2>1, <2>2, DaemonStep
<1>7. QED
  BY <1>0, <1>1, <1>2, <1>3, <1>4, <1>5, <1>6 DEF Next

\* The inductive invariant of the bridge.
THEOREM BridgeCorrect == Spec => []BridgeInv
BY BridgeInit, BridgeNext, PTL DEF Spec

\* Both ends keep their types.
THEOREM TypeCorrect == Spec => []TypeOK
<1>1. BridgeInv => TypeOK
  BY DEF BridgeInv
<1>2. QED
  BY <1>1, BridgeCorrect, PTL

\* send returns the answer to its own request, for any number of calls, late
\* answers, lost connections and restarts of the daemon.
THEOREM AnswersCorrect == Spec => []AnswersAreOwn
<1>1. BridgeInv => AnswersAreOwn
  BY DEF BridgeInv, Results, AnswersAreOwn
<1>2. QED
  BY <1>1, BridgeCorrect, PTL

\* failAllPromises fails only calls whose own connection is down.
THEOREM DownCorrect == Spec => []DownFailsOnlyItsOwn
<1>1. BridgeInv => DownFailsOnlyItsOwn
  BY DEF BridgeInv, Results, DownFailsOnlyItsOwn
<1>2. QED
  BY <1>1, BridgeCorrect, PTL

\* With the daemon's token no request is turned down.
THEOREM HandshakeCorrect == Spec => []NoRefusals
<1>1. BridgeInv => NoRefusals
  BY DEF BridgeInv, Results, NoRefusals
<1>2. QED
  BY <1>1, BridgeCorrect, PTL

\* At most one connection of the extension is open, whatever its threads and the
\* daemon do: what failAllPromises relies on, since it asks no promise for its
\* connection.
THEOREM OneConnection == Spec => [](\A j, k \in Conns : IsOpen(j) /\ IsOpen(k) => j = k)
<1>1. BridgeInv => \A j, k \in Conns : IsOpen(j) /\ IsOpen(k) => j = k
  BY BridgeAssumption DEF BridgeInv, Held
<1>2. QED
  BY <1>1, BridgeCorrect, PTL
=============================================================================
