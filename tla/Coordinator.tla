----------------------------- MODULE Coordinator -----------------------------
(***************************************************************************)
(* The coordinator (crates/coordinator/src) and one host that joins it     *)
(* (crates/app/src/cli/coordinator.rs): enrolment by one-time codes, the   *)
(* websocket each host keeps open, the registry of who is connected, and   *)
(* the wakes a webhook sends over it.                                      *)
(*                                                                         *)
(* The server handles its connections concurrently and keeps everything    *)
(* but its store in memory; the host's daemon keeps the link while its     *)
(* operator joins and leaves from another process.  A connection is named  *)
(* by a slot that is used again once both its ends are gone, which stands  *)
(* for the registry's ever growing token.  Signatures, names of targets    *)
(* and labels are abstracted to whether they match; a host's private key   *)
(* is named by the identity it was enrolled for.                           *)
(***************************************************************************)
EXTENDS Naturals, Sequences, SequencesExt

CONSTANTS
    Codes,            \* one-time codes an operator may issue
    NameOf,           \* the host name each is issued for
    MaxHosts,         \* bound on the hosts enrolled
    Connections,      \* connection slots
    OUTBOUND_QUEUE,   \* messages that may wait for one host
    Deliveries,       \* webhook deliveries
    DELIVERY_MEMORY,  \* deliveries remembered
    MaxEvents         \* bound on lost connections, restarts, timeouts, deliveries
                      \* and changes of what the host serves

Ids == 1 .. MaxHosts
NoId == 0
NoConnection == "none"
Profiles == { "serves", "idle" }    \* whether the host serves the job's target
NotDescribed == "undescribed"

ASSUME CoordinatorAssumption ==
    /\ MaxHosts \in Nat \ {0} /\ MaxEvents \in Nat
    /\ OUTBOUND_QUEUE \in Nat \ {0} /\ DELIVERY_MEMORY \in Nat \ {0}
    /\ DOMAIN NameOf = Codes /\ NoConnection \notin Connections

VARIABLES
    invite,     \* store: each code, "none", "open" or "used"
    host,       \* store: each enrolled host
    registry,   \* Registry.hosts: the connection of each host and what it said
    seen,       \* DeliveryLog, oldest first
    conn,       \* each connection, its two ends and what is under way on it
    setting,    \* on the host: the identity its settings name
    key,        \* on the host: the identity its key belongs to
    cli,        \* on the host: the operator's command under way
    link,       \* on the host: maintain_link
    policies,   \* on the host: what it serves
    budget      \* how many of the bounded events are still to come

store == <<invite, host>>
server == <<registry, seen>>
disk == <<setting, key>>
vars == <<invite, host, registry, seen, conn, setting, key, cli, link, policies, budget>>

-----------------------------------------------------------------------------
\* Values

HostRecord == [ state: { "none", "active", "revoked" }, name: { NameOf[c] : c \in Codes } \cup { "" },
                code: Codes \cup { "" } ]

Stages == { "free", "challenged", "verified", "serving", "closing", "ended" }

Connection ==
    [ stage: Stages,
      id: Ids \cup { NoId },                      \* the identity claimed
      signed: Ids,                                \* the identity of the key that signed
      open: BOOLEAN,                              \* the host's end is open
      up: Seq(Profiles \cup { "close" }),         \* sent by the host, not yet read
      down: Seq({ "welcome", "wake", "close" }),  \* sent by the server, not yet read
      queue: Seq({ "wake", "close" }) ]           \* Outbound, not yet sent

NewConnection(id, signed) ==
    [ stage |-> "challenged", id |-> id, signed |-> signed, open |-> TRUE,
      up |-> <<>>, down |-> <<>>, queue |-> <<>> ]

Free == [ NewConnection(NoId, 1) EXCEPT !.stage = "free", !.open = FALSE ]

\* `by` is history: the connection the hello was read on.
NotConnected == [ connection |-> NoConnection, hello |-> NotDescribed, by |-> NoConnection ]

IdleCli == [ pc |-> "idle", code |-> "", id |-> NoId ]
IdleLink == [ pc |-> "idle", config |-> NoId, connection |-> NoConnection, described |-> NotDescribed ]

Spend == budget > 0 /\ budget' = budget - 1

Init ==
    /\ invite = [ c \in Codes |-> "none" ]
    /\ host = [ i \in Ids |-> [ state |-> "none", name |-> "", code |-> "" ] ]
    /\ registry = [ i \in Ids |-> NotConnected ]
    /\ seen = <<>>
    /\ conn = [ c \in Connections |-> Free ]
    /\ setting = NoId /\ key = NoId
    /\ cli = IdleCli /\ link = IdleLink
    /\ policies = "serves"
    /\ budget = MaxEvents

-----------------------------------------------------------------------------
\* The store

Active(id) == id # NoId /\ host[id].state = "active"

NameTaken(name) == \E i \in Ids : Active(i) /\ host[i].name = name

\* A name is checked when its code is issued, and again when it is spent.
CreateInvite(code) ==
    /\ invite[code] = "none" /\ ~NameTaken(NameOf[code])
    /\ invite' = [ invite EXCEPT ![code] = "open" ]
    /\ UNCHANGED <<host, server, conn, disk, cli, link, policies, budget>>

\* Mutant: the name was checked when the code was issued.
MayEnrollByCode(code) == invite[code] = "open"

MayEnroll(code) == invite[code] = "open" /\ ~NameTaken(NameOf[code])

\* The transaction: the code is spent and the host recorded, or neither.
Enrolled(code, id) ==
    /\ invite' = [ invite EXCEPT ![code] = "used" ]
    /\ host' = [ host EXCEPT ![id] = [ state |-> "active", name |-> NameOf[code], code |-> code ] ]

Revoke(id) ==
    /\ Active(id)
    /\ host' = [ host EXCEPT ![id].state = "revoked" ]
    /\ UNCHANGED <<invite, server, conn, disk, cli, link, policies, budget>>

-----------------------------------------------------------------------------
\* The operator's commands on the host, one at a time

\* join refuses a host that has joined, before the code is spent.
Join(code) ==
    /\ cli.pc = "idle" /\ setting = NoId /\ invite[code] # "none"
    /\ cli' = [ IdleCli EXCEPT !.pc = "enrolling", !.code = code ]
    /\ UNCHANGED <<store, server, conn, disk, link, policies, budget>>

\* The server enrols the host under a new identity; the answer may be lost.
Enroll ==
    /\ cli.pc = "enrolling" /\ MayEnroll(cli.code)
    /\ \E id \in { i \in Ids : host[i].state = "none" /\ \A j \in Ids : j < i => host[j].state # "none" } :
        /\ Enrolled(cli.code, id)
        /\ cli' \in { IdleCli, [ cli EXCEPT !.pc = "enrolled", !.id = id ] }
    /\ UNCHANGED <<server, conn, disk, link, policies, budget>>

\* The code is unknown, spent or expired, the name is taken, attempts are
\* limited, or the coordinator is not reached.
EnrollRefused ==
    /\ cli.pc = "enrolling"
    /\ cli' = IdleCli
    /\ UNCHANGED <<store, server, conn, disk, link, policies, budget>>

StoreKey ==
    /\ cli.pc = "enrolled"
    /\ key' = cli.id
    /\ cli' = [ cli EXCEPT !.pc = "keyed" ]
    /\ UNCHANGED <<store, server, conn, setting, link, policies, budget>>

SaveSetting ==
    /\ cli.pc = "keyed"
    /\ setting' = cli.id
    /\ cli' = IdleCli
    /\ UNCHANGED <<store, server, conn, key, link, policies, budget>>

\* leave: the key first, then the setting.
DeleteKey ==
    /\ cli.pc = "idle" /\ setting # NoId
    /\ key' = NoId
    /\ cli' = [ IdleCli EXCEPT !.pc = "leaving" ]
    /\ UNCHANGED <<store, server, conn, setting, link, policies, budget>>

Forget ==
    /\ cli.pc = "leaving"
    /\ setting' = NoId
    /\ cli' = IdleCli
    /\ UNCHANGED <<store, server, conn, key, link, policies, budget>>

\* A command fails or is killed between two of its steps.
CommandEnds ==
    /\ cli.pc \in { "enrolled", "keyed", "leaving" }
    /\ cli' = IdleCli
    /\ UNCHANGED <<store, server, conn, disk, link, policies, budget>>

ChangePolicies ==
    /\ Spend
    /\ policies' \in Profiles \ { policies }
    /\ UNCHANGED <<store, server, conn, disk, cli, link>>

-----------------------------------------------------------------------------
\* The host's link

ReadSetting ==
    /\ link.pc = "idle" /\ setting # NoId
    /\ link' = [ IdleLink EXCEPT !.pc = "loading", !.config = setting ]
    /\ UNCHANGED <<store, server, conn, disk, cli, policies, budget>>

\* The key is loaded, the socket opened and the challenge signed.
Connect(c) ==
    /\ link.pc = "loading" /\ key # NoId
    /\ conn[c] = Free
    /\ conn' = [ conn EXCEPT ![c] = NewConnection(link.config, key) ]
    /\ link' = [ link EXCEPT !.pc = "authenticating", !.connection = c ]
    /\ UNCHANGED <<store, server, disk, cli, policies, budget>>

\* The host lets go of its socket.
HangUp(record) == IF record.stage = "ended" THEN Free ELSE [ record EXCEPT !.open = FALSE, !.down = <<>> ]

\* No key, no way to the coordinator.
ConnectFails ==
    /\ link.pc = "loading"
    /\ link' = [ IdleLink EXCEPT !.pc = "backoff" ]
    /\ UNCHANGED <<store, server, conn, disk, cli, policies, budget>>

\* The server closed the connection, or it broke.
LinkCloses ==
    /\ link.pc \in { "authenticating", "serving" }
    /\ \/ conn[link.connection].down # <<>> /\ Head(conn[link.connection].down) = "close"
       \/ conn[link.connection].stage = "ended" /\ conn[link.connection].down = <<>>
    /\ conn' = [ conn EXCEPT ![link.connection] = HangUp(@) ]
    /\ link' = [ IdleLink EXCEPT !.pc = "backoff" ]
    /\ UNCHANGED <<store, server, disk, cli, policies, budget>>

\* The connection is lost without the server hearing of it, or the handshake
\* takes too long.
LinkLost ==
    /\ link.pc \in { "authenticating", "serving" } /\ Spend
    /\ conn' = [ conn EXCEPT ![link.connection] = HangUp(@) ]
    /\ link' = [ IdleLink EXCEPT !.pc = "backoff" ]
    /\ UNCHANGED <<store, server, disk, cli, policies>>

BackoffEnds ==
    /\ link.pc = "backoff"
    /\ link' = IdleLink
    /\ UNCHANGED <<store, server, conn, disk, cli, policies, budget>>

Says(c, messages) == conn' = [ conn EXCEPT ![c].up = @ \o messages ]

\* Welcomed, the host describes itself.
Welcomed ==
    /\ link.pc = "authenticating"
    /\ LET c == link.connection
       IN  /\ conn[c].down # <<>> /\ Head(conn[c].down) = "welcome"
           /\ conn' = [ conn EXCEPT ![c].down = Tail(@), ![c].up = Append(@, policies) ]
    /\ link' = [ link EXCEPT !.pc = "serving", !.described = policies ]
    /\ UNCHANGED <<store, server, disk, cli, policies, budget>>

\* A wake is handed to the target loops (WakeRoutes::deliver).
Woken ==
    /\ link.pc = "serving"
    /\ conn[link.connection].down # <<>> /\ Head(conn[link.connection].down) = "wake"
    /\ conn' = [ conn EXCEPT ![link.connection].down = Tail(@) ]
    /\ UNCHANGED <<store, server, disk, cli, link, policies, budget>>

\* A session goes on while the setting is the one it began with.
SameSetting(config) == setting = config

SaysGoodbye(record) == [ record EXCEPT !.up = Append(@, "close") ]

Reconfigured ==
    /\ link.pc = "serving" /\ ~SameSetting(link.config)
    /\ conn' = [ conn EXCEPT ![link.connection] = HangUp(SaysGoodbye(@)) ]
    /\ link' = IdleLink
    /\ UNCHANGED <<store, server, disk, cli, policies, budget>>

\* Mutant: what the host serves is described when it connects.
DescribeOnce(described) == <<>>

\* Described again when what the host serves changed.
DescribeAgain(described) == IF policies # described THEN <<policies>> ELSE <<>>

Beat ==
    /\ link.pc = "serving" /\ SameSetting(link.config)
    /\ DescribeAgain(link.described) # <<>>
    /\ Says(link.connection, DescribeAgain(link.described))
    /\ link' = [ link EXCEPT !.described = policies ]
    /\ UNCHANGED <<store, server, disk, cli, policies, budget>>

DaemonRestarts ==
    /\ Spend
    /\ conn' = IF link.connection = NoConnection THEN conn
               ELSE [ conn EXCEPT ![link.connection] = HangUp(@) ]
    /\ link' = IdleLink
    /\ UNCHANGED <<store, server, disk, cli, policies>>

-----------------------------------------------------------------------------
\* A connection at the server

Tells(record, messages) == IF record.open THEN [ record EXCEPT !.down = @ \o messages ] ELSE record

\* The server lets go of its socket; the slot is free once the host has too.
Ended(record) ==
    IF record.open THEN [ record EXCEPT !.stage = "ended", !.up = <<>>, !.queue = <<>> ] ELSE Free

\* Unknown, revoked and wrong-key look the same from outside.
Verified(record) == Active(record.id) /\ record.signed = record.id

Verify(c) ==
    /\ conn[c].stage = "challenged"
    /\ conn' = [ conn EXCEPT ![c] =
            IF Verified(@) THEN [ Tells(@, <<"welcome">>) EXCEPT !.stage = "verified" ]
                           ELSE Ended(Tells(@, <<"close">>)) ]
    /\ UNCHANGED <<store, server, disk, cli, link, policies, budget>>

\* The answer does not come in time, or the welcome cannot be sent.
Abandon(c) ==
    /\ conn[c].stage \in { "challenged", "verified" } /\ ~conn[c].open
    /\ conn' = [ conn EXCEPT ![c] = Free ]
    /\ UNCHANGED <<store, server, disk, cli, link, policies, budget>>

\* Mutant: the queue grows with whatever is sent.
EnqueuedAnyway(queue, message) == Append(queue, message)

\* try_send: a message for which there is no room is dropped.
Enqueued(queue, message) == IF Len(queue) < OUTBOUND_QUEUE THEN Append(queue, message) ELSE queue

\* The welcome has been sent.  The connection before is told, if its queue has
\* room, and loses its sender.
Register(c) ==
    /\ conn[c].stage = "verified"
    /\ LET id == conn[c].id
           previous == registry[id].connection
       IN  /\ registry' = [ registry EXCEPT ![id] = [ NotConnected EXCEPT !.connection = c ] ]
           /\ conn' = [ d \in Connections |->
                CASE d = c -> [ conn[d] EXCEPT !.stage = "serving" ]
                  [] d = previous -> [ conn[d] EXCEPT !.queue = Enqueued(@, "close") ]
                  [] OTHER -> conn[d] ]
    /\ UNCHANGED <<store, seen, disk, cli, link, policies, budget>>

Current(c) == registry[conn[c].id].connection = c

\* Mutant: whichever connection says it, the host is described.
HelloFromAny(c, hello) ==
    registry' = [ registry EXCEPT ![conn[c].id] =
        IF @.connection = NoConnection THEN @ ELSE [ @ EXCEPT !.hello = hello, !.by = c ] ]

\* A connection that was replaced describes nothing.
SetHello(c, hello) ==
    registry' = [ registry EXCEPT ![conn[c].id] =
        IF Current(c) THEN [ @ EXCEPT !.hello = hello, !.by = c ] ELSE @ ]

ServerReads(c) ==
    /\ conn[c].stage = "serving" /\ conn[c].up # <<>>
    /\ LET message == Head(conn[c].up)
       IN  IF message = "close"
           THEN conn' = [ conn EXCEPT ![c].stage = "closing" ] /\ UNCHANGED registry
           ELSE conn' = [ conn EXCEPT ![c].up = Tail(@) ] /\ SetHello(c, message)
    /\ UNCHANGED <<store, seen, disk, cli, link, policies, budget>>

\* The next message for the host is sent, which may find the socket gone.
Forwarded(record, sent) ==
    LET message == Head(record.queue)
    IN  [ Tells(record, <<message>>) EXCEPT
            !.queue = Tail(@), !.stage = IF sent /\ message = "wake" THEN @ ELSE "closing" ]

\* Without a sender the queue ends.
Forward(c) ==
    /\ conn[c].stage = "serving"
    /\ \/ /\ conn[c].queue # <<>>
          /\ \E sent \in { TRUE } \cup { conn[c].open } :
              conn' = [ conn EXCEPT ![c] = Forwarded(@, sent) ]
       \/ /\ conn[c].queue = <<>> /\ ~Current(c)
          /\ conn' = [ conn EXCEPT ![c].stage = "closing" ]
    /\ UNCHANGED <<store, server, disk, cli, link, policies, budget>>

\* Mutant: a connection outlives the revocation of its host.
CheckedAtLogin(c) == FALSE

RevokedSince(c) == ~Active(conn[c].id)

\* The periodic check: a revoked host, or one not heard of for too long.
Check(c) ==
    /\ conn[c].stage = "serving"
    /\ RevokedSince(c) \/ (~conn[c].open /\ conn[c].up = <<>>)
    /\ conn' = [ conn EXCEPT ![c] = [ Tells(@, <<"close">>) EXCEPT !.stage = "closing" ] ]
    /\ UNCHANGED <<store, server, disk, cli, link, policies, budget>>

\* Mutant: a connection that ends takes its host out of the registry.
UnregisterHost(c) == registry' = [ registry EXCEPT ![conn[c].id] = NotConnected ]

\* ... unless a newer connection has replaced it.
UnregisterToken(c) ==
    registry' = IF Current(c) THEN [ registry EXCEPT ![conn[c].id] = NotConnected ] ELSE registry

\* serve_host has returned.
Unregister(c) ==
    /\ conn[c].stage = "closing"
    /\ UnregisterToken(c)
    /\ conn' = [ conn EXCEPT ![c] = Ended(@) ]
    /\ UNCHANGED <<store, seen, disk, cli, link, policies, budget>>

\* A queued job: every connected host that serves it is woken, once for a
\* delivery that is remembered.
Webhook(d) ==
    /\ ~Contains(seen, d) /\ Spend
    /\ seen' = Append(IF Len(seen) = DELIVERY_MEMORY THEN Tail(seen) ELSE seen, d)
    /\ conn' = [ c \in Connections |->
            IF conn[c].stage \in { "serving", "closing" } /\ Current(c) /\ registry[conn[c].id].hello = "serves"
            THEN [ conn[c] EXCEPT !.queue = Enqueued(@, "wake") ] ELSE conn[c] ]
    /\ UNCHANGED <<store, registry, disk, cli, link, policies>>

\* The sockets break and all but the store is forgotten.
ServerRestarts ==
    /\ Spend
    /\ registry' = [ i \in Ids |-> NotConnected ] /\ seen' = <<>>
    /\ conn' = [ c \in Connections |->
            IF conn[c].open THEN [ conn[c] EXCEPT !.stage = "ended", !.up = <<>>, !.down = <<>>, !.queue = <<>> ]
                            ELSE Free ]
    /\ UNCHANGED <<store, disk, cli, link, policies>>

-----------------------------------------------------------------------------

Operator ==
    \/ \E code \in Codes : CreateInvite(code) \/ Join(code)
    \/ \E id \in Ids : Revoke(id)
    \/ Enroll \/ EnrollRefused \/ StoreKey \/ SaveSetting \/ DeleteKey \/ Forget \/ CommandEnds
    \/ ChangePolicies

LinkTries == ReadSetting \/ ConnectFails \/ BackoffEnds
LinkReads == Welcomed \/ Woken \/ LinkCloses
LinkTicks == Reconfigured \/ Beat
LinkConnects == \E c \in Connections : Connect(c)

Serve(c) ==
    \/ Verify(c) \/ Abandon(c) \/ Register(c) \/ ServerReads(c) \/ Forward(c) \/ Check(c) \/ Unregister(c)

Next ==
    \/ Operator
    \/ LinkTries \/ LinkConnects \/ LinkReads \/ LinkTicks
    \/ LinkLost \/ DaemonRestarts \/ ServerRestarts
    \/ \E c \in Connections : Serve(c)
    \/ \E d \in Deliveries : Webhook(d)

Spec == Init /\ [][Next]_vars

-----------------------------------------------------------------------------
(* Fairness: both runtimes run every task that can go on; timers fire; the store *)
(* can be read; a coordinator that is asked again and again is reached in the    *)
(* end.  Nothing is assumed of the operators, of the network's faults or of      *)
(* GitHub's deliveries.                                                          *)

Fairness ==
    /\ WF_vars(LinkTries) /\ SF_vars(LinkConnects) /\ WF_vars(LinkReads) /\ WF_vars(LinkTicks)
    /\ \A c \in Connections : WF_vars(Serve(c))

LiveSpec == Spec /\ Fairness

-----------------------------------------------------------------------------
\* Properties

TypeOK ==
    /\ invite \in [ Codes -> { "none", "open", "used" } ]
    /\ host \in [ Ids -> HostRecord ]
    /\ registry \in [ Ids -> [ connection: Connections \cup { NoConnection },
                               hello: Profiles \cup { NotDescribed },
                               by: Connections \cup { NoConnection } ] ]
    /\ seen \in Seq(Deliveries) /\ Len(seen) <= DELIVERY_MEMORY
    /\ conn \in [ Connections -> Connection ]
    /\ \A c \in Connections : Len(conn[c].queue) <= OUTBOUND_QUEUE
    /\ setting \in Ids \cup { NoId } /\ key \in Ids \cup { NoId }
    /\ cli \in [ pc: { "idle", "enrolling", "enrolled", "keyed", "leaving" },
                  code: Codes \cup { "" }, id: Ids \cup { NoId } ]
    /\ link \in [ pc: { "idle", "loading", "authenticating", "serving", "backoff" },
                   config: Ids \cup { NoId }, connection: Connections \cup { NoConnection },
                   described: Profiles \cup { NotDescribed } ]
    /\ policies \in Profiles
    /\ budget \in 0 .. MaxEvents

\* A name has one active host, although two codes may be issued for it while
\* nobody holds it, and a code enrols one host, however often it is tried and
\* although the answer that it did may be lost (enroll).
EnrolledOnce ==
    \A i, j \in Ids :
        \/ Active(i) /\ Active(j) /\ host[i].name = host[j].name
        \/ host[i].state # "none" /\ host[j].state # "none" /\ host[i].code = host[j].code
        => i = j

\* The registry names no connection that has ended, so a wake counted as sent
\* went to a connection of that host that is served, and what it says of the host
\* was said on that connection, never by one that it replaced and whose last
\* words are still being read (connection, set_hello).
RegistryIsServed ==
    \A i \in Ids : LET r == registry[i] IN
        /\ r.connection # NoConnection =>
             conn[r.connection].stage \in { "serving", "closing" } /\ conn[r.connection].id = i
        /\ r.hello # NotDescribed => r.by = r.connection

\* A connection leaves the registry when it ends or when a newer one registers:
\* the late end of an older one never takes the newer one with it (unregister).
RegistryUndisturbed ==
    [][ \A i \in Ids :
          registry[i].connection # NoConnection /\ registry'[i].connection = NoConnection =>
            conn'[registry[i].connection].stage \notin { "serving", "closing" } ]_registry

\* A host that was revoked, or whose operator left or joined anew, is disconnected
\* for good, however that fell between the steps of its connection and the ticks
\* of its session (connection, serve_host, serve).  The hosts are bounded, and with
\* them the changes of setting.
GoneIsDisconnected ==
    <>[](\A i \in Ids : host[i].state = "revoked" \/ setting # i => registry[i].connection = NoConnection)

Joined == setting # NoId /\ key = setting /\ Active(setting)

\* A host that joined comes online after any lost connection, restart or
\* replacement, and the coordinator then knows what it serves, unless it
\* leaves or is revoked (maintain_link).
JoinedComesOnline ==
    Joined ~> \/ /\ link.pc = "serving" /\ link.config = setting
                 /\ registry[setting].connection = link.connection
                 /\ registry[setting].hello = policies
              \/ ~Joined
===============================================================================
