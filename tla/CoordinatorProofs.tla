-------------------------- MODULE CoordinatorProofs --------------------------
(***************************************************************************)
(* Proofs about Coordinator, for any codes, names, connection slots, queue *)
(* and memory sizes and bounds.                                            *)
(*                                                                         *)
(* That the registry is served is inductive with the types: a slot is used *)
(* again only when free, and the registry names none that is.  That a host *)
(* is enrolled once needs the store to say that the code of every host it  *)
(* records is spent.                                                       *)
(***************************************************************************)
EXTENDS Coordinator, TLAPS

\* The code a command is spending was issued.
CommandHasCode == cli.pc = "enrolling" => cli.code \in Codes

LinkHasConnection ==
    link.pc \in { "authenticating", "serving" } => link.connection \in Connections

CodesAreSpent ==
    \A i \in Ids : host[i].state # "none" => host[i].code \in Codes /\ invite[host[i].code] = "used"

\* A connection that was let in signed with the key of the host it claims to be.
Admitted == { "verified", "serving", "closing" }

Genuine == \A c \in Connections : conn[c].stage \in Admitted => conn[c].signed = conn[c].id

IInv ==
    /\ TypeOK /\ CommandHasCode /\ LinkHasConnection /\ Genuine
    /\ CodesAreSpent /\ EnrolledOnce /\ RegistryIsServed

-----------------------------------------------------------------------------
(* Values. *)

Words == Seq({ "welcome", "wake", "close" })

Bounded == { r \in Connection : /\ Len(r.queue) <= OUTBOUND_QUEUE
                                /\ r.stage \in Admitted => r.signed = r.id }

Registration == [ connection: Connections \cup { NoConnection }, hello: Profiles \cup { NotDescribed },
                  by: Connections \cup { NoConnection } ]

Command == [ pc: { "idle", "enrolling", "enrolled", "keyed", "leaving" },
             code: Codes \cup { "" }, id: Ids \cup { NoId } ]

Link == [ pc: { "idle", "loading", "authenticating", "serving", "backoff" },
          config: Ids \cup { NoId }, connection: Connections \cup { NoConnection },
          described: Profiles \cup { NotDescribed } ]

LEMMA ConnTyped == TypeOK /\ Genuine => conn \in [ Connections -> Bounded ]
BY DEF TypeOK, Bounded, Genuine

LEMMA NewConnectionTyped ==
    ASSUME NEW id \in Ids \cup { NoId }, NEW signed \in Ids
    PROVE  /\ NewConnection(id, signed) \in Bounded
           /\ NewConnection(id, signed).stage = "challenged"
           /\ NewConnection(id, signed).queue = <<>>
BY CoordinatorAssumption DEF NewConnection, Connection, Bounded, Stages, Admitted

LEMMA FreeTyped == Free \in Bounded /\ Free.stage = "free"
<1> DEFINE r == NewConnection(NoId, 1)
<1>1. r \in Bounded
  <2>1. 1 \in Ids
    BY CoordinatorAssumption DEF Ids
  <2> QED BY <2>1, NewConnectionTyped
<1>2. Free = [ r EXCEPT !.stage = "free", !.open = FALSE ]
  BY DEF Free
<1> HIDE DEF r
<1> QED BY <1>1, <1>2 DEF Bounded, Connection, Stages, Admitted

LEMMA HangUpTyped ==
    ASSUME NEW r \in Bounded
    PROVE  /\ HangUp(r) \in Bounded
           /\ r.stage # "ended" => HangUp(r).stage = r.stage /\ HangUp(r).id = r.id
           /\ r.stage = "ended" => HangUp(r).stage = "free"
<1>1. CASE r.stage = "ended"
  BY <1>1, FreeTyped DEF HangUp
<1>2. CASE r.stage # "ended"
  <2>1. HangUp(r) = [ r EXCEPT !.open = FALSE, !.down = <<>> ]
    BY <1>2 DEF HangUp
  <2>2. <<>> \in Seq({ "welcome", "wake", "close" })
    OBVIOUS
  <2> QED BY <1>2, <2>1, <2>2 DEF Bounded, Connection
<1> QED BY <1>1, <1>2

LEMMA TellsTyped ==
    ASSUME NEW r \in Bounded, NEW words \in Words
    PROVE  /\ Tells(r, words) \in Bounded
           /\ Tells(r, words).stage = r.stage /\ Tells(r, words).id = r.id
           /\ Tells(r, words).queue = r.queue /\ Tells(r, words).signed = r.signed
<1>1. r.down \o words \in Words
  BY DEF Bounded, Connection, Words
<1> QED BY <1>1 DEF Tells, Bounded, Connection, Words

LEMMA EndedTyped ==
    ASSUME NEW r \in Bounded
    PROVE  Ended(r) \in Bounded /\ Ended(r).stage \in { "ended", "free" }
<1>1. CASE r.open
  <2>1. Ended(r) = [ r EXCEPT !.stage = "ended", !.up = <<>>, !.queue = <<>> ]
    BY <1>1 DEF Ended
  <2>2. /\ <<>> \in Seq(Profiles \cup { "close" }) /\ <<>> \in Seq({ "wake", "close" })
        /\ Len(<<>>) <= OUTBOUND_QUEUE
    BY CoordinatorAssumption
  <2> QED BY <2>1, <2>2 DEF Bounded, Connection, Stages, Admitted
<1>2. CASE ~r.open
  BY <1>2, FreeTyped DEF Ended
<1> QED BY <1>1, <1>2

LEMMA EnqueuedTyped ==
    ASSUME NEW queue \in Seq({ "wake", "close" }), Len(queue) <= OUTBOUND_QUEUE,
           NEW message \in { "wake", "close" }
    PROVE  Enqueued(queue, message) \in Seq({ "wake", "close" }) /\ Len(Enqueued(queue, message)) <= OUTBOUND_QUEUE
BY CoordinatorAssumption DEF Enqueued

LEMMA IdleTyped ==
    /\ IdleCli \in Command /\ IdleCli.pc = "idle"
    /\ IdleLink \in Link /\ IdleLink.pc = "idle"
    /\ NotConnected \in Registration /\ NotConnected.connection = NoConnection
    /\ NotConnected.hello = NotDescribed
BY DEF IdleCli, Command, IdleLink, Link, NotConnected, Registration

-----------------------------------------------------------------------------
(* The store. *)

LEMMA StoreUnchanged ==
    ASSUME CodesAreSpent, EnrolledOnce, UNCHANGED store
    PROVE  CodesAreSpent' /\ EnrolledOnce'
BY DEF CodesAreSpent, EnrolledOnce, Active, store

LEMMA RegistryUnchanged ==
    ASSUME RegistryIsServed, UNCHANGED <<registry, conn>>
    PROVE  RegistryIsServed'
BY DEF RegistryIsServed

LEMMA StoreTyped ==
    ASSUME TypeOK, invite' \in [ Codes -> { "none", "open", "used" } ], host' \in [ Ids -> HostRecord ],
           UNCHANGED <<registry, seen, conn, setting, key, cli, link, policies, budget>>
    PROVE  TypeOK'
<1>1. UNCHANGED registry /\ UNCHANGED seen /\ UNCHANGED conn /\ UNCHANGED setting /\ UNCHANGED key
      /\ UNCHANGED cli /\ UNCHANGED link /\ UNCHANGED policies /\ UNCHANGED budget
  OBVIOUS
<1> QED BY <1>1, Zenon DEF TypeOK

LEMMA CreateInviteStep ==
    ASSUME IInv, NEW code \in Codes, CreateInvite(code)
    PROVE  IInv'
<1>1. UNCHANGED <<host, registry, seen, conn, setting, key, cli, link, policies, budget>>
  BY DEF CreateInvite, server, disk
<1>2. invite[code] = "none" /\ invite' = [ invite EXCEPT ![code] = "open" ]
  BY DEF CreateInvite
<1>3. TypeOK /\ CodesAreSpent
  BY DEF IInv
<1>4. invite' \in [ Codes -> { "none", "open", "used" } ]
  <2>1. invite \in [ Codes -> { "none", "open", "used" } ]
    BY <1>3 DEF TypeOK
  <2> QED BY <2>1, <1>2
<1>5. TypeOK'
  <2>1. UNCHANGED host /\ host \in [ Ids -> HostRecord ]
    BY <1>1, <1>3 DEF TypeOK
  <2> QED BY <2>1, <1>1, <1>3, <1>4, StoreTyped
<1>6. CodesAreSpent'
  BY <1>1, <1>2, <1>3, <1>4 DEF CodesAreSpent, TypeOK
<1>7. (CommandHasCode /\ LinkHasConnection /\ Genuine /\ EnrolledOnce)'
  BY <1>1 DEF IInv, CommandHasCode, LinkHasConnection, Genuine, EnrolledOnce, Active
<1> QED BY <1>1, <1>5, <1>6, <1>7, RegistryUnchanged DEF IInv

\* A revoked host stays recorded, with its code.
LEMMA RevokeStep ==
    ASSUME IInv, NEW id \in Ids, Revoke(id)
    PROVE  IInv'
<1>1. UNCHANGED <<invite, registry, seen, conn, setting, key, cli, link, policies, budget>>
  BY DEF Revoke, server, disk
<1> DEFINE r == [ host[id] EXCEPT !.state = "revoked" ]
<1>2. /\ r \in HostRecord /\ r.state = "revoked" /\ r.name = host[id].name /\ r.code = host[id].code
      /\ host[id].state = "active"
  <2>1. host[id] \in HostRecord /\ host[id].state = "active"
    BY DEF IInv, TypeOK, Revoke, Active
  <2> QED BY <2>1 DEF HostRecord
<1>3. host' = [ host EXCEPT ![id] = r ]
  BY DEF Revoke, IInv, TypeOK
<1> HIDE DEF r
<1>4. host' \in [ Ids -> HostRecord ] /\ host'[id] = r /\ \A i \in Ids : i # id => host'[i] = host[i]
  BY <1>2, <1>3 DEF IInv, TypeOK
<1>5. TypeOK'
  <2>1. TypeOK /\ host' \in [ Ids -> HostRecord ]
    BY <1>4 DEF IInv
  <2>2. invite' \in [ Codes -> { "none", "open", "used" } ]
    BY <1>1, <2>1 DEF TypeOK
  <2> QED BY <2>1, <2>2, <1>1, StoreTyped
<1>6. CodesAreSpent'
  <2>1. CodesAreSpent /\ host[id].code \in Codes /\ invite[host[id].code] = "used"
    BY <1>2 DEF IInv, CodesAreSpent
  <2> QED BY <2>1, <1>1, <1>2, <1>4 DEF CodesAreSpent
<1>7. EnrolledOnce'
  BY <1>2, <1>4 DEF IInv, EnrolledOnce, Active
<1>8. (CommandHasCode /\ LinkHasConnection /\ Genuine)'
  BY <1>1 DEF IInv, CommandHasCode, LinkHasConnection, Genuine
<1> QED BY <1>1, <1>5, <1>6, <1>7, <1>8, RegistryUnchanged DEF IInv

\* The code is spent and the host recorded in one transaction.
LEMMA EnrollStep ==
    ASSUME IInv, Enroll
    PROVE  IInv'
<1>1. UNCHANGED <<registry, seen, conn, setting, key, link, policies, budget>>
  BY DEF Enroll, server, disk
<1>2. cli.code \in Codes /\ invite[cli.code] = "open" /\ ~NameTaken(NameOf[cli.code])
  BY DEF IInv, CommandHasCode, Enroll, MayEnroll
<1>3. PICK id \in Ids : host[id].state = "none" /\ Enrolled(cli.code, id)
                         /\ cli' \in { IdleCli, [ cli EXCEPT !.pc = "enrolled", !.id = id ] }
  BY DEF Enroll
<1> DEFINE r == [ state |-> "active", name |-> NameOf[cli.code], code |-> cli.code ]
<1>4. r \in HostRecord /\ r.state = "active" /\ r.name = NameOf[cli.code] /\ r.code = cli.code
  BY <1>2 DEF HostRecord
<1>5. host' = [ host EXCEPT ![id] = r ] /\ invite' = [ invite EXCEPT ![cli.code] = "used" ]
  BY <1>3 DEF Enrolled
<1> HIDE DEF r
<1>6. host' \in [ Ids -> HostRecord ] /\ host'[id] = r /\ \A i \in Ids : i # id => host'[i] = host[i]
  BY <1>4, <1>5 DEF IInv, TypeOK
<1>7. cli' \in Command /\ cli'.pc # "enrolling"
  <2>1. cli \in Command
    BY DEF IInv, TypeOK, Command
  <2>2. [ cli EXCEPT !.pc = "enrolled", !.id = id ] \in Command
        /\ [ cli EXCEPT !.pc = "enrolled", !.id = id ].pc = "enrolled"
    BY <2>1 DEF Command
  <2> QED BY <1>3, <2>2, IdleTyped
<1>8. invite' \in [ Codes -> { "none", "open", "used" } ]
  BY <1>5 DEF IInv, TypeOK
<1>9. TypeOK'
  BY <1>1, <1>6, <1>7, <1>8 DEF IInv, TypeOK, Command
<1>10. CodesAreSpent'
  BY <1>2, <1>4, <1>5, <1>6 DEF IInv, TypeOK, CodesAreSpent
<1>11. EnrolledOnce'
  <2>1. \A i \in Ids : host[i].state # "none" => host[i].code # cli.code
    BY <1>2 DEF IInv, CodesAreSpent
  <2>2. \A i \in Ids : Active(i) => host[i].name # NameOf[cli.code]
    BY <1>2 DEF NameTaken
  <2>3. \A i \in Ids : i # id => (Active(i)' <=> Active(i))
    BY <1>6 DEF Active
  <2> QED BY <1>4, <1>6, <2>1, <2>2, <2>3 DEF IInv, EnrolledOnce
<1>12. (CommandHasCode /\ LinkHasConnection /\ Genuine)'
  BY <1>1, <1>7 DEF IInv, CommandHasCode, LinkHasConnection, Genuine
<1> QED BY <1>1, <1>9, <1>10, <1>11, <1>12, RegistryUnchanged DEF IInv

-----------------------------------------------------------------------------
(* The commands on the host. *)

LEMMA CommandStep ==
    ASSUME IInv, cli' \in Command, cli'.pc = "enrolling" => cli'.code \in Codes,
           key' \in Ids \cup { NoId }, setting' \in Ids \cup { NoId },
           policies' \in Profiles, budget' \in 0 .. MaxEvents,
           UNCHANGED <<invite, host, registry, seen, conn, link>>
    PROVE  IInv'
<1>1. TypeOK'
  BY DEF IInv, TypeOK, Command
<1>2. (CommandHasCode /\ LinkHasConnection /\ Genuine)'
  BY DEF IInv, CommandHasCode, LinkHasConnection, Genuine
<1>3. (CodesAreSpent /\ EnrolledOnce)'
  BY StoreUnchanged DEF IInv, store
<1>4. RegistryIsServed'
  BY RegistryUnchanged DEF IInv
<1> QED BY <1>1, <1>2, <1>3, <1>4 DEF IInv

LEMMA SpendTyped ==
    ASSUME TypeOK, Spend
    PROVE  budget' \in 0 .. MaxEvents
<1>1. budget \in 0 .. MaxEvents
  BY DEF TypeOK
<1> QED BY <1>1, CoordinatorAssumption DEF Spend

LEMMA CommandsKept ==
    ASSUME IInv, Operator
    PROVE  IInv'
<1> USE DEF store, server, disk
<1>1. /\ cli \in Command /\ key \in Ids \cup { NoId } /\ setting \in Ids \cup { NoId }
      /\ policies \in Profiles /\ budget \in 0 .. MaxEvents /\ TypeOK
  BY DEF IInv, TypeOK, Command
<1>2. ASSUME NEW code \in Codes, Join(code) PROVE IInv'
  <2> DEFINE to == [ IdleCli EXCEPT !.pc = "enrolling", !.code = code ]
  <2>1. to \in Command /\ to.pc = "enrolling" /\ to.code = code
    BY DEF Command, IdleCli
  <2>2. cli' = to /\ UNCHANGED <<invite, host, registry, seen, conn, link, key, setting, policies, budget>>
    BY <1>2 DEF Join
  <2> HIDE DEF to
  <2> QED BY <1>1, <2>1, <2>2, CommandStep
<1>3. CASE EnrollRefused
  BY <1>1, <1>3, IdleTyped, CommandStep DEF EnrollRefused
<1>4. CASE StoreKey
  <2> DEFINE to == [ cli EXCEPT !.pc = "keyed" ]
  <2>1. to \in Command /\ to.pc = "keyed" /\ cli.id \in Ids \cup { NoId }
    BY <1>1 DEF Command
  <2>2. cli' = to /\ key' = cli.id /\ UNCHANGED <<invite, host, registry, seen, conn, link, setting, policies, budget>>
    BY <1>4 DEF StoreKey
  <2> HIDE DEF to
  <2> QED BY <1>1, <2>1, <2>2, CommandStep
<1>5. CASE SaveSetting
  <2>1. cli.id \in Ids \cup { NoId }
    BY <1>1 DEF Command
  <2> QED BY <1>1, <1>5, <2>1, IdleTyped, CommandStep DEF SaveSetting
<1>6. CASE DeleteKey
  <2> DEFINE to == [ IdleCli EXCEPT !.pc = "leaving" ]
  <2>1. to \in Command /\ to.pc = "leaving"
    BY DEF Command, IdleCli
  <2>2. cli' = to /\ key' = NoId /\ UNCHANGED <<invite, host, registry, seen, conn, link, setting, policies, budget>>
    BY <1>6 DEF DeleteKey
  <2> HIDE DEF to
  <2> QED BY <1>1, <2>1, <2>2, CommandStep
<1>7. CASE Forget
  BY <1>1, <1>7, IdleTyped, CommandStep DEF Forget
<1>8. CASE CommandEnds
  BY <1>1, <1>8, IdleTyped, CommandStep DEF CommandEnds
<1>9. CASE ChangePolicies
  <2>1. UNCHANGED <<invite, host, registry, seen, conn, link, cli, key, setting>> /\ policies' \in Profiles /\ Spend
    BY <1>9 DEF ChangePolicies
  <2>2. budget' \in 0 .. MaxEvents
    BY <1>1, <2>1, SpendTyped
  <2> QED BY <1>1, <2>1, <2>2, CommandStep DEF IInv, CommandHasCode
<1> QED BY <1>2, <1>3, <1>4, <1>5, <1>6, <1>7, <1>8, <1>9, CreateInviteStep, RevokeStep, EnrollStep
        DEF Operator

-----------------------------------------------------------------------------
(* The connections. *)

Served == { "serving", "closing" }

\* What every connection keeps, if the registry names it: it is served, for the
\* same host.
LEMMA StillServed ==
    ASSUME TypeOK, RegistryIsServed, UNCHANGED registry,
           \A c \in Connections : conn[c].stage \in Served =>
               conn'[c].stage \in Served /\ conn'[c].id = conn[c].id
    PROVE  RegistryIsServed'
<1> SUFFICES ASSUME NEW i \in Ids
             PROVE  /\ registry[i].connection # NoConnection =>
                          /\ conn'[registry[i].connection].stage \in Served
                          /\ conn'[registry[i].connection].id = i
                    /\ registry[i].hello # NotDescribed => registry[i].by = registry[i].connection
  BY DEF RegistryIsServed, Served
<1>1. registry[i].connection \in Connections \cup { NoConnection }
  BY DEF TypeOK
<1>2. /\ registry[i].connection # NoConnection =>
            conn[registry[i].connection].stage \in Served /\ conn[registry[i].connection].id = i
      /\ registry[i].hello # NotDescribed => registry[i].by = registry[i].connection
  BY DEF RegistryIsServed, Served
<1> QED BY <1>1, <1>2

\* A step that leaves the store, the host's files and its commands alone.
LEMMA NetworkStep ==
    ASSUME IInv, conn' \in [ Connections -> Bounded ], link' \in Link,
           link'.pc \in { "authenticating", "serving" } => link'.connection \in Connections,
           registry' \in [ Ids -> Registration ], RegistryIsServed',
           seen' \in Seq(Deliveries), Len(seen') <= DELIVERY_MEMORY, budget' \in 0 .. MaxEvents,
           UNCHANGED <<invite, host, setting, key, cli, policies>>
    PROVE  IInv'
<1>1. TypeOK'
  BY DEF IInv, TypeOK, Link, Registration, Bounded
<1>4. Genuine'
  BY DEF Genuine, Bounded
<1>2. (CommandHasCode /\ LinkHasConnection)'
  BY DEF IInv, CommandHasCode, LinkHasConnection
<1>3. (CodesAreSpent /\ EnrolledOnce)'
  BY StoreUnchanged DEF IInv, store
<1> QED BY <1>1, <1>2, <1>3, <1>4 DEF IInv

LEMMA NetworkTyped ==
    ASSUME IInv
    PROVE  /\ TypeOK /\ RegistryIsServed /\ conn \in [ Connections -> Bounded ] /\ link \in Link
           /\ link.pc \in { "authenticating", "serving" } => link.connection \in Connections
           /\ registry \in [ Ids -> Registration ]
           /\ seen \in Seq(Deliveries) /\ Len(seen) <= DELIVERY_MEMORY /\ budget \in 0 .. MaxEvents
BY ConnTyped DEF IInv, TypeOK, Link, Registration, LinkHasConnection

\* A step of one connection.
LEMMA ConnectionStep ==
    ASSUME IInv, NEW c \in Connections, NEW r \in Bounded, conn' = [ conn EXCEPT ![c] = r ],
           conn[c].stage \in Served => r.stage \in Served /\ r.id = conn[c].id,
           link' \in Link,
           link'.pc \in { "authenticating", "serving" } => link'.connection \in Connections,
           budget' \in 0 .. MaxEvents,
           UNCHANGED <<invite, host, registry, seen, setting, key, cli, policies>>
    PROVE  IInv'
<1>1. TypeOK /\ RegistryIsServed /\ conn \in [ Connections -> Bounded ]
  BY NetworkTyped
<1>2. conn' \in [ Connections -> Bounded ] /\ conn'[c] = r /\ \A d \in Connections : d # c => conn'[d] = conn[d]
  BY <1>1
<1>3. RegistryIsServed'
  BY <1>1, <1>2, StillServed
<1> QED BY <1>2, <1>3, NetworkTyped, NetworkStep

\* The host lets go of its socket.
LEMMA HangUpStep ==
    ASSUME IInv, link.connection \in Connections,
           NEW up \in Seq(Profiles \cup { "close" }),
           conn' = [ conn EXCEPT ![link.connection] = HangUp([ conn[link.connection] EXCEPT !.up = up ]) ],
           link' \in Link,
           link'.pc \in { "authenticating", "serving" } => link'.connection \in Connections,
           budget' \in 0 .. MaxEvents,
           UNCHANGED <<invite, host, registry, seen, setting, key, cli, policies>>
    PROVE  IInv'
<1> DEFINE q == conn[link.connection]
<1> DEFINE r == [ q EXCEPT !.up = up ]
<1>1. q \in Bounded
  BY NetworkTyped
<1>2. r \in Bounded /\ r.stage = q.stage /\ r.id = q.id
  BY <1>1 DEF Bounded, Connection
<1> HIDE DEF r
<1>3. HangUp(r) \in Bounded /\ (q.stage \in Served => HangUp(r).stage \in Served /\ HangUp(r).id = q.id)
  BY <1>2, HangUpTyped DEF Served
<1> QED BY <1>3, ConnectionStep DEF r

-----------------------------------------------------------------------------
(* The host's link. *)

LEMMA LinkMoves ==
    ASSUME IInv, link' \in Link,
           link'.pc \in { "authenticating", "serving" } => link'.connection \in Connections,
           UNCHANGED <<invite, host, registry, seen, conn, setting, key, cli, policies, budget>>
    PROVE  IInv'
<1>1. RegistryIsServed'
  BY RegistryUnchanged, NetworkTyped
<1> QED BY <1>1, NetworkTyped, NetworkStep

LEMMA IdleAt ==
    ASSUME NEW pc \in { "idle", "loading", "backoff" }, NEW id \in Ids \cup { NoId }
    PROVE  /\ [ IdleLink EXCEPT !.pc = pc, !.config = id ] \in Link
           /\ [ IdleLink EXCEPT !.pc = pc, !.config = id ].pc = pc
           /\ [ IdleLink EXCEPT !.pc = pc ] \in Link /\ [ IdleLink EXCEPT !.pc = pc ].pc = pc
BY DEF IdleLink, Link

LEMMA LinkTriesKept ==
    ASSUME IInv, LinkTries
    PROVE  IInv'
<1> USE DEF store, server, disk
<1>1. CASE ReadSetting
  <2>1. setting \in Ids \cup { NoId }
    BY DEF IInv, TypeOK
  <2>2. UNCHANGED <<invite, host, registry, seen, conn, setting, key, cli, policies, budget>>
        /\ link' = [ IdleLink EXCEPT !.pc = "loading", !.config = setting ]
    BY <1>1 DEF ReadSetting
  <2>3. link' \in Link /\ link'.pc = "loading"
    BY <2>1, <2>2, IdleAt
  <2> QED BY <2>2, <2>3, LinkMoves
<1>2. CASE ConnectFails
  <2>1. UNCHANGED <<invite, host, registry, seen, conn, setting, key, cli, policies, budget>>
        /\ link' = [ IdleLink EXCEPT !.pc = "backoff" ]
    BY <1>2 DEF ConnectFails
  <2>2. link' \in Link /\ link'.pc = "backoff"
    BY <2>1, IdleAt
  <2> QED BY <2>1, <2>2, LinkMoves
<1>3. CASE BackoffEnds
  BY <1>3, IdleTyped, LinkMoves DEF BackoffEnds
<1> QED BY <1>1, <1>2, <1>3 DEF LinkTries

\* The slot was free, so the registry did not name it.
LEMMA ConnectStep ==
    ASSUME IInv, NEW c \in Connections, Connect(c)
    PROVE  IInv'
<1>1. UNCHANGED <<invite, host, registry, seen, setting, key, cli, policies, budget>>
  BY DEF Connect, store, server, disk
<1> DEFINE r == NewConnection(link.config, key)
<1>2. r \in Bounded
  <2>1. key \in Ids /\ link.config \in Ids \cup { NoId }
    BY DEF IInv, TypeOK, Connect
  <2> QED BY <2>1, NewConnectionTyped
<1>3. conn' = [ conn EXCEPT ![c] = r ] /\ conn[c].stage = "free"
  BY FreeTyped DEF Connect
<1> DEFINE to == [ link EXCEPT !.pc = "authenticating", !.connection = c ]
<1>4. to \in Link /\ to.connection = c
  BY NetworkTyped DEF Link
<1>5. link' = to
  BY DEF Connect
<1> HIDE DEF r, to
<1> QED BY <1>1, <1>2, <1>3, <1>4, <1>5, NetworkTyped, ConnectionStep DEF Served

LEMMA SameUp ==
    ASSUME NEW r \in Bounded
    PROVE  r.up \in Seq(Profiles \cup { "close" }) /\ [ r EXCEPT !.up = r.up ] = r
BY DEF Bounded, Connection

LEMMA LinkLetsGo ==
    ASSUME IInv, link.connection \in Connections,
           conn' = [ conn EXCEPT ![link.connection] = HangUp(@) ],
           link' \in Link, link'.pc \notin { "authenticating", "serving" },
           budget' \in 0 .. MaxEvents,
           UNCHANGED <<invite, host, registry, seen, setting, key, cli, policies>>
    PROVE  IInv'
<1> DEFINE r == conn[link.connection]
<1>1. r \in Bounded
  BY NetworkTyped
<1>2. r.up \in Seq(Profiles \cup { "close" }) /\ [ r EXCEPT !.up = r.up ] = r
  BY <1>1, SameUp
<1>3. conn' = [ conn EXCEPT ![link.connection] = HangUp([ r EXCEPT !.up = r.up ]) ]
  BY <1>2, NetworkTyped
<1> HIDE DEF r
<1> QED BY <1>2, <1>3, HangUpStep DEF r

LEMMA LinkEndsKept ==
    ASSUME IInv, LinkCloses \/ LinkLost \/ DaemonRestarts
    PROVE  IInv'
<1> USE DEF store, server, disk
<1>1. [ IdleLink EXCEPT !.pc = "backoff" ] \in Link /\ [ IdleLink EXCEPT !.pc = "backoff" ].pc = "backoff"
  BY IdleAt
<1>2. CASE LinkCloses
  <2>1. /\ UNCHANGED <<invite, host, registry, seen, setting, key, cli, policies, budget>>
        /\ conn' = [ conn EXCEPT ![link.connection] = HangUp(@) ] /\ link' = [ IdleLink EXCEPT !.pc = "backoff" ]
        /\ link.pc \in { "authenticating", "serving" }
    BY <1>2 DEF LinkCloses
  <2> QED BY <1>1, <2>1, NetworkTyped, LinkLetsGo
<1>3. CASE LinkLost
  <2>1. /\ UNCHANGED <<invite, host, registry, seen, setting, key, cli, policies>> /\ Spend
        /\ conn' = [ conn EXCEPT ![link.connection] = HangUp(@) ] /\ link' = [ IdleLink EXCEPT !.pc = "backoff" ]
        /\ link.pc \in { "authenticating", "serving" }
    BY <1>3 DEF LinkLost
  <2>2. budget' \in 0 .. MaxEvents
    BY <2>1, NetworkTyped, SpendTyped
  <2> QED BY <1>1, <2>1, <2>2, NetworkTyped, LinkLetsGo
<1>4. CASE DaemonRestarts
  <2>1. /\ UNCHANGED <<invite, host, registry, seen, setting, key, cli, policies>> /\ Spend /\ link' = IdleLink
        /\ link.connection = NoConnection => UNCHANGED conn
        /\ link.connection # NoConnection => conn' = [ conn EXCEPT ![link.connection] = HangUp(@) ]
    BY <1>4 DEF DaemonRestarts
  <2>2. budget' \in 0 .. MaxEvents
    BY <2>1, NetworkTyped, SpendTyped
  <2>3. CASE link.connection = NoConnection
    <3>1. RegistryIsServed'
      BY <2>1, <2>3, RegistryUnchanged, NetworkTyped
    <3> QED BY <2>1, <2>2, <2>3, <3>1, IdleTyped, NetworkTyped, NetworkStep
  <2>4. CASE link.connection # NoConnection
    <3>1. link.connection \in Connections
      BY <2>4, NetworkTyped DEF Link
    <3> QED BY <2>1, <2>2, <2>4, <3>1, IdleTyped, LinkLetsGo
  <2> QED BY <2>3, <2>4
<1> QED BY <1>2, <1>3, <1>4

LEMMA LinkServesKept ==
    ASSUME IInv, Welcomed \/ Woken \/ Reconfigured \/ Beat
    PROVE  IInv'
<1> USE DEF store, server, disk
<1> DEFINE c == link.connection
<1> DEFINE q == conn[c]
<1>1. /\ c \in Connections /\ q \in Bounded /\ conn \in [ Connections -> Bounded ] /\ link \in Link
      /\ budget \in 0 .. MaxEvents
  BY NetworkTyped DEF Welcomed, Woken, Reconfigured, Beat
<1>2. policies \in Profiles
  BY DEF IInv, TypeOK
<1>3. q.up \in Seq(Profiles \cup { "close" }) /\ q.down \in Words
  BY <1>1 DEF Bounded, Connection, Words
<1>4. CASE Welcomed
  <2> DEFINE r == [ q EXCEPT !.down = Tail(@), !.up = Append(@, policies) ]
  <2>1. Tail(q.down) \in Words /\ Append(q.up, policies) \in Seq(Profiles \cup { "close" })
    BY <1>2, <1>3, <1>4 DEF Welcomed, Words
  <2>2. r \in Bounded /\ r.stage = q.stage /\ r.id = q.id
    BY <1>1, <2>1 DEF Bounded, Connection, Words
  <2>3. conn' = [ conn EXCEPT ![c] = r ]
    BY <1>1, <1>4 DEF Welcomed
  <2> DEFINE to == [ link EXCEPT !.pc = "serving", !.described = policies ]
  <2>4. to \in Link /\ to.connection = c
    BY <1>1, <1>2 DEF Link
  <2>5. link' = to /\ UNCHANGED <<invite, host, registry, seen, setting, key, cli, policies, budget>>
    BY <1>4 DEF Welcomed
  <2> HIDE DEF r, to, q, c
  <2> QED BY <1>1, <2>2, <2>3, <2>4, <2>5, ConnectionStep DEF q
<1>5. CASE Woken
  <2> DEFINE r == [ q EXCEPT !.down = Tail(@) ]
  <2>1. Tail(q.down) \in Words
    BY <1>3, <1>5 DEF Woken, Words
  <2>2. r \in Bounded /\ r.stage = q.stage /\ r.id = q.id
    BY <1>1, <2>1 DEF Bounded, Connection, Words
  <2>3. conn' = [ conn EXCEPT ![c] = r ]
    BY <1>1, <1>5 DEF Woken
  <2>4. UNCHANGED <<invite, host, registry, seen, setting, key, cli, link, policies, budget>>
    BY <1>5 DEF Woken
  <2> HIDE DEF r, q
  <2> QED BY <1>1, <2>2, <2>3, <2>4, ConnectionStep DEF q
<1>6. CASE Reconfigured
  <2> DEFINE up == Append(q.up, "close")
  <2>1. up \in Seq(Profiles \cup { "close" })
    BY <1>3
  <2>2. conn' = [ conn EXCEPT ![c] = HangUp([ q EXCEPT !.up = up ]) ]
    BY <1>1, <1>6 DEF Reconfigured, SaysGoodbye
  <2>3. link' = IdleLink /\ UNCHANGED <<invite, host, registry, seen, setting, key, cli, policies, budget>>
    BY <1>6 DEF Reconfigured
  <2> HIDE DEF up
  <2> QED BY <1>1, <2>1, <2>2, <2>3, IdleTyped, HangUpStep
<1>7. CASE Beat
  <2> DEFINE words == DescribeAgain(link.described)
  <2> DEFINE r == [ q EXCEPT !.up = @ \o words ]
  <2>1. q.up \o words \in Seq(Profiles \cup { "close" })
    BY <1>2, <1>3 DEF DescribeAgain
  <2>2. r \in Bounded /\ r.stage = q.stage /\ r.id = q.id
    BY <1>1, <2>1 DEF Bounded, Connection
  <2>3. conn' = [ conn EXCEPT ![c] = r ]
    BY <1>1, <1>7 DEF Beat, Says
  <2> DEFINE to == [ link EXCEPT !.described = policies ]
  <2>4. to \in Link /\ to.connection = c
    BY <1>1, <1>2 DEF Link
  <2>5. link' = to /\ UNCHANGED <<invite, host, registry, seen, setting, key, cli, policies, budget>>
    BY <1>7 DEF Beat
  <2> HIDE DEF r, to, q, c
  <2> QED BY <1>1, <2>2, <2>3, <2>4, <2>5, ConnectionStep DEF q
<1> QED BY <1>4, <1>5, <1>6, <1>7

-----------------------------------------------------------------------------
(* The server. *)

\* The link is not the server's to change.
LEMMA ServeStep ==
    ASSUME IInv, NEW c \in Connections, NEW r \in Bounded, conn' = [ conn EXCEPT ![c] = r ],
           conn[c].stage \in Served => r.stage \in Served /\ r.id = conn[c].id,
           UNCHANGED <<invite, host, registry, seen, setting, key, cli, link, policies, budget>>
    PROVE  IInv'
<1>1. link' \in Link /\ budget' \in 0 .. MaxEvents
      /\ (link'.pc \in { "authenticating", "serving" } => link'.connection \in Connections)
  BY NetworkTyped
<1> QED BY <1>1, ConnectionStep

LEMMA VerifyStep ==
    ASSUME IInv, NEW c \in Connections, Verify(c)
    PROVE  IInv'
<1> DEFINE q == conn[c]
<1>1. q \in Bounded /\ q.stage = "challenged" /\ conn \in [ Connections -> Bounded ]
  BY NetworkTyped DEF Verify
<1>2. <<"welcome">> \in Words /\ <<"close">> \in Words
  BY DEF Words
<1> DEFINE w == Tells(q, <<"welcome">>)
<1> DEFINE r == [ w EXCEPT !.stage = "verified" ]
<1>3. w \in Bounded /\ Ended(Tells(q, <<"close">>)) \in Bounded
  BY <1>1, <1>2, TellsTyped, EndedTyped
<1>4. Verified(q) => r \in Bounded
  <2>1. w.signed = q.signed /\ w.id = q.id
    BY <1>1, <1>2, TellsTyped
  <2> HIDE DEF w
  <2> QED BY <1>3, <2>1 DEF Verified, Bounded, Connection, Stages, Admitted
<1>5. conn' = [ conn EXCEPT ![c] = IF Verified(q) THEN r ELSE Ended(Tells(q, <<"close">>)) ]
  BY <1>1 DEF Verify
<1>6. UNCHANGED <<invite, host, registry, seen, setting, key, cli, link, policies, budget>>
  BY DEF Verify, store, server, disk
<1> HIDE DEF r
<1> QED BY <1>1, <1>3, <1>4, <1>5, <1>6, ServeStep DEF Served

LEMMA AbandonStep ==
    ASSUME IInv, NEW c \in Connections, Abandon(c)
    PROVE  IInv'
BY FreeTyped, ServeStep DEF Abandon, Served, store, server, disk

LEMMA CheckStep ==
    ASSUME IInv, NEW c \in Connections, Check(c)
    PROVE  IInv'
<1> DEFINE q == conn[c]
<1> DEFINE w == Tells(q, <<"close">>)
<1> DEFINE r == [ w EXCEPT !.stage = "closing" ]
<1>1. /\ q \in Bounded /\ conn \in [ Connections -> Bounded ] /\ <<"close">> \in Words
      /\ q.stage = "serving"
  BY NetworkTyped DEF Words, Check
<1>2. w \in Bounded /\ w.id = q.id /\ w.stage = "serving"
  BY <1>1, TellsTyped
<1>3. r \in Bounded /\ r.stage = "closing" /\ r.id = q.id
  <2> HIDE DEF w, q
  <2> QED BY <1>2 DEF Bounded, Connection, Stages, Admitted
<1>4. conn' = [ conn EXCEPT ![c] = r ]
  BY <1>1 DEF Check
<1>5. UNCHANGED <<invite, host, registry, seen, setting, key, cli, link, policies, budget>>
  BY DEF Check, store, server, disk
<1> HIDE DEF r
<1> QED BY <1>3, <1>4, <1>5, ServeStep DEF Served

LEMMA ForwardStep ==
    ASSUME IInv, NEW c \in Connections, Forward(c)
    PROVE  IInv'
<1> DEFINE q == conn[c]
<1>1. /\ q \in Bounded /\ conn \in [ Connections -> Bounded ] /\ q.stage = "serving"
      /\ UNCHANGED <<invite, host, registry, seen, setting, key, cli, link, policies, budget>>
  BY NetworkTyped DEF Forward, store, server, disk
<1>2. CASE conn' = [ conn EXCEPT ![c].stage = "closing" ]
  <2> DEFINE r == [ q EXCEPT !.stage = "closing" ]
  <2>1. r \in Bounded /\ r.stage = "closing" /\ r.id = q.id
    BY <1>1 DEF Bounded, Connection, Stages, Admitted
  <2>2. conn' = [ conn EXCEPT ![c] = r ]
    BY <1>1, <1>2
  <2> HIDE DEF r
  <2> QED BY <1>1, <2>1, <2>2, ServeStep DEF Served
<1>3. ASSUME q.queue # <<>>, NEW sent \in BOOLEAN, conn' = [ conn EXCEPT ![c] = Forwarded(@, sent) ]
      PROVE  IInv'
  <2>1. q.queue \in Seq({ "wake", "close" }) /\ Len(q.queue) <= OUTBOUND_QUEUE
    BY <1>1 DEF Bounded, Connection
  <2>2. <<Head(q.queue)>> \in Words
    BY <1>3, <2>1 DEF Words
  <2> DEFINE w == Tells(q, <<Head(q.queue)>>)
  <2>3. w \in Bounded /\ w.id = q.id /\ w.stage = "serving" /\ w.queue = q.queue
    BY <1>1, <2>2, TellsTyped
  <2> DEFINE to == IF sent /\ Head(q.queue) = "wake" THEN w.stage ELSE "closing"
  <2>4. Tail(w.queue) \in Seq({ "wake", "close" }) /\ Len(Tail(w.queue)) <= OUTBOUND_QUEUE
    BY <1>3, <2>1, <2>3, CoordinatorAssumption
  <2>5. to \in Served
    BY <2>3 DEF Served
  <2>6. Forwarded(q, sent) = [ w EXCEPT !.queue = Tail(w.queue), !.stage = to ]
    BY DEF Forwarded
  <2> HIDE DEF w, to
  <2>7. Forwarded(q, sent) \in Bounded /\ Forwarded(q, sent).stage = to /\ Forwarded(q, sent).id = q.id
    BY <2>3, <2>4, <2>5, <2>6 DEF Bounded, Connection, Stages, Admitted, Served
  <2>8. conn' = [ conn EXCEPT ![c] = Forwarded(q, sent) ]
    BY <1>1, <1>3
  <2> QED BY <1>1, <2>5, <2>7, <2>8, ServeStep
<1>4. q.open \in BOOLEAN
  BY <1>1 DEF Bounded, Connection
<1> QED BY <1>2, <1>3, <1>4 DEF Forward

\* The server's steps that change the registry too.
LEMMA RegistryStep ==
    ASSUME IInv, conn' \in [ Connections -> Bounded ], registry' \in [ Ids -> Registration ],
           RegistryIsServed',
           UNCHANGED <<invite, host, seen, setting, key, cli, link, policies, budget>>
    PROVE  IInv'
<1>1. /\ link' \in Link /\ budget' \in 0 .. MaxEvents /\ seen' \in Seq(Deliveries)
      /\ Len(seen') <= DELIVERY_MEMORY
      /\ (link'.pc \in { "authenticating", "serving" } => link'.connection \in Connections)
  BY NetworkTyped
<1> QED BY <1>1, NetworkStep

\* A host that is in the registry, by the connection that registers now.
LEMMA RegisterStep ==
    ASSUME IInv, NEW c \in Connections, Register(c)
    PROVE  IInv'
<1> DEFINE id == conn[c].id
<1> DEFINE previous == registry[id].connection
<1>1. /\ TypeOK /\ RegistryIsServed /\ conn \in [ Connections -> Bounded ] /\ conn[c].stage = "verified"
      /\ registry \in [ Ids -> Registration ]
      /\ UNCHANGED <<invite, host, seen, setting, key, cli, link, policies, budget>>
  BY NetworkTyped DEF Register, store, disk
<1> DEFINE served == [ conn[c] EXCEPT !.stage = "serving" ]
<1> DEFINE told(d) == [ conn[d] EXCEPT !.queue = Enqueued(@, "close") ]
<1> DEFINE entry == [ NotConnected EXCEPT !.connection = c ]
<1>2. served \in Bounded /\ served.stage = "serving" /\ served.id = id
  BY <1>1 DEF Bounded, Connection, Stages, Admitted
<1>3. \A d \in Connections : told(d) \in Bounded /\ told(d).stage = conn[d].stage /\ told(d).id = conn[d].id
  <2> SUFFICES ASSUME NEW d \in Connections
               PROVE  told(d) \in Bounded /\ told(d).stage = conn[d].stage /\ told(d).id = conn[d].id
    OBVIOUS
  <2>1. conn[d] \in Bounded
    BY <1>1
  <2>2. Enqueued(conn[d].queue, "close") \in Seq({ "wake", "close" })
        /\ Len(Enqueued(conn[d].queue, "close")) <= OUTBOUND_QUEUE
    <3>1. conn[d].queue \in Seq({ "wake", "close" }) /\ Len(conn[d].queue) <= OUTBOUND_QUEUE
      BY <2>1 DEF Bounded, Connection
    <3> QED BY <3>1, EnqueuedTyped
  <2> QED BY <2>1, <2>2 DEF Bounded, Connection
<1>4. entry \in Registration /\ entry.connection = c /\ entry.hello = NotDescribed
  BY DEF NotConnected, Registration
<1>5. /\ registry' = [ registry EXCEPT ![id] = entry ]
      /\ conn' = [ d \in Connections |-> CASE d = c -> served [] d = previous -> told(d) [] OTHER -> conn[d] ]
  BY DEF Register
<1>9. previous # c
  <2>1. id \in Ids
    BY <1>1 DEF Bounded, Connection, Admitted
  <2> QED BY <1>1, <2>1, CoordinatorAssumption DEF RegistryIsServed
<1> HIDE DEF served, told, entry, previous
<1>6. /\ conn' \in [ Connections -> Bounded ] /\ conn'[c] = served
      /\ \A d \in Connections : d # c => conn'[d].stage = conn[d].stage /\ conn'[d].id = conn[d].id
  <2>1. \A d \in Connections : d # c => conn'[d] \in { told(d), conn[d] }
    BY <1>5
  <2>2. conn'[c] = served
    BY <1>5, <1>9
  <2>3. \A d \in Connections : conn'[d] \in Bounded
    BY <1>1, <1>2, <1>3, <2>1, <2>2
  <2>4. conn' = [ d \in Connections |-> conn'[d] ]
    BY <1>5
  <2>5. conn' \in [ Connections -> Bounded ]
    BY <2>3, <2>4
  <2> QED BY <1>3, <2>1, <2>2, <2>5
<1>7. registry' \in [ Ids -> Registration ]
  BY <1>1, <1>4, <1>5
<1>8. RegistryIsServed'
  <2> SUFFICES ASSUME NEW i \in Ids
               PROVE  /\ registry'[i].connection # NoConnection =>
                            /\ conn'[registry'[i].connection].stage \in { "serving", "closing" }
                            /\ conn'[registry'[i].connection].id = i
                      /\ registry'[i].hello # NotDescribed => registry'[i].by = registry'[i].connection
    BY DEF RegistryIsServed
  <2>1. CASE i = id
    <3>1. registry'[i] = entry
      BY <1>1, <1>5, <2>1
    <3> QED BY <1>2, <1>4, <1>6, <2>1, <3>1
  <2>2. CASE i # id
    <3>1. registry'[i] = registry[i] /\ registry[i].connection \in Connections \cup { NoConnection }
      BY <1>1, <1>5, <2>2 DEF Registration
    <3>2. /\ registry[i].connection # NoConnection =>
                conn[registry[i].connection].stage \in { "serving", "closing" } /\ conn[registry[i].connection].id = i
          /\ registry[i].hello # NotDescribed => registry[i].by = registry[i].connection
      BY <1>1 DEF RegistryIsServed
    <3> QED BY <1>1, <1>6, <3>1, <3>2
  <2> QED BY <2>1, <2>2
<1> QED BY <1>1, <1>6, <1>7, <1>8, RegistryStep

LEMMA SetHelloServed ==
    ASSUME TypeOK, RegistryIsServed, NEW c \in Connections, NEW hello \in Profiles, SetHello(c, hello),
           \A d \in Connections : conn'[d].stage = conn[d].stage /\ conn'[d].id = conn[d].id
    PROVE  registry' \in [ Ids -> Registration ] /\ RegistryIsServed'
<1> DEFINE id == conn[c].id
<1> DEFINE entry == [ registry[id] EXCEPT !.hello = hello, !.by = c ]
<1>1. registry \in [ Ids -> Registration ]
  BY DEF TypeOK, Registration
<1>2. registry' = [ registry EXCEPT ![id] = IF Current(c) THEN entry ELSE registry[id] ]
  BY <1>1 DEF SetHello
<1>3. id \in Ids => entry \in Registration /\ entry.connection = registry[id].connection /\ entry.by = c
  BY <1>1 DEF Registration
<1> HIDE DEF entry
<1>4. registry' \in [ Ids -> Registration ]
  BY <1>1, <1>2, <1>3
<1>6. RegistryIsServed'
  <2> SUFFICES ASSUME NEW i \in Ids
               PROVE  /\ registry'[i].connection # NoConnection =>
                            /\ conn'[registry'[i].connection].stage \in { "serving", "closing" }
                            /\ conn'[registry'[i].connection].id = i
                      /\ registry'[i].hello # NotDescribed => registry'[i].by = registry'[i].connection
    BY DEF RegistryIsServed
  <2>1. registry[i].connection \in Connections \cup { NoConnection }
    BY <1>1 DEF Registration
  <2>2. /\ registry[i].connection # NoConnection =>
              conn[registry[i].connection].stage \in { "serving", "closing" } /\ conn[registry[i].connection].id = i
        /\ registry[i].hello # NotDescribed => registry[i].by = registry[i].connection
    BY DEF RegistryIsServed
  <2>3. CASE i = id /\ Current(c)
    <3>1. registry'[i] = entry /\ entry.by = c /\ entry.connection = c
      BY <1>1, <1>2, <1>3, <2>3 DEF Current
    <3>2. registry[i].connection = c
      BY <2>3 DEF Current
    <3> QED BY <2>2, <3>1, <3>2
  <2>4. CASE ~(i = id /\ Current(c))
    <3>1. registry'[i] = registry[i]
      BY <1>1, <1>2, <2>4
    <3> QED BY <2>1, <2>2, <3>1
  <2> QED BY <2>3, <2>4
<1> QED BY <1>4, <1>6

LEMMA ServerReadsStep ==
    ASSUME IInv, NEW c \in Connections, ServerReads(c)
    PROVE  IInv'
<1> DEFINE q == conn[c]
<1>1. /\ TypeOK /\ RegistryIsServed /\ conn \in [ Connections -> Bounded ] /\ q \in Bounded
      /\ q.stage = "serving" /\ q.up # <<>>
      /\ UNCHANGED <<invite, host, seen, setting, key, cli, link, policies, budget>>
  BY NetworkTyped DEF ServerReads, store, disk
<1>2. q.up \in Seq(Profiles \cup { "close" })
  BY <1>1 DEF Bounded, Connection
<1>3. CASE Head(q.up) = "close"
  <2> DEFINE r == [ q EXCEPT !.stage = "closing" ]
  <2>1. r \in Bounded /\ r.stage = "closing" /\ r.id = q.id
    BY <1>1 DEF Bounded, Connection, Stages, Admitted
  <2>2. conn' = [ conn EXCEPT ![c] = r ] /\ UNCHANGED registry
    BY <1>1, <1>3 DEF ServerReads
  <2> HIDE DEF r
  <2> QED BY <1>1, <2>1, <2>2, ServeStep DEF Served
<1>4. CASE Head(q.up) # "close"
  <2> DEFINE r == [ q EXCEPT !.up = Tail(@) ]
  <2>1. Tail(q.up) \in Seq(Profiles \cup { "close" }) /\ Head(q.up) \in Profiles
    BY <1>1, <1>2, <1>4
  <2>2. r \in Bounded /\ r.stage = q.stage /\ r.id = q.id
    BY <1>1, <2>1 DEF Bounded, Connection
  <2>3. conn' = [ conn EXCEPT ![c] = r ] /\ SetHello(c, Head(q.up))
    BY <1>1, <1>4 DEF ServerReads
  <2> HIDE DEF r
  <2>4. conn' \in [ Connections -> Bounded ]
        /\ \A d \in Connections : conn'[d].stage = conn[d].stage /\ conn'[d].id = conn[d].id
    BY <1>1, <2>2, <2>3
  <2>5. registry' \in [ Ids -> Registration ] /\ RegistryIsServed'
    BY <1>1, <2>1, <2>3, <2>4, SetHelloServed
  <2> QED BY <1>1, <2>4, <2>5, RegistryStep
<1> QED BY <1>3, <1>4

\* A connection ends; if the registry still names it, it no longer does.
LEMMA UnregisterStep ==
    ASSUME IInv, NEW c \in Connections, Unregister(c)
    PROVE  IInv'
<1> DEFINE id == conn[c].id
<1>1. /\ TypeOK /\ RegistryIsServed /\ conn \in [ Connections -> Bounded ]
      /\ registry \in [ Ids -> Registration ] /\ NotConnected \in Registration
      /\ UNCHANGED <<invite, host, seen, setting, key, cli, link, policies, budget>>
      /\ NotConnected.connection = NoConnection /\ NotConnected.hello = NotDescribed
  BY NetworkTyped, IdleTyped DEF Unregister, store, disk
<1>2. conn' = [ conn EXCEPT ![c] = Ended(conn[c]) ]
  BY <1>1 DEF Unregister
<1>3. conn' \in [ Connections -> Bounded ] /\ \A d \in Connections : d # c => conn'[d] = conn[d]
  BY <1>1, <1>2, EndedTyped
<1>4. registry' = IF Current(c) THEN [ registry EXCEPT ![id] = NotConnected ] ELSE registry
  BY DEF Unregister, UnregisterToken
<1>5. registry' \in [ Ids -> Registration ]
  BY <1>1, <1>4
<1>6. \A i \in Ids : registry'[i] \in { registry[i], NotConnected } /\ registry'[i].connection # c
  <2> SUFFICES ASSUME NEW i \in Ids
               PROVE  registry'[i] \in { registry[i], NotConnected } /\ registry'[i].connection # c
    OBVIOUS
  <2>1. registry[i].connection = c => i = id
    BY <1>1, CoordinatorAssumption DEF RegistryIsServed
  <2> QED BY <1>1, <1>4, <2>1, CoordinatorAssumption DEF Current
<1>7. RegistryIsServed'
  <2> SUFFICES ASSUME NEW i \in Ids, registry'[i] = registry[i]
               PROVE  /\ registry'[i].connection # NoConnection =>
                            /\ conn'[registry'[i].connection].stage \in { "serving", "closing" }
                            /\ conn'[registry'[i].connection].id = i
                      /\ registry'[i].hello # NotDescribed => registry'[i].by = registry'[i].connection
    BY <1>1, <1>6 DEF RegistryIsServed
  <2>1. registry[i].connection \in Connections \cup { NoConnection } /\ registry[i].connection # c
    BY <1>1, <1>6 DEF Registration
  <2>2. /\ registry[i].connection # NoConnection =>
              conn[registry[i].connection].stage \in { "serving", "closing" } /\ conn[registry[i].connection].id = i
        /\ registry[i].hello # NotDescribed => registry[i].by = registry[i].connection
    BY <1>1 DEF RegistryIsServed
  <2> QED BY <1>3, <2>1, <2>2
<1> QED BY <1>1, <1>3, <1>5, <1>7, RegistryStep

LEMMA WebhookStep ==
    ASSUME IInv, NEW d \in Deliveries, Webhook(d)
    PROVE  IInv'
<1>1. /\ TypeOK /\ RegistryIsServed /\ conn \in [ Connections -> Bounded ] /\ Spend
      /\ seen \in Seq(Deliveries) /\ Len(seen) <= DELIVERY_MEMORY
      /\ UNCHANGED <<invite, host, registry, setting, key, cli, link, policies>>
  BY NetworkTyped DEF Webhook, store, disk
<1>2. seen' \in Seq(Deliveries) /\ Len(seen') <= DELIVERY_MEMORY
  <2>1. CASE Len(seen) = DELIVERY_MEMORY
    <3>1. Tail(seen) \in Seq(Deliveries) /\ Len(Tail(seen)) = Len(seen) - 1
      BY <1>1, <2>1, CoordinatorAssumption
    <3> QED BY <1>1, <2>1, <3>1, CoordinatorAssumption DEF Webhook
  <2>2. CASE Len(seen) # DELIVERY_MEMORY
    BY <1>1, <2>2, CoordinatorAssumption DEF Webhook
  <2> QED BY <2>1, <2>2
<1> DEFINE woken(c) == [ conn[c] EXCEPT !.queue = Enqueued(@, "wake") ]
<1>3. \A c \in Connections : woken(c) \in Bounded /\ woken(c).stage = conn[c].stage /\ woken(c).id = conn[c].id
  <2> SUFFICES ASSUME NEW c \in Connections
               PROVE  woken(c) \in Bounded /\ woken(c).stage = conn[c].stage /\ woken(c).id = conn[c].id
    OBVIOUS
  <2>1. conn[c] \in Bounded
    BY <1>1
  <2>2. conn[c].queue \in Seq({ "wake", "close" }) /\ Len(conn[c].queue) <= OUTBOUND_QUEUE
    BY <2>1 DEF Bounded, Connection
  <2>3. Enqueued(conn[c].queue, "wake") \in Seq({ "wake", "close" })
        /\ Len(Enqueued(conn[c].queue, "wake")) <= OUTBOUND_QUEUE
    BY <2>2, EnqueuedTyped
  <2> QED BY <2>1, <2>3 DEF Bounded, Connection
<1>4. conn' = [ c \in Connections |->
          IF conn[c].stage \in { "serving", "closing" } /\ Current(c) /\ registry[conn[c].id].hello = "serves"
          THEN woken(c) ELSE conn[c] ]
  BY DEF Webhook
<1> HIDE DEF woken
<1>5. \A c \in Connections : conn'[c] \in Bounded /\ conn'[c].stage = conn[c].stage /\ conn'[c].id = conn[c].id
  BY <1>1, <1>3, <1>4
<1>6. conn' \in [ Connections -> Bounded ]
  BY <1>4, <1>5
<1>7. RegistryIsServed'
  BY <1>1, <1>5, StillServed
<1>8. budget' \in 0 .. MaxEvents
  BY <1>1, SpendTyped
<1> QED BY <1>1, <1>2, <1>6, <1>7, <1>8, NetworkTyped, NetworkStep

\* What a restart makes of the sockets.
LEMMA BrokenTyped ==
    ASSUME NEW r \in Bounded
    PROVE  /\ [ r EXCEPT !.stage = "ended", !.up = <<>>, !.down = <<>>, !.queue = <<>> ] \in Bounded
           /\ [ r EXCEPT !.stage = "ended", !.up = <<>>, !.down = <<>>, !.queue = <<>> ].stage = "ended"
<1>1. /\ <<>> \in Seq(Profiles \cup { "close" }) /\ <<>> \in Seq({ "wake", "close" })
      /\ <<>> \in Seq({ "welcome", "wake", "close" }) /\ Len(<<>>) <= OUTBOUND_QUEUE
  BY CoordinatorAssumption
<1> QED BY <1>1 DEF Bounded, Connection, Stages, Admitted

LEMMA ServerRestartsStep ==
    ASSUME IInv, ServerRestarts
    PROVE  IInv'
<1>1. /\ TypeOK /\ conn \in [ Connections -> Bounded ] /\ Spend
      /\ UNCHANGED <<invite, host, setting, key, cli, link, policies>>
      /\ registry' = [ i \in Ids |-> NotConnected ] /\ seen' = <<>>
  BY NetworkTyped DEF ServerRestarts, store, disk
<1> DEFINE broken(c) == [ conn[c] EXCEPT !.stage = "ended", !.up = <<>>, !.down = <<>>, !.queue = <<>> ]
<1>2. \A c \in Connections : broken(c) \in Bounded
  BY <1>1, BrokenTyped
<1>3. conn' = [ c \in Connections |-> IF conn[c].open THEN broken(c) ELSE Free ]
  BY DEF ServerRestarts
<1> HIDE DEF broken
<1>4. conn' \in [ Connections -> Bounded ]
  BY <1>2, <1>3, FreeTyped
<1>5. registry' \in [ Ids -> Registration ] /\ RegistryIsServed'
  BY <1>1, IdleTyped DEF RegistryIsServed
<1>6. seen' \in Seq(Deliveries) /\ Len(seen') <= DELIVERY_MEMORY
  BY <1>1, CoordinatorAssumption
<1>7. budget' \in 0 .. MaxEvents
  BY <1>1, SpendTyped
<1> QED BY <1>1, <1>4, <1>5, <1>6, <1>7, NetworkTyped, NetworkStep

-----------------------------------------------------------------------------
(* The inductive invariant. *)

LEMMA InitHolds == Init => IInv
<1> SUFFICES ASSUME Init
             PROVE  IInv
  OBVIOUS
<1> DEFINE r == [ state |-> "none", name |-> "", code |-> "" ]
<1>1. r \in HostRecord /\ r.state = "none"
  BY DEF HostRecord
<1>2. host = [ i \in Ids |-> r ]
  BY DEF Init
<1> HIDE DEF r
<1>3. host \in [ Ids -> HostRecord ] /\ \A i \in Ids : host[i].state = "none"
  BY <1>1, <1>2
<1>4. conn \in [ Connections -> Bounded ] /\ registry \in [ Ids -> Registration ]
  BY FreeTyped, IdleTyped DEF Init
<1>5. cli \in Command /\ link \in Link /\ cli.pc = "idle" /\ link.pc = "idle"
  BY IdleTyped DEF Init
<1>6. seen \in Seq(Deliveries) /\ Len(seen) <= DELIVERY_MEMORY /\ budget \in 0 .. MaxEvents
  <2>1. seen = <<>> /\ budget = MaxEvents
    BY DEF Init
  <2> QED BY <2>1, CoordinatorAssumption
<1>7. TypeOK
  BY <1>3, <1>4, <1>5, <1>6 DEF Init, TypeOK, Bounded, Registration, Command, Link, Profiles
<1>10. Genuine
  BY <1>4 DEF Genuine, Bounded
<1>8. CommandHasCode /\ LinkHasConnection /\ CodesAreSpent /\ EnrolledOnce
  BY <1>3, <1>5 DEF CommandHasCode, LinkHasConnection, CodesAreSpent, EnrolledOnce, Active
<1>9. RegistryIsServed
  BY IdleTyped DEF Init, RegistryIsServed
<1> QED BY <1>7, <1>8, <1>9, <1>10 DEF IInv

LEMMA ServeKept == ASSUME IInv, NEW c \in Connections, Serve(c) PROVE IInv'
BY VerifyStep, AbandonStep, RegisterStep, ServerReadsStep, ForwardStep, CheckStep, UnregisterStep DEF Serve

LEMMA NextKept == IInv /\ [Next]_vars => IInv'
<1> SUFFICES ASSUME IInv, [Next]_vars
             PROVE  IInv'
  OBVIOUS
<1>1. CASE UNCHANGED vars
  BY <1>1, LinkMoves, NetworkTyped DEF vars
<1>2. CASE Next
  BY <1>2, CommandsKept, LinkTriesKept, ConnectStep, LinkServesKept, LinkEndsKept, ServerRestartsStep,
     ServeKept, WebhookStep DEF Next, LinkConnects, LinkReads, LinkTicks
<1> QED BY <1>1, <1>2

LEMMA Inductive == Spec => []IInv
BY InitHolds, NextKept, PTL DEF Spec

-----------------------------------------------------------------------------

\* The store, the registry, every connection, the link and the commands keep
\* their types; a connection's queue and the memory of deliveries keep their
\* limits (Outbound, DeliveryLog).
THEOREM TypeCorrect == Spec => []TypeOK
<1>1. IInv => TypeOK
  BY DEF IInv
<1> QED BY <1>1, Inductive, PTL

\* However the codes were issued, tried and answered, no name has two active
\* hosts and no code enrols twice (enroll).
THEOREM HostsEnrolledOnce == Spec => []EnrolledOnce
<1>1. IInv => EnrolledOnce
  BY DEF IInv
<1> QED BY <1>1, Inductive, PTL

\* What the registry names is served, and says what that connection said
\* (connection, set_hello).
THEOREM RegistryServed == Spec => []RegistryIsServed
<1>1. IInv => RegistryIsServed
  BY DEF IInv
<1> QED BY <1>1, Inductive, PTL

\* What the registry says of a host, and the wakes it is sent, belong to a
\* connection opened with that host's own key, also after its slot was lost,
\* replaced or used by another (Verified, register).
RegistryIsGenuine ==
    \A i \in Ids : registry[i].connection # NoConnection => conn[registry[i].connection].signed = i

\* Nobody is registered as a host without having signed with its key.
THEOREM RegistryGenuine == Spec => []RegistryIsGenuine
<1>1. IInv => RegistryIsGenuine
  <2> SUFFICES ASSUME IInv, NEW i \in Ids, registry[i].connection # NoConnection
               PROVE  conn[registry[i].connection].signed = i
    BY DEF RegistryIsGenuine
  <2>1. registry[i].connection \in Connections
    BY NetworkTyped DEF Registration
  <2>2. conn[registry[i].connection].stage \in Admitted /\ conn[registry[i].connection].id = i
    BY DEF IInv, RegistryIsServed, Admitted
  <2> QED BY <2>1, <2>2 DEF IInv, Genuine
<1> QED BY <1>1, Inductive, PTL

-----------------------------------------------------------------------------
(* What takes a connection out of the registry. *)

LEMMA ConnectionLeaves ==
    ASSUME IInv, [Next]_vars, NEW i \in Ids,
           registry[i].connection # NoConnection, registry'[i].connection = NoConnection
    PROVE  conn'[registry[i].connection].stage \notin Served
<1>1. /\ TypeOK /\ RegistryIsServed /\ conn \in [ Connections -> Bounded ]
      /\ registry \in [ Ids -> Registration ] /\ registry[i].connection \in Connections
  BY NetworkTyped DEF Registration
<1>2. registry' # registry
  OBVIOUS
<1>3. ASSUME NEW c \in Connections, Register(c)
      PROVE  FALSE
  <2> DEFINE entry == [ NotConnected EXCEPT !.connection = c ]
  <2>1. entry.connection = c
    BY DEF NotConnected
  <2>2. registry' = [ registry EXCEPT ![conn[c].id] = entry ]
    BY <1>3 DEF Register
  <2> HIDE DEF entry
  <2> QED BY <1>1, <2>1, <2>2, CoordinatorAssumption
<1>4. ASSUME NEW c \in Connections, ServerReads(c)
      PROVE  FALSE
  <2>1. SetHello(c, Head(conn[c].up))
    BY <1>2, <1>4 DEF ServerReads
  <2> DEFINE id == conn[c].id
  <2> DEFINE entry == [ registry[id] EXCEPT !.hello = Head(conn[c].up), !.by = c ]
  <2>2. registry' = [ registry EXCEPT ![id] = IF Current(c) THEN entry ELSE registry[id] ]
    BY <1>1, <2>1 DEF SetHello
  <2>3. id \in Ids => entry.connection = registry[id].connection
    BY <1>1 DEF Registration
  <2> HIDE DEF entry
  <2> QED BY <1>1, <2>2, <2>3
<1>5. ASSUME NEW c \in Connections, Unregister(c)
      PROVE  conn'[registry[i].connection].stage \notin Served
  <2>1. /\ registry' = IF Current(c) THEN [ registry EXCEPT ![conn[c].id] = NotConnected ] ELSE registry
        /\ conn' = [ conn EXCEPT ![c] = Ended(conn[c]) ]
    BY <1>1, <1>5 DEF Unregister, UnregisterToken
  <2>2. registry[i].connection = c
    BY <1>1, <2>1 DEF Current
  <2>3. conn'[c].stage \in { "ended", "free" }
    BY <1>1, <2>1, EndedTyped
  <2> QED BY <2>2, <2>3 DEF Served
<1>6. CASE ServerRestarts
  <2> DEFINE broken(c) == [ conn[c] EXCEPT !.stage = "ended", !.up = <<>>, !.down = <<>>, !.queue = <<>> ]
  <2>1. \A c \in Connections : broken(c).stage = "ended"
    BY <1>1, BrokenTyped
  <2>2. conn' = [ c \in Connections |-> IF conn[c].open THEN broken(c) ELSE Free ]
    BY <1>6 DEF ServerRestarts
  <2> HIDE DEF broken
  <2> QED BY <1>1, <2>1, <2>2, FreeTyped DEF Served
<1>7. CASE Next
  <2>1. Operator => UNCHANGED registry
    BY DEF Operator, CreateInvite, Join, Revoke, Enroll, EnrollRefused, StoreKey, SaveSetting, DeleteKey,
           Forget, CommandEnds, ChangePolicies, server
  <2>2. LinkTries \/ LinkConnects \/ LinkReads \/ LinkTicks \/ LinkLost \/ DaemonRestarts => UNCHANGED registry
    BY DEF LinkTries, LinkConnects, LinkReads, LinkTicks, ReadSetting, ConnectFails, BackoffEnds, Connect,
           Welcomed, Woken, LinkCloses, Reconfigured, Beat, LinkLost, DaemonRestarts, server
  <2>3. \A c \in Connections : Verify(c) \/ Abandon(c) \/ Forward(c) \/ Check(c) => UNCHANGED registry
    BY DEF Verify, Abandon, Forward, Check, server
  <2>4. \A d \in Deliveries : Webhook(d) => UNCHANGED registry
    BY DEF Webhook
  <2> QED BY <1>2, <1>3, <1>4, <1>5, <1>6, <1>7, <2>1, <2>2, <2>3, <2>4 DEF Next, Serve
<1> QED BY <1>2, <1>7 DEF vars

\* A connection leaves the registry by ending or by being replaced: the late end
\* of an older one does not take the newer one with it (unregister).
THEOREM RegistryKept == Spec => RegistryUndisturbed
<1>1. IInv /\ [Next]_vars =>
        [ \A i \in Ids :
            registry[i].connection # NoConnection /\ registry'[i].connection = NoConnection =>
              conn'[registry[i].connection].stage \notin { "serving", "closing" } ]_registry
  BY ConnectionLeaves DEF Served
<1> QED BY <1>1, Inductive, PTL DEF Spec, RegistryUndisturbed
==============================================================================
