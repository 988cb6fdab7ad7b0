----------------------------- MODULE SlotsProofs -----------------------------
(***************************************************************************)
(* Proofs about Slots, for any profiles, repositories, roots, ceiling,     *)
(* attempts and bounds.                                                    *)
(*                                                                         *)
(* A slot is held by an attempt that is not cleaned, and by one that some  *)
(* pass still has in its copy: the pass may clean it once more.  That no   *)
(* two attempts of a profile hold one slot (HeldOnce) is what keeps a late *)
(* cleanup away from the runner that leased the slot since.                *)
(***************************************************************************)
EXTENDS Slots, TLAPS

Journalled ==
    \A a \in Attempts :
        /\ attempt[a].state # "none" => attempt[a].policy \in Policies
        /\ Persistent(a) => attempt[a].state # "none" /\ attempt[a].slot \in 1 .. Ceiling

LaunchIsAllocated ==
    launching # NoAttempt => attempt[launching].state = "allocated"

CopiesOfThePass ==
    \A t \in Repositories : loop[t].pc # "supervising" => loop[t].copy = {}

Holds(a) == Uncleaned(a) \/ Visiting(a)

HeldOnce ==
    \A a, b \in Attempts :
        a # b /\ Holds(a) /\ Holds(b) /\ Persistent(a) /\ Persistent(b)
              /\ attempt[a].policy = attempt[b].policy => attempt[a].slot # attempt[b].slot

FilesOwned ==
    \A d \in Directories : \A e \in dir[d].files : Uncleaned(e) /\ Persistent(e) /\ DirectoryOf(e) = d

LinkIsBare == \A d \in Directories : dir[d].kind = "link" => dir[d].work # "real"

IInv ==
    /\ TypeOK /\ Journalled /\ LaunchIsAllocated /\ CopiesOfThePass
    /\ HeldOnce /\ FilesOwned /\ LinkIsBare

\* No two profiles launch in one root, now or ever.
RootsApart ==
    \A a, b \in Attempts :
        Persistent(a) /\ Persistent(b) /\ attempt[a].root = attempt[b].root =>
            attempt[a].policy = attempt[b].policy

RunnerHasFiles ==
    \A a \in Attempts :
        attempt[a].state = "running" /\ Persistent(a) =>
            dir[DirectoryOf(a)].kind = "link" \/ a \in dir[DirectoryOf(a)].files

USE DEF generation

-----------------------------------------------------------------------------
(* What a step leaves alone. *)

\* Every attempt keeps its profile and its lease.
SameLeases ==
    \A a \in Attempts :
        /\ attempt'[a].policy = attempt[a].policy
        /\ attempt'[a].root = attempt[a].root
        /\ attempt'[a].slot = attempt[a].slot

States == { "none", "allocated", "running", "concluded", "cleaned" }

\* A change of an attempt's state is nothing else.
LEMMA BecomesTyped ==
    ASSUME TypeOK, NEW a \in Attempts, NEW s \in States, Becomes(a, s)
    PROVE  /\ attempt' \in [ Attempts -> Row ] /\ SameLeases
           /\ attempt'[a].state = s
           /\ \A b \in Attempts : b # a => attempt'[b] = attempt[b]
<1>1. attempt \in [ Attempts -> Row ]
  BY DEF TypeOK
<1>2. [ attempt[a] EXCEPT !.state = s ] \in Row
  BY <1>1 DEF Row, States
<1>3. attempt' = [ attempt EXCEPT ![a] = [ attempt[a] EXCEPT !.state = s ] ]
  BY <1>1 DEF Becomes
<1> QED BY <1>1, <1>2, <1>3 DEF SameLeases, Row

LEMMA LeasesUnchanged ==
    ASSUME UNCHANGED attempt
    PROVE  SameLeases
BY DEF SameLeases

LEMMA LeaseInDirectories ==
    ASSUME TypeOK, Journalled, NEW a \in Attempts, Persistent(a)
    PROVE  DirectoryOf(a) \in Directories
BY SlotsAssumption DEF TypeOK, Journalled, Persistent, DirectoryOf, Directories, Row

LEMMA JournalledKept ==
    ASSUME Journalled, SameLeases,
           \A a \in Attempts : attempt'[a].state = "none" <=> attempt[a].state = "none"
    PROVE  Journalled'
BY DEF Journalled, SameLeases, Persistent

LEMMA HeldOnceKept ==
    ASSUME HeldOnce, SameLeases, \A a \in Attempts : Holds(a)' => Holds(a)
    PROVE  HeldOnce'
BY DEF HeldOnce, SameLeases, Persistent

LEMMA FilesOwnedKept ==
    ASSUME TypeOK, FilesOwned, SameLeases,
           \A d \in Directories : dir'[d].files \subseteq dir[d].files,
           \A d \in Directories : \A e \in dir'[d].files : Uncleaned(e) => Uncleaned(e)'
    PROVE  FilesOwned'
<1> SUFFICES ASSUME NEW d \in Directories, NEW e \in dir'[d].files
             PROVE  (Uncleaned(e) /\ Persistent(e) /\ DirectoryOf(e) = d)'
  BY DEF FilesOwned
<1>1. Uncleaned(e) /\ Persistent(e) /\ DirectoryOf(e) = d /\ e \in Attempts
  BY DEF FilesOwned, TypeOK, Directory
<1> QED BY <1>1 DEF SameLeases, Persistent, DirectoryOf

\* Runner files may go, and nothing else changes.
OnlyFilesGo ==
    /\ dir' \in [ Directories -> Directory ]
    /\ \A d \in Directories : /\ dir'[d].files \subseteq dir[d].files
                               /\ dir'[d].kind = dir[d].kind
                               /\ dir'[d].work = dir[d].work

LEMMA LinkIsBareKept ==
    ASSUME LinkIsBare, OnlyFilesGo
    PROVE  LinkIsBare'
<1> SUFFICES ASSUME NEW d \in Directories, dir'[d].kind = "link"
             PROVE  dir'[d].work # "real"
  BY DEF LinkIsBare
<1>1. dir'[d].kind = dir[d].kind /\ dir'[d].work = dir[d].work
  BY DEF OnlyFilesGo
<1> QED BY <1>1 DEF LinkIsBare

\* A change of a loop's copy that adds no attempt.
LEMMA VisitingKept ==
    ASSUME TypeOK, Journalled, SameLeases,
           \A t \in Repositories : loop'[t].copy \subseteq loop[t].copy
    PROVE  \A a \in Attempts : Visiting(a)' => Visiting(a)
<1> SUFFICES ASSUME NEW a \in Attempts, Visiting(a)'
             PROVE  Visiting(a)
  OBVIOUS
<1>1. attempt'[a].policy = attempt[a].policy
  BY DEF SameLeases
<1>2. CASE attempt[a].policy \in Policies
  <2>1. RepositoryOf[attempt[a].policy] \in Repositories
    BY <1>2 DEF Repositories
  <2> QED BY <1>1, <2>1 DEF Visiting
<1>3. CASE attempt[a].policy \notin Policies
  BY <1>1, <1>3 DEF Visiting, TypeOK, Row
<1> QED BY <1>2, <1>3

-----------------------------------------------------------------------------
(* The operators. *)

LEMMA SettingStep ==
    ASSUME IInv, TypeOK', UNCHANGED <<attempt, loop, launching, dir>>
    PROVE  IInv'
BY DEF IInv, Journalled, LaunchIsAllocated, CopiesOfThePass, HeldOnce, Holds, Uncleaned,
       Visiting, Persistent, FilesOwned, DirectoryOf, LinkIsBare

LEMMA RequestChangeStep ==
    ASSUME IInv, NEW p \in Policies, NEW workspace \in Roots \cup { NoRoot },
           RequestChange(p, workspace)
    PROVE  IInv'
<1>1. TypeOK'
  BY SlotsAssumption DEF IInv, TypeOK, RequestChange
<1> QED BY <1>1, SettingStep DEF RequestChange

LEMMA CommitChangeStep ==
    ASSUME IInv, NEW p \in Policies, CommitChange(p)
    PROVE  IInv'
<1>1. TypeOK'
  <2>1. request[p] \in Roots \cup { NoRoot, Removed }
    BY DEF IInv, TypeOK, CommitChange
  <2> QED BY <2>1 DEF IInv, TypeOK, CommitChange
<1> QED BY <1>1, SettingStep DEF CommitChange

LEMMA RemovePolicyStep ==
    ASSUME IInv, NEW p \in Policies, RemovePolicy(p)
    PROVE  IInv'
<1>1. TypeOK'
  BY SlotsAssumption DEF IInv, TypeOK, RemovePolicy
<1> QED BY <1>1, SettingStep DEF RemovePolicy

-----------------------------------------------------------------------------
(* The passes. *)

LoopState == [ pc: { "idle", "supervising", "sweeping", "launching", "done" }, drain: BOOLEAN,
               left: SUBSET Policies, copy: SUBSET Attempts ]

\* A step of one loop that lists no attempt.
LEMMA LoopStep ==
    ASSUME IInv, NEW t \in Repositories, NEW l \in LoopState,
           loop' = [ loop EXCEPT ![t] = l ], l.copy \subseteq loop[t].copy,
           l.pc # "supervising" => l.copy = {},
           loaded' \in [ Policies -> Roots \cup { NoRoot, Removed } ],
           UNCHANGED <<stored, attempt, request, launching, dir, generation, changes, crashes>>
    PROVE  IInv'
<1>1. TypeOK'
  BY DEF IInv, TypeOK, LoopState
<1>2. CopiesOfThePass'
  BY DEF IInv, CopiesOfThePass, TypeOK
<1>3. SameLeases
  BY LeasesUnchanged
<1>4. \A u \in Repositories : loop'[u].copy \subseteq loop[u].copy
  BY DEF IInv, TypeOK
<1>5. \A a \in Attempts : Holds(a)' => Holds(a)
  BY <1>3, <1>4, VisitingKept DEF IInv, Holds, Uncleaned
<1>6. HeldOnce'
  BY <1>3, <1>5, HeldOnceKept DEF IInv
<1>7. (Journalled /\ LaunchIsAllocated /\ FilesOwned /\ LinkIsBare)'
  BY DEF IInv, Journalled, LaunchIsAllocated, FilesOwned, LinkIsBare, Persistent,
         Uncleaned, DirectoryOf
<1> QED BY <1>1, <1>2, <1>6, <1>7 DEF IInv

LEMMA IdleLoopTyped == IdleLoop \in LoopState /\ IdleLoop.pc = "idle" /\ IdleLoop.copy = {}
BY DEF IdleLoop, LoopState

LEMMA BeginPassStep ==
    ASSUME IInv, NEW t \in Repositories, BeginPass(t)
    PROVE  IInv'
<1> DEFINE l == [ pc |-> "supervising", drain |-> drain, copy |-> {},
                  left |-> { p \in PoliciesOf(t) : Refreshed(t)[p] # Removed } ]
<1>1. l \in LoopState /\ l.copy = {} /\ l.pc = "supervising"
  BY DEF LoopState, PoliciesOf, IInv, TypeOK
<1>2. loaded' \in [ Policies -> Roots \cup { NoRoot, Removed } ]
  BY DEF BeginPass, Refreshed, IInv, TypeOK
<1>3. loop' = [ loop EXCEPT ![t] = l ]
  BY DEF BeginPass
<1> HIDE DEF l
<1> QED BY <1>1, <1>2, <1>3, LoopStep DEF BeginPass

LEMMA EndSupervisionStep ==
    ASSUME IInv, NEW t \in Repositories, EndSupervision(t)
    PROVE  IInv'
<1> DEFINE l == [ loop[t] EXCEPT !.pc = "sweeping" ]
<1>1. l \in LoopState /\ l.copy = {} /\ l.pc = "sweeping"
  BY DEF IInv, TypeOK, LoopState, EndSupervision
<1>2. loop' = [ loop EXCEPT ![t] = l ]
  BY DEF EndSupervision, IInv, TypeOK
<1> HIDE DEF l
<1> QED BY <1>1, <1>2, LoopStep DEF EndSupervision, IInv, TypeOK

LEMMA EndSweepStep ==
    ASSUME IInv, NEW t \in Repositories, EndSweep(t)
    PROVE  IInv'
<1> DEFINE l == [ loop[t] EXCEPT !.pc = "launching" ]
<1>1. l \in LoopState /\ l.copy = {} /\ l.pc = "launching"
  BY DEF IInv, TypeOK, CopiesOfThePass, LoopState, EndSweep
<1>2. loop' = [ loop EXCEPT ![t] = l ]
  BY DEF EndSweep, IInv, TypeOK
<1> HIDE DEF l
<1> QED BY <1>1, <1>2, LoopStep DEF EndSweep, IInv, TypeOK

LEMMA EndPassStep ==
    ASSUME IInv, NEW t \in Repositories, EndPass(t)
    PROVE  IInv'
<1> DEFINE l == [ IdleLoop EXCEPT !.pc = IF loop[t].drain /\ LocalActive(t) = {} THEN "done" ELSE "idle" ]
<1>1. l \in LoopState /\ l.copy = {} /\ l.pc # "supervising"
  BY DEF IdleLoop, LoopState
<1>2. loop' = [ loop EXCEPT ![t] = l ]
  BY DEF EndPass
<1> HIDE DEF l
<1> QED BY <1>1, <1>2, LoopStep DEF EndPass, IInv, TypeOK

\* A pass is through with an attempt.
LEMMA VisitedLoop ==
    ASSUME TypeOK, CopiesOfThePass, NEW a \in Attempts, attempt[a].policy \in Policies, Visited(a)
    PROVE  \E t \in Repositories : \E l \in LoopState :
               /\ loop' = [ loop EXCEPT ![t] = l ] /\ l.copy \subseteq loop[t].copy
               /\ l.pc # "supervising" => l.copy = {}
<1> DEFINE t == RepositoryOf[attempt[a].policy]
<1> DEFINE l == [ loop[t] EXCEPT !.copy = @ \ {a} ]
<1>1. t \in Repositories
  BY DEF Repositories
<1>2. loop[t] \in LoopState
  BY <1>1 DEF TypeOK, LoopState
<1>3. l \in LoopState /\ l.copy = loop[t].copy \ {a} /\ l.pc = loop[t].pc
  BY <1>2 DEF LoopState
<1>4. loop' = [ loop EXCEPT ![t] = l ]
  BY <1>1 DEF Visited, TypeOK
<1>5. l.pc # "supervising" => l.copy = {}
  BY <1>1, <1>3 DEF CopiesOfThePass
<1> HIDE DEF t, l
<1> QED BY <1>1, <1>3, <1>4, <1>5

LEMMA VisitingJournalled ==
    ASSUME TypeOK, NEW a \in Attempts, Visiting(a)
    PROVE  attempt[a].policy \in Policies
BY DEF TypeOK, Row, Visiting

LEMMA PassOverStep ==
    ASSUME IInv, NEW a \in Attempts, PassOver(a)
    PROVE  IInv'
<1>1. attempt[a].policy \in Policies
  BY VisitingJournalled DEF IInv, PassOver
<1>2. PICK t \in Repositories : \E l \in LoopState :
               /\ loop' = [ loop EXCEPT ![t] = l ] /\ l.copy \subseteq loop[t].copy
               /\ l.pc # "supervising" => l.copy = {}
  BY <1>1, VisitedLoop DEF IInv, PassOver
<1> QED BY <1>2, LoopStep DEF PassOver, IInv, TypeOK

\* What a pass lists is uncleaned, and held once already.
LEMMA SuperviseStep ==
    ASSUME IInv, NEW p \in Policies, Supervise(p)
    PROVE  IInv'
<1> DEFINE t == RepositoryOf[p]
<1> DEFINE l == [ loop[t] EXCEPT !.left = @ \ {p}, !.copy = UncleanedOf(p) ]
<1>1. t \in Repositories
  BY DEF Repositories
<1>2. loop[t] \in LoopState /\ loop[t].pc = "supervising" /\ loop[t].copy = {}
  BY <1>1 DEF IInv, TypeOK, LoopState, Supervise, Pc
<1>3. l \in LoopState /\ l.pc = "supervising" /\ l.copy = UncleanedOf(p)
  BY <1>2 DEF LoopState, UncleanedOf
<1>4. loop' = [ loop EXCEPT ![t] = l ]
  BY <1>1 DEF Supervise, IInv, TypeOK
<1> HIDE DEF t, l
<1>0. UNCHANGED <<stored, attempt, request, loaded, launching, dir, generation, changes, crashes>>
  BY DEF Supervise
<1>5. TypeOK'
  BY <1>0, <1>1, <1>3, <1>4 DEF IInv, TypeOK, LoopState
<1>6. CopiesOfThePass'
  BY <1>1, <1>3, <1>4 DEF IInv, CopiesOfThePass, TypeOK
<1>7. SameLeases
  BY LeasesUnchanged DEF Supervise
<1>8. \A a \in Attempts : Holds(a)' => Holds(a)
  <2> SUFFICES ASSUME NEW a \in Attempts, Visiting(a)', ~Visiting(a)
               PROVE  Uncleaned(a)
    BY DEF Holds, Uncleaned, Supervise
  <2>1. attempt' = attempt
    BY DEF Supervise
  <2>2. attempt[a].policy \in Policies
    BY <2>1 DEF IInv, TypeOK, Row, Visiting
  <2>3. RepositoryOf[attempt[a].policy] \in Repositories
    BY <2>2 DEF Repositories
  <2>4. a \in UncleanedOf(p)
    BY <1>3, <1>4, <1>1, <2>1, <2>3 DEF Visiting, IInv, TypeOK
  <2> QED BY <2>4 DEF UncleanedOf
<1>9. HeldOnce'
  BY <1>7, <1>8, HeldOnceKept DEF IInv
<1>10. (Journalled /\ LaunchIsAllocated /\ FilesOwned /\ LinkIsBare)'
  BY DEF IInv, Journalled, LaunchIsAllocated, FilesOwned, LinkIsBare, Persistent,
         Uncleaned, DirectoryOf, Supervise
<1> QED BY <1>5, <1>6, <1>9, <1>10 DEF IInv

-----------------------------------------------------------------------------
(* The journal and the file system. *)

\* An attempt moves on, and no directory gains a file.
LEMMA JournalStep ==
    ASSUME IInv, NEW a \in Attempts, NEW s \in States \ { "none" }, Becomes(a, s),
           attempt[a].state # "none", s # "cleaned" => Uncleaned(a),
           loop' \in [ Repositories -> LoopState ], CopiesOfThePass',
           \A t \in Repositories : loop'[t].copy \subseteq loop[t].copy,
           dir' \in [ Directories -> Directory ], LinkIsBare',
           \A d \in Directories : dir'[d].files \subseteq dir[d].files,
           s = "cleaned" => \A d \in Directories : a \notin dir'[d].files,
           launching' = NoAttempt \/ (launching' = launching /\ launching # a),
           UNCHANGED <<stored, request, loaded, generation, changes, crashes>>
    PROVE  IInv'
<1>1. /\ attempt' \in [ Attempts -> Row ] /\ SameLeases
      /\ attempt'[a].state = s
      /\ \A b \in Attempts : b # a => attempt'[b] = attempt[b]
  BY BecomesTyped DEF IInv
<1>2. \A b \in Attempts : Uncleaned(b)' => Uncleaned(b)
  BY <1>1 DEF Uncleaned
<1>3. \A b \in Attempts : b # a \/ s # "cleaned" => (Uncleaned(b) => Uncleaned(b)')
  BY <1>1 DEF Uncleaned, States
<1>4. TypeOK'
  BY <1>1 DEF IInv, TypeOK, LoopState
<1>5. Journalled'
  <2>1. \A b \in Attempts : attempt'[b].state = "none" <=> attempt[b].state = "none"
    BY <1>1
  <2> QED BY <1>1, <2>1, JournalledKept DEF IInv
<1>6. LaunchIsAllocated'
  BY <1>1 DEF IInv, TypeOK, LaunchIsAllocated
<1>7. HeldOnce'
  BY <1>1, <1>2, VisitingKept, HeldOnceKept DEF IInv, Holds
<1>8. FilesOwned'
  <2>1. \A d \in Directories : \A e \in dir'[d].files : Uncleaned(e) => Uncleaned(e)'
    BY <1>3 DEF Directory
  <2> QED BY <1>1, <2>1, FilesOwnedKept DEF IInv
<1> QED BY <1>4, <1>5, <1>6, <1>7, <1>8 DEF IInv

LEMMA ConcludeStep ==
    ASSUME IInv, NEW a \in Attempts, Conclude(a)
    PROVE  IInv'
<1>1. /\ "concluded" \in States \ { "none" } /\ Becomes(a, "concluded") /\ launching # a
      /\ Uncleaned(a) /\ attempt[a].state # "none" /\ "concluded" # "cleaned"
  BY DEF States, Conclude, Uncleaned
<1>2. UNCHANGED <<stored, request, loaded, loop, launching, dir, generation, changes, crashes>>
  BY DEF Conclude
<1>3. /\ loop' \in [ Repositories -> LoopState ] /\ dir' \in [ Directories -> Directory ]
      /\ CopiesOfThePass' /\ LinkIsBare'
  BY <1>2 DEF IInv, TypeOK, LoopState, CopiesOfThePass, LinkIsBare
<1> QED BY <1>1, <1>2, <1>3, JournalStep

\* A slot nobody holds is leased.
LEMMA AllocateStep ==
    ASSUME IInv, NEW a \in Attempts, NEW p \in Policies, Allocate(a, p)
    PROVE  IInv'
<1>1. PICK root \in Roots \cup { NoRoot }, slot \in 0 .. Ceiling :
          /\ Allocated(a, p, root, slot)
          /\ root # NoRoot => slot \in LowestFree(p) /\ Reusable(<<root, slot>>)
                              /\ dir' = [ dir EXCEPT ![<<root, slot>>].kind = "real" ]
          /\ root = NoRoot => slot = 0 /\ UNCHANGED dir
  <2>1. CASE loaded[p] = NoRoot
    <3>1. 0 \in 0 .. Ceiling
      BY SlotsAssumption
    <3> QED BY <2>1, <3>1 DEF Allocate
  <2>2. CASE loaded[p] # NoRoot
    <3>1. PICK slot \in LowestFree(p) :
              /\ Reusable(<<loaded[p], slot>>)
              /\ dir' = [ dir EXCEPT ![<<loaded[p], slot>>].kind = "real" ]
              /\ Allocated(a, p, loaded[p], slot)
      BY <2>2 DEF Allocate
    <3>2. slot \in 0 .. Ceiling
      BY SlotsAssumption DEF LowestFree
    <3>3. loaded[p] \in Roots
      BY <2>2 DEF Allocate, IInv, TypeOK
    <3> QED BY <2>2, <3>1, <3>2, <3>3
  <2> QED BY <2>1, <2>2
<1>2. root # NoRoot => slot \in 1 .. Ceiling /\ slot \notin Leases(p) /\ <<root, slot>> \in Directories
  BY <1>1, SlotsAssumption DEF LowestFree, Directories
<1>3. UNCHANGED <<stored, request, loaded, loop, generation, changes, crashes>> /\ launching' = a
      /\ Pc(p) = "launching" /\ attempt[a] = NoRow
  BY DEF Allocate
<1> DEFINE row == [ state |-> "allocated", policy |-> p, root |-> root, slot |-> slot,
                    current |-> Agrees(p, root) ]
<1>4. row \in Row /\ row.state = "allocated" /\ row.policy = p /\ row.root = root /\ row.slot = slot
  <2>1. Agrees(p, root) \in BOOLEAN
    BY DEF Agrees
  <2> QED BY <2>1 DEF Row
<1>5. attempt' = [ attempt EXCEPT ![a] = row ]
  BY <1>1 DEF Allocated
<1> HIDE DEF row
<1>6. /\ attempt' \in [ Attempts -> Row ] /\ attempt'[a] = row
      /\ \A b \in Attempts : b # a => attempt'[b] = attempt[b]
  BY <1>4, <1>5 DEF IInv, TypeOK
<1>7. /\ dir' \in [ Directories -> Directory ]
      /\ \A d \in Directories : dir'[d].files = dir[d].files /\ dir'[d].work = dir[d].work
                                /\ (dir'[d].kind = "link" => dir[d].kind = "link")
  <2>1. CASE root = NoRoot
    BY <1>1, <2>1 DEF IInv, TypeOK
  <2>2. CASE root # NoRoot
    <3> DEFINE d == <<root, slot>>
    <3>1. d \in Directories /\ dir[d] \in Directory
      BY <1>2, <2>2 DEF IInv, TypeOK
    <3>2. [ dir[d] EXCEPT !.kind = "real" ] \in Directory
      BY <3>1 DEF Directory
    <3>3. dir' = [ dir EXCEPT ![d] = [ dir[d] EXCEPT !.kind = "real" ] ]
      BY <1>1, <2>2, <3>1 DEF IInv, TypeOK
    <3> HIDE DEF d
    <3> QED BY <3>1, <3>2, <3>3 DEF IInv, TypeOK, Directory
  <2> QED BY <2>1, <2>2
<1>8. TypeOK'
  BY <1>3, <1>6, <1>7 DEF IInv, TypeOK
<1>9. Journalled'
  BY <1>2, <1>4, <1>6 DEF IInv, Journalled, Persistent
<1>10. LaunchIsAllocated'
  BY <1>3, <1>4, <1>6 DEF LaunchIsAllocated
<1>11. HeldOnce'
  <2>1. \A b \in Attempts : b # a => (Holds(b)' <=> Holds(b)) /\ (Persistent(b)' <=> Persistent(b))
    BY <1>3, <1>6 DEF Holds, Uncleaned, Visiting, Persistent
  <2>2. \A b \in Attempts : attempt[b].policy = p => ~Visiting(b)
    <3>1. RepositoryOf[p] \in Repositories
      BY DEF Repositories
    <3> QED BY <1>3, <3>1 DEF IInv, CopiesOfThePass, Visiting, Pc
  <2>3. \A b \in Attempts : b # a /\ Holds(b) /\ Persistent(b) /\ attempt[b].policy = p /\ root # NoRoot
                              => attempt[b].slot # slot
    BY <1>2, <2>2 DEF Holds, Leases, UncleanedOf
  <2>4. Persistent(a)' => root # NoRoot
    BY <1>4, <1>6 DEF Persistent
  <2> QED BY <1>4, <1>6, <2>1, <2>3, <2>4 DEF IInv, HeldOnce
<1>12. FilesOwned'
  <2> SUFFICES ASSUME NEW d \in Directories, NEW e \in dir[d].files
               PROVE  (Uncleaned(e) /\ Persistent(e) /\ DirectoryOf(e) = d)'
    BY <1>7 DEF FilesOwned
  <2>1. Uncleaned(e) /\ Persistent(e) /\ DirectoryOf(e) = d /\ e \in Attempts
    BY DEF IInv, FilesOwned, TypeOK, Directory
  <2>2. e # a
    BY <1>3, <2>1 DEF Uncleaned, NoRow
  <2> QED BY <1>6, <2>1, <2>2 DEF Uncleaned, Persistent, DirectoryOf
<1>13. (CopiesOfThePass /\ LinkIsBare)'
  BY <1>3, <1>7 DEF IInv, CopiesOfThePass, LinkIsBare
<1> QED BY <1>8, <1>9, <1>10, <1>11, <1>12, <1>13 DEF IInv

\* One directory changes.
LEMMA DirectoryChanged ==
    ASSUME TypeOK, NEW d \in Directories, NEW r \in Directory, dir' = [ dir EXCEPT ![d] = r ]
    PROVE  /\ dir' \in [ Directories -> Directory ] /\ dir'[d] = r
           /\ \A e \in Directories : e # d => dir'[e] = dir[e]
BY DEF TypeOK

\* The runner files of one directory are gone, and nothing else is.
LEMMA FilesGone ==
    ASSUME TypeOK, NEW d \in Directories, dir' = [ dir EXCEPT ![d] = [ dir[d] EXCEPT !.files = {} ] ]
    PROVE  /\ OnlyFilesGo /\ dir'[d].files = {}
           /\ \A e \in Directories : e # d => dir'[e] = dir[e]
<1> DEFINE r == [ dir[d] EXCEPT !.files = {} ]
<1>1. r \in Directory /\ r.files = {} /\ r.kind = dir[d].kind /\ r.work = dir[d].work
  BY DEF TypeOK, Directory
<1> HIDE DEF r
<1>2. dir' \in [ Directories -> Directory ] /\ dir'[d] = r /\ \A e \in Directories : e # d => dir'[e] = dir[e]
  BY <1>1, DirectoryChanged DEF r
<1> QED BY <1>1, <1>2 DEF OnlyFilesGo

LEMMA ScrubbedDirectory ==
    ASSUME TypeOK, NEW d \in Directories, dir' = Scrubbed(d)
    PROVE  /\ OnlyFilesGo /\ dir'[d].files = {}
           /\ \A e \in Directories : e # d => dir'[e] = dir[e]
<1>1. dir' = [ dir EXCEPT ![d] = [ dir[d] EXCEPT !.files = {} ] ]
  BY DEF Scrubbed, TypeOK
<1> QED BY <1>1, FilesGone

LEMMA LaunchingTyped ==
    ASSUME IInv, launching # NoAttempt
    PROVE  /\ launching \in Attempts /\ attempt[launching].state = "allocated" /\ Uncleaned(launching)
           /\ Persistent(launching) => DirectoryOf(launching) \in Directories
BY LeaseInDirectories DEF IInv, TypeOK, LaunchIsAllocated, Uncleaned

LEMMA MaterializeStep ==
    ASSUME IInv, Materialize
    PROVE  IInv'
<1> DEFINE d == DirectoryOf(launching)
<1> DEFINE r == [ dir[d] EXCEPT !.files = @ \cup { launching } ]
<1>1. launching \in Attempts /\ Uncleaned(launching) /\ Persistent(launching) /\ d \in Directories
  BY LaunchingTyped DEF Materialize
<1>2. r \in Directory /\ r.files = dir[d].files \cup { launching } /\ r.kind = dir[d].kind /\ r.work = dir[d].work
  BY <1>1 DEF IInv, TypeOK, Directory
<1>3. dir' = [ dir EXCEPT ![d] = r ]
  BY <1>1 DEF Materialize, IInv, TypeOK
<1>4. UNCHANGED <<stored, attempt, request, loaded, loop, launching, generation, changes, crashes>>
  BY DEF Materialize
<1> HIDE DEF r
<1>5. dir' \in [ Directories -> Directory ] /\ dir'[d] = r /\ \A e \in Directories : e # d => dir'[e] = dir[e]
  BY <1>1, <1>2, <1>3, DirectoryChanged DEF IInv
<1>6. TypeOK'
  BY <1>4, <1>5 DEF IInv, TypeOK
<1>7. LinkIsBare'
  BY <1>2, <1>5 DEF IInv, LinkIsBare
<1>8. FilesOwned'
  BY <1>1, <1>2, <1>4, <1>5 DEF IInv, FilesOwned, Uncleaned, Persistent, DirectoryOf
<1>9. (Journalled /\ LaunchIsAllocated /\ CopiesOfThePass /\ HeldOnce)'
  BY <1>4 DEF IInv, Journalled, LaunchIsAllocated, CopiesOfThePass, HeldOnce, Holds, Uncleaned,
              Visiting, Persistent
<1> QED BY <1>6, <1>7, <1>8, <1>9 DEF IInv

\* What a failed launch leaves of its directory.
LEMMA RolledBackFiles ==
    ASSUME IInv, LaunchFails
    PROVE  /\ OnlyFilesGo
           /\ \A e \in Directories : dir'[e] # dir[e] => Persistent(launching) /\ e = DirectoryOf(launching)
<1>1. CASE UNCHANGED dir
  BY <1>1 DEF IInv, TypeOK, OnlyFilesGo
<1>2. CASE /\ Persistent(launching)
           /\ \E left \in RolledBack(DirectoryOf(launching)) :
                 dir' = [ dir EXCEPT ![DirectoryOf(launching)] = left ]
  <2> DEFINE d == DirectoryOf(launching)
  <2>1. d \in Directories
    BY <1>2, LaunchingTyped DEF LaunchFails
  <2>2. CASE dir' = [ dir EXCEPT ![d] = dir[d] ]
    BY <2>1, <2>2 DEF IInv, TypeOK, OnlyFilesGo
  <2>3. CASE dir' = [ dir EXCEPT ![d] = [ dir[d] EXCEPT !.files = {} ] ]
    BY <1>2, <2>1, <2>3, FilesGone DEF IInv
  <2> QED BY <1>2, <2>2, <2>3 DEF RolledBack
<1> QED BY <1>1, <1>2 DEF LaunchFails

LEMMA LaunchFailsStep ==
    ASSUME IInv, LaunchFails
    PROVE  IInv'
<1>1. /\ "concluded" \in States \ { "none" } /\ "concluded" # "cleaned" /\ launching \in Attempts
      /\ Uncleaned(launching) /\ attempt[launching].state # "none" /\ Becomes(launching, "concluded")
  BY LaunchingTyped DEF LaunchFails, States
<1>2. UNCHANGED <<stored, request, loaded, loop, generation, changes, crashes>> /\ launching' = NoAttempt
  BY DEF LaunchFails
<1>3. loop' \in [ Repositories -> LoopState ] /\ CopiesOfThePass'
  BY <1>2 DEF IInv, TypeOK, LoopState, CopiesOfThePass
<1>4. OnlyFilesGo
  BY RolledBackFiles
<1>5. LinkIsBare'
  BY <1>4, LinkIsBareKept DEF IInv
<1> QED BY <1>1, <1>2, <1>3, <1>4, <1>5, JournalStep DEF OnlyFilesGo

LEMMA StartStep ==
    ASSUME IInv, Start
    PROVE  IInv'
<1>1. /\ "running" \in States \ { "none" } /\ "running" # "cleaned" /\ launching \in Attempts
      /\ Uncleaned(launching) /\ attempt[launching].state # "none" /\ Becomes(launching, "running")
  BY LaunchingTyped DEF Start, States
<1>2. UNCHANGED <<stored, request, loaded, loop, dir, generation, changes, crashes>> /\ launching' = NoAttempt
  BY DEF Start
<1>3. /\ loop' \in [ Repositories -> LoopState ] /\ dir' \in [ Directories -> Directory ]
      /\ CopiesOfThePass' /\ LinkIsBare'
  BY <1>2 DEF IInv, TypeOK, LoopState, CopiesOfThePass, LinkIsBare
<1> QED BY <1>1, <1>2, <1>3, JournalStep

-----------------------------------------------------------------------------
(* Cleanup. *)

\* A cleaned attempt has left no file, in its slot or elsewhere.
LEMMA CleanFiles ==
    ASSUME IInv, NEW a \in Attempts, Clean(a)
    PROVE  /\ OnlyFilesGo /\ \A e \in Directories : a \notin dir'[e].files
           /\ \A e \in Directories : dir'[e] # dir[e] => Persistent(a) /\ e = DirectoryOf(a)
<1>0. TypeOK /\ \A d \in Directories : \A e \in dir[d].files : Persistent(e) /\ DirectoryOf(e) = d
  BY DEF IInv, FilesOwned
<1>1. CASE Persistent(a)
  <2>1. DirectoryOf(a) \in Directories /\ dir' = Scrubbed(DirectoryOf(a))
    BY <1>1, LeaseInDirectories DEF Clean, IInv
  <2>2. OnlyFilesGo /\ dir'[DirectoryOf(a)].files = {}
        /\ \A e \in Directories : e # DirectoryOf(a) => dir'[e] = dir[e]
    BY <1>0, <2>1, ScrubbedDirectory
  <2> QED BY <1>0, <1>1, <2>1, <2>2
<1>2. CASE ~Persistent(a)
  BY <1>0, <1>2 DEF Clean, TypeOK, OnlyFilesGo
<1> QED BY <1>1, <1>2

LEMMA CleanHalfwayFiles ==
    ASSUME IInv, NEW a \in Attempts, CleanHalfway(a)
    PROVE  /\ OnlyFilesGo
           /\ \A e \in Directories : dir'[e] # dir[e] => Persistent(a) /\ e = DirectoryOf(a)
<1>1. TypeOK /\ Persistent(a) /\ DirectoryOf(a) \in Directories
  BY LeaseInDirectories DEF CleanHalfway, IInv
<1>2. CASE dir' = dir
  BY <1>1, <1>2 DEF TypeOK, OnlyFilesGo
<1>3. CASE dir' = Scrubbed(DirectoryOf(a))
  BY <1>1, <1>3, ScrubbedDirectory
<1> QED BY <1>2, <1>3 DEF CleanHalfway

LEMMA CleanupStep ==
    ASSUME IInv, NEW a \in Attempts, attempt[a].state \in { "concluded", "cleaned" },
           Clean(a) \/ CleanHalfway(a),
           loop' \in [ Repositories -> LoopState ], CopiesOfThePass',
           \A t \in Repositories : loop'[t].copy \subseteq loop[t].copy,
           UNCHANGED <<stored, request, loaded, launching, generation, changes, crashes>>
    PROVE  IInv'
<1>1. CASE Clean(a)
  <2>1. OnlyFilesGo /\ \A e \in Directories : a \notin dir'[e].files
    BY <1>1, CleanFiles
  <2>2. LinkIsBare'
    BY <2>1, LinkIsBareKept DEF IInv
  <2>3. "cleaned" \in States \ { "none" } /\ attempt[a].state # "none" /\ Becomes(a, "cleaned")
    BY <1>1 DEF States, Clean
  <2>4. launching' = NoAttempt \/ (launching' = launching /\ launching # a)
    BY DEF IInv, LaunchIsAllocated
  <2> QED BY <2>1, <2>2, <2>3, <2>4, JournalStep DEF OnlyFilesGo
<1>2. CASE CleanHalfway(a)
  <2>1. OnlyFilesGo
    BY <1>2, CleanHalfwayFiles
  <2>2. SameLeases /\ attempt' = attempt
    BY <1>2, LeasesUnchanged DEF CleanHalfway
  <2>3. LinkIsBare'
    BY <2>1, LinkIsBareKept DEF IInv
  <2>4. TypeOK'
    BY <2>1, <2>2 DEF IInv, TypeOK, LoopState, OnlyFilesGo
  <2>5. FilesOwned'
    <3>1. \A d \in Directories : \A e \in dir'[d].files : Uncleaned(e) => Uncleaned(e)'
      BY <2>2 DEF Uncleaned
    <3> QED BY <2>1, <2>2, <3>1, FilesOwnedKept DEF IInv, OnlyFilesGo
  <2>6. HeldOnce'
    <3>1. \A b \in Attempts : Visiting(b)' => Visiting(b)
      BY <2>2, VisitingKept DEF IInv
    <3> QED BY <2>2, <3>1, HeldOnceKept DEF IInv, Holds, Uncleaned
  <2>7. (Journalled /\ LaunchIsAllocated)'
    BY <2>2 DEF IInv, Journalled, LaunchIsAllocated, Persistent
  <2> QED BY <2>3, <2>4, <2>5, <2>6, <2>7 DEF IInv
<1> QED BY <1>1, <1>2

LEMMA CleanCopyStep ==
    ASSUME IInv, NEW a \in Attempts, CleanCopy(a)
    PROVE  IInv'
<1>1. /\ attempt[a].state \in { "concluded", "cleaned" } /\ (Clean(a) \/ CleanHalfway(a)) /\ Visited(a)
      /\ UNCHANGED <<stored, request, loaded, launching, generation, changes, crashes>>
  BY DEF CleanCopy
<1>2. attempt[a].policy \in Policies
  BY VisitingJournalled DEF IInv, CleanCopy
<1>3. PICK t \in Repositories : \E l \in LoopState :
               /\ loop' = [ loop EXCEPT ![t] = l ] /\ l.copy \subseteq loop[t].copy
               /\ l.pc # "supervising" => l.copy = {}
  BY <1>1, <1>2, VisitedLoop DEF IInv
<1>4. /\ loop' \in [ Repositories -> LoopState ]
      /\ \A u \in Repositories : loop'[u].copy \subseteq loop[u].copy
  BY <1>3 DEF IInv, TypeOK, LoopState
<1>5. CopiesOfThePass'
  BY <1>3 DEF IInv, TypeOK, CopiesOfThePass
<1> QED BY <1>1, <1>4, <1>5, CleanupStep

LEMMA SweepStep ==
    ASSUME IInv, NEW t \in Repositories, NEW a \in Attempts, Sweep(t, a)
    PROVE  IInv'
<1>1. /\ attempt[a].state \in { "concluded", "cleaned" } /\ (Clean(a) \/ CleanHalfway(a))
      /\ UNCHANGED <<stored, request, loaded, launching, loop, generation, changes, crashes>>
  BY DEF Sweep, ListedNow
<1>2. loop' \in [ Repositories -> LoopState ] /\ CopiesOfThePass'
  BY <1>1 DEF IInv, TypeOK, LoopState, CopiesOfThePass
<1> QED BY <1>1, <1>2, CleanupStep

-----------------------------------------------------------------------------
(* The jobs, the operator at the machine, and the daemon's generations. *)

\* A directory is replaced by one that holds no more files.
LEMMA ReplacedStep ==
    ASSUME IInv, NEW d \in Directories, NEW r \in Directory, dir' = [ dir EXCEPT ![d] = r ],
           r.files \subseteq dir[d].files, r.kind = "link" => r.work # "real",
           UNCHANGED <<stored, attempt, request, loaded, loop, launching, generation, changes, crashes>>
    PROVE  IInv'
<1>1. dir' \in [ Directories -> Directory ] /\ dir'[d] = r /\ \A e \in Directories : e # d => dir'[e] = dir[e]
  BY DirectoryChanged DEF IInv
<1>2. TypeOK'
  BY <1>1 DEF IInv, TypeOK
<1>3. LinkIsBare'
  BY <1>1 DEF IInv, LinkIsBare
<1>4. FilesOwned'
  BY <1>1 DEF IInv, FilesOwned, Uncleaned, Persistent, DirectoryOf
<1>5. (Journalled /\ LaunchIsAllocated /\ CopiesOfThePass /\ HeldOnce)'
  BY DEF IInv, Journalled, LaunchIsAllocated, CopiesOfThePass, HeldOnce, Holds, Uncleaned,
         Visiting, Persistent
<1> QED BY <1>2, <1>3, <1>4, <1>5 DEF IInv

\* What a job may make of its slot.
LEMMA JobLeaves ==
    ASSUME IInv, NEW a \in Attempts, Job(a)
    PROVE  /\ Persistent(a) /\ DirectoryOf(a) \in Directories /\ attempt[a].state = "running"
           /\ \E r \in Directory :
                 /\ dir' = [ dir EXCEPT ![DirectoryOf(a)] = r ]
                 /\ r.files \subseteq dir[DirectoryOf(a)].files
                 /\ r.kind = "link" => r.work # "real"
                 /\ r.kind # "link" => r.files = dir[DirectoryOf(a)].files
<1> DEFINE d == DirectoryOf(a)
<1>1. Persistent(a) /\ d \in Directories /\ attempt[a].state = "running"
  BY LeaseInDirectories DEF Job, IInv
<1>2. dir[d] \in Directory /\ dir[d].kind = "real"
  BY <1>1 DEF Job, IInv, TypeOK
<1>3. PICK r \in { [ dir[d] EXCEPT !.work = "real" ], [ dir[d] EXCEPT !.work = "link" ],
                    [ Absent EXCEPT !.kind = "link" ] } : dir' = [ dir EXCEPT ![d] = r ]
  BY DEF Job
<1>4. CASE r = [ dir[d] EXCEPT !.work = "real" ]
  <2>1. r \in Directory /\ r.files = dir[d].files /\ r.kind # "link"
    BY <1>2, <1>4 DEF Directory
  <2> QED BY <1>1, <1>3, <2>1
<1>5. CASE r = [ dir[d] EXCEPT !.work = "link" ]
  <2>1. r \in Directory /\ r.files = dir[d].files /\ r.kind # "link"
    BY <1>2, <1>5 DEF Directory
  <2> QED BY <1>1, <1>3, <2>1
<1>6. CASE r = [ Absent EXCEPT !.kind = "link" ]
  <2>1. r \in Directory /\ r.files = {} /\ r.kind = "link" /\ r.work = "none"
    BY <1>6 DEF Directory, Absent
  <2> QED BY <1>1, <1>3, <2>1
<1> QED BY <1>3, <1>4, <1>5, <1>6

LEMMA JobStep ==
    ASSUME IInv, NEW a \in Attempts, Job(a)
    PROVE  IInv'
<1>1. UNCHANGED <<stored, attempt, request, loaded, loop, launching, generation, changes, crashes>>
  BY DEF Job
<1> QED BY <1>1, JobLeaves, ReplacedStep

LEMMA RemoveByHandStep ==
    ASSUME IInv, NEW d \in Directories, RemoveByHand(d)
    PROVE  IInv'
<1>1. Absent \in Directory /\ Absent.files = {} /\ Absent.kind # "link"
  BY DEF Absent, Directory
<1>2. /\ dir' = [ dir EXCEPT ![d] = Absent ]
      /\ UNCHANGED <<stored, attempt, request, loaded, loop, launching, generation, changes, crashes>>
  BY DEF RemoveByHand
<1> QED BY <1>1, <1>2, ReplacedStep

LEMMA WatchPolicySetStep ==
    ASSUME IInv, WatchPolicySet
    PROVE  IInv'
<1>1. TypeOK'
  BY DEF IInv, TypeOK, WatchPolicySet
<1> QED BY <1>1, SettingStep DEF WatchPolicySet

\* No pass of the last generation is left.
LEMMA NewGenerationStep ==
    ASSUME IInv, NewGeneration, launching' \in { launching, NoAttempt },
           crashes' \in 0 .. MaxCrashes, UNCHANGED <<stored, attempt, request, dir, changes>>
    PROVE  IInv'
<1>1. loop' = [ t \in Repositories |-> IdleLoop ]
  BY DEF NewGeneration
<1>2. TypeOK'
  <2>1. loop' \in [ Repositories -> LoopState ]
    BY <1>1, IdleLoopTyped
  <2>2. loaded' \in [ Policies -> Roots \cup { NoRoot, Removed } ]
    BY DEF NewGeneration, IInv, TypeOK
  <2>3. serving' \subseteq Repositories /\ drain' \in BOOLEAN
    BY DEF NewGeneration, Targets, Repositories
  <2> QED BY <2>1, <2>2, <2>3 DEF IInv, TypeOK, LoopState
<1>3. \A t \in Repositories : loop'[t].copy = {}
  BY <1>1, IdleLoopTyped
<1>4. SameLeases
  BY LeasesUnchanged
<1>5. \A b \in Attempts : Visiting(b)' => Visiting(b)
  BY <1>3, <1>4, VisitingKept DEF IInv
<1>6. HeldOnce'
  BY <1>4, <1>5, HeldOnceKept DEF IInv, Holds, Uncleaned
<1>7. (Journalled /\ LaunchIsAllocated /\ CopiesOfThePass /\ FilesOwned /\ LinkIsBare)'
  BY <1>3 DEF IInv, Journalled, LaunchIsAllocated, CopiesOfThePass, Uncleaned,
              Persistent, FilesOwned, DirectoryOf, LinkIsBare
<1> QED BY <1>2, <1>6, <1>7 DEF IInv

LEMMA ReloadStep ==
    ASSUME IInv, Reload
    PROVE  IInv'
BY NewGenerationStep DEF Reload, IInv, TypeOK

LEMMA RestartStep ==
    ASSUME IInv, Restart
    PROVE  IInv'
<1>1. crashes' \in 0 .. MaxCrashes
  BY SlotsAssumption DEF Restart, IInv, TypeOK
<1> QED BY <1>1, NewGenerationStep DEF Restart

-----------------------------------------------------------------------------
(* The inductive invariant. *)

LEMMA InitHolds == Init => IInv
<1> SUFFICES ASSUME Init
             PROVE  IInv
  OBVIOUS
<1>1. NoRow \in Row /\ NoRow.state = "none" /\ NoRow.root = NoRoot
  BY SlotsAssumption DEF NoRow, Row
<1>2. Absent \in Directory /\ Absent.files = {} /\ Absent.kind = "absent"
  BY DEF Absent, Directory
<1>3. loop \in [ Repositories -> LoopState ] /\ CopiesOfThePass
  BY IdleLoopTyped DEF Init, CopiesOfThePass
<1>4. TypeOK
  <2>1. stored \in [ Policies -> Roots \cup { NoRoot, Removed } ] /\ loaded = stored
    BY DEF Init
  <2>2. request \in [ Policies -> Roots \cup { NoRoot, NoRequest } ]
    BY DEF Init
  <2>3. attempt \in [ Attempts -> Row ] /\ dir \in [ Directories -> Directory ]
    BY <1>1, <1>2 DEF Init
  <2>4. serving \subseteq Repositories /\ drain \in BOOLEAN /\ launching \in Attempts \cup { NoAttempt }
    BY DEF Init
  <2>5. changes \in 0 .. MaxChanges /\ crashes \in 0 .. MaxCrashes
    BY SlotsAssumption DEF Init
  <2> QED BY <1>3, <2>1, <2>2, <2>3, <2>4, <2>5 DEF TypeOK, LoopState
<1>5. \A a \in Attempts : ~Persistent(a) /\ attempt[a].state = "none"
  BY <1>1 DEF Init, Persistent
<1>6. Journalled /\ LaunchIsAllocated /\ HeldOnce
  BY <1>5 DEF Init, Journalled, LaunchIsAllocated, HeldOnce
<1>7. FilesOwned /\ LinkIsBare
  BY <1>2 DEF Init, FilesOwned, LinkIsBare
<1> QED BY <1>3, <1>4, <1>6, <1>7 DEF IInv

LEMMA OperatorKept == IInv /\ Operator => IInv'
<1>1. \A p \in Policies : RootsOf[p] \subseteq Roots
  BY SlotsAssumption
<1> QED BY <1>1, RequestChangeStep, CommitChangeStep, RemovePolicyStep, RemoveByHandStep DEF Operator

LEMMA PassKept == ASSUME IInv, NEW t \in Repositories, Pass(t) PROVE IInv'
BY BeginPassStep, EndSupervisionStep, EndSweepStep, EndPassStep, SuperviseStep, PassOverStep,
   ConcludeStep, CleanCopyStep, SweepStep DEF Pass, Visit, PoliciesOf

LEMMA NextKept == IInv /\ [Next]_vars => IInv'
<1> SUFFICES ASSUME IInv, [Next]_vars
             PROVE  IInv'
  OBVIOUS
<1>1. CASE UNCHANGED vars
  <2>1. TypeOK'
    BY <1>1 DEF IInv, TypeOK, vars
  <2> QED BY <1>1, <2>1, SettingStep DEF vars
<1>2. CASE Next
  BY <1>2, OperatorKept, PassKept, JobStep, AllocateStep, MaterializeStep, LaunchFailsStep,
     StartStep, WatchPolicySetStep, ReloadStep, RestartStep DEF Next, Launch
<1> QED BY <1>1, <1>2

LEMMA Inductive == Spec => []IInv
BY InitHolds, NextKept, PTL DEF Spec

-----------------------------------------------------------------------------

\* The journal, the passes, the launch and the file system keep their types, and
\* no slot past the ceiling is ever leased (lowest_free_slot).
THEOREM TypeCorrect == Spec => []TypeOK
<1>1. IInv => TypeOK
  BY DEF IInv
<1> QED BY <1>1, Inductive, PTL

\* Whatever fails and is tried again, and whichever loop does it, no file of a
\* cleaned attempt is left in a slot (clean_attempt): for any number of profiles,
\* sharing roots or not.
THEOREM CleanedIsGone == Spec => []CleanedLeavesNothing
<1>1. IInv => CleanedLeavesNothing
  <2> SUFFICES ASSUME IInv, NEW d \in Directories, NEW e \in dir[d].files
               PROVE  \E a \in Attempts : Uncleaned(a) /\ DirectoryOf(a) = d
    BY DEF CleanedLeavesNothing
  <2>1. e \in Attempts /\ Uncleaned(e) /\ DirectoryOf(e) = d
    BY DEF IInv, FilesOwned, TypeOK, Directory
  <2> QED BY <2>1
<1> QED BY <1>1, Inductive, PTL

-----------------------------------------------------------------------------
(* What jobs left in `_work`. *)

Lost(d) == dir[d].work = "real" /\ dir'[d].work # "real"

LEMMA NoWorkGoes ==
    ASSUME OnlyFilesGo
    PROVE  \A d \in Directories : ~Lost(d)
<1> SUFFICES ASSUME NEW d \in Directories
             PROVE  ~Lost(d)
  OBVIOUS
<1>1. dir'[d].work = dir[d].work
  BY DEF OnlyFilesGo
<1> QED BY <1>1 DEF Lost

LEMMA WorkLost ==
    ASSUME IInv, [Next]_vars, NEW d \in Directories, Lost(d)
    PROVE  \E a \in Attempts : attempt[a].state = "running" /\ DirectoryOf(a) = d
<1>0. TypeOK
  BY DEF IInv
<1>1. dir' # dir
  BY DEF Lost
<1>2. ASSUME NEW a \in Attempts, Job(a)
      PROVE  \E b \in Attempts : attempt[b].state = "running" /\ DirectoryOf(b) = d
  <2>1. attempt[a].state = "running"
    BY <1>2, JobLeaves
  <2>2. CASE DirectoryOf(a) = d
    BY <2>1, <2>2
  <2>3. CASE DirectoryOf(a) # d
    <3>1. PICK r \in Directory : dir' = [ dir EXCEPT ![DirectoryOf(a)] = r ]
      BY <1>2, JobLeaves
    <3> QED BY <1>0, <2>3, <3>1 DEF Lost, TypeOK
  <2> QED BY <2>2, <2>3
<1>3. ASSUME NEW e \in Directories, RemoveByHand(e)
      PROVE  FALSE
  <2>1. dir' = [ dir EXCEPT ![e] = Absent ] /\ (dir[e].kind = "link" \/ dir[e].work = "link")
    BY <1>3 DEF RemoveByHand
  <2>2. dir[e].work # "real"
    BY <2>1 DEF IInv, LinkIsBare
  <2> QED BY <1>0, <2>1, <2>2 DEF Lost, TypeOK
<1>4. ASSUME NEW a \in Attempts, Clean(a) \/ CleanHalfway(a)
      PROVE  FALSE
  BY <1>4, CleanFiles, CleanHalfwayFiles, NoWorkGoes
<1>5. ~LaunchFails
  BY RolledBackFiles, NoWorkGoes
<1>6. ~Materialize
  <2> SUFFICES ASSUME Materialize
               PROVE  FALSE
    OBVIOUS
  <2>1. DirectoryOf(launching) \in Directories
    BY LaunchingTyped DEF Materialize
  <2> DEFINE r == [ dir[DirectoryOf(launching)] EXCEPT !.files = @ \cup { launching } ]
  <2>2. dir' = [ dir EXCEPT ![DirectoryOf(launching)] = r ]
    BY <2>1 DEF Materialize, IInv, TypeOK
  <2>3. r.work = dir[DirectoryOf(launching)].work
    BY <2>1 DEF IInv, TypeOK, Directory
  <2> HIDE DEF r
  <2> QED BY <1>0, <2>1, <2>2, <2>3 DEF Lost, TypeOK
<1>7. ASSUME NEW a \in Attempts, NEW p \in Policies, Allocate(a, p)
      PROVE  FALSE
  <2>1. PICK slot \in LowestFree(p) : dir' = [ dir EXCEPT ![<<loaded[p], slot>>].kind = "real" ]
    BY <1>1, <1>7 DEF Allocate
  <2>2. dir[d] \in Directory
    BY <1>0 DEF TypeOK
  <2> QED BY <1>0, <2>1, <2>2 DEF Lost, TypeOK, Directory
<1>8. CASE Next
  <2>1. Operator => UNCHANGED dir \/ \E e \in Directories : RemoveByHand(e)
    BY DEF Operator, RequestChange, CommitChange, RemovePolicy
  <2>2. \A t \in Repositories : Pass(t) => UNCHANGED dir \/ \E a \in Attempts : Clean(a) \/ CleanHalfway(a)
    BY DEF Pass, Visit, PoliciesOf, BeginPass, EndSupervision, EndSweep, EndPass, Supervise,
           PassOver, Conclude, CleanCopy, Sweep
  <2>3. Start \/ WatchPolicySet \/ Reload \/ Restart => UNCHANGED dir
    BY DEF Start, WatchPolicySet, Reload, Restart
  <2> QED BY <1>1, <1>2, <1>3, <1>4, <1>5, <1>6, <1>7, <1>8, <2>1, <2>2, <2>3 DEF Next, Launch
<1> QED BY <1>1, <1>8 DEF vars

\* What jobs left in a real `_work` is lost to no launch, rollback, cleanup,
\* change of setting or remediation (remove_materialized_package,
\* scrub_slot_entries): for any number of profiles, sharing roots or not.
THEOREM WorkKept == Spec => WorkIsKept
<1>1. IInv /\ [Next]_vars =>
        [ \A d \in Directories :
            dir[d].work = "real" /\ dir'[d].work # "real" =>
              \E a \in Attempts : attempt[a].state = "running" /\ DirectoryOf(a) = d ]_dir
  BY WorkLost DEF Lost
<1> QED BY <1>1, Inductive, PTL DEF Spec, WorkIsKept

-----------------------------------------------------------------------------
(* The runner at work. *)

\* Two attempts that hold slots hold different ones.
LEMMA SoleHolder ==
    ASSUME IInv, RootsApart, NEW a \in Attempts, NEW b \in Attempts, a # b,
           Holds(a), Holds(b), Persistent(a), Persistent(b)
    PROVE  DirectoryOf(a) # DirectoryOf(b)
<1> SUFFICES ASSUME attempt[a].root = attempt[b].root
             PROVE  attempt[a].slot # attempt[b].slot
  BY DEF DirectoryOf
<1>1. attempt[a].policy = attempt[b].policy
  BY DEF RootsApart
<1> QED BY <1>1 DEF IInv, HeldOnce

\* A step that changes the slot of one holder which is not at work.
LEMMA OthersUndisturbed ==
    ASSUME IInv, RootsApart, RunnerHasFiles, SameLeases,
           \A a \in Attempts : attempt'[a].state = "running" => attempt[a].state = "running",
           NEW b \in Attempts, attempt[b].state # "running", Holds(b),
           \A e \in Directories : dir'[e] # dir[e] => Persistent(b) /\ e = DirectoryOf(b)
    PROVE  RunnerHasFiles'
<1> SUFFICES ASSUME NEW a \in Attempts, attempt'[a].state = "running", Persistent(a)'
             PROVE  (dir[DirectoryOf(a)].kind = "link" \/ a \in dir[DirectoryOf(a)].files)'
  BY DEF RunnerHasFiles
<1>1. /\ attempt[a].state = "running" /\ Persistent(a) /\ a # b /\ Holds(a)
      /\ DirectoryOf(a)' = DirectoryOf(a)
  BY DEF SameLeases, Persistent, DirectoryOf, Holds, Uncleaned
<1>2. DirectoryOf(a) \in Directories
  BY <1>1, LeaseInDirectories DEF IInv
<1>3. dir'[DirectoryOf(a)] = dir[DirectoryOf(a)]
  BY <1>1, <1>2, SoleHolder
<1> QED BY <1>1, <1>3 DEF RunnerHasFiles

\* A step that neither starts a runner nor changes a directory.
LEMMA QuietStep ==
    ASSUME RunnerHasFiles, SameLeases, UNCHANGED dir,
           \A a \in Attempts : attempt'[a].state = "running" => attempt[a].state = "running"
    PROVE  RunnerHasFiles'
BY DEF RunnerHasFiles, SameLeases, Persistent, DirectoryOf

LEMMA CleanupUndisturbing ==
    ASSUME IInv, RootsApart, RunnerHasFiles, NEW b \in Attempts, Clean(b) \/ CleanHalfway(b),
           attempt[b].state # "running", Holds(b)
    PROVE  RunnerHasFiles'
<1>1. \A e \in Directories : dir'[e] # dir[e] => Persistent(b) /\ e = DirectoryOf(b)
  BY CleanFiles, CleanHalfwayFiles
<1>2. SameLeases /\ \A a \in Attempts : attempt'[a].state = "running" => attempt[a].state = "running"
  <2>1. CASE Clean(b)
    <3>1. "cleaned" \in States /\ Becomes(b, "cleaned") /\ TypeOK
      BY <2>1 DEF States, Clean, IInv
    <3> QED BY <3>1, BecomesTyped
  <2>2. CASE CleanHalfway(b)
    BY <2>2, LeasesUnchanged DEF CleanHalfway
  <2> QED BY <2>1, <2>2
<1> QED BY <1>1, <1>2, OthersUndisturbed

LEMMA RunnerKept ==
    ASSUME IInv, RootsApart, RunnerHasFiles, [Next]_vars
    PROVE  RunnerHasFiles'
<1>0. TypeOK
  BY DEF IInv
<1>1. CASE UNCHANGED <<attempt, dir>>
  BY <1>1, QuietStep, LeasesUnchanged
<1>2. ASSUME NEW a \in Attempts, Conclude(a)
      PROVE  RunnerHasFiles'
  <2>1. "concluded" \in States /\ Becomes(a, "concluded") /\ UNCHANGED dir
    BY <1>2 DEF States, Conclude
  <2>2. SameLeases /\ \A b \in Attempts : attempt'[b].state = "running" => attempt[b].state = "running"
    BY <1>0, <2>1, BecomesTyped
  <2> QED BY <2>1, <2>2, QuietStep
<1>3. ASSUME NEW a \in Attempts, CleanCopy(a) \/ \E t \in Repositories : Sweep(t, a)
      PROVE  RunnerHasFiles'
  <2>1. attempt[a].state # "running" /\ Holds(a) /\ (Clean(a) \/ CleanHalfway(a))
    BY <1>3 DEF CleanCopy, Sweep, ListedNow, Holds, Uncleaned
  <2> QED BY <2>1, CleanupUndisturbing
<1>4. ASSUME NEW a \in Attempts, NEW p \in Policies, Allocate(a, p)
      PROVE  RunnerHasFiles'
  <2>1. PICK root, slot : Allocated(a, p, root, slot)
    BY <1>4 DEF Allocate
  <2> DEFINE row == [ state |-> "allocated", policy |-> p, root |-> root, slot |-> slot,
                      current |-> Agrees(p, root) ]
  <2>4. attempt' = [ attempt EXCEPT ![a] = row ] /\ row.state = "allocated"
    BY <2>1 DEF Allocated
  <2> HIDE DEF row
  <2>5. attempt'[a].state = "allocated" /\ \A b \in Attempts : b # a => attempt'[b] = attempt[b]
    BY <1>0, <2>4 DEF TypeOK
  <2>2. CASE UNCHANGED dir
    BY <2>5, <2>2 DEF RunnerHasFiles, Persistent, DirectoryOf
  <2>3. CASE \E s \in LowestFree(p) :
               /\ Reusable(<<loaded[p], s>>)
               /\ dir' = [ dir EXCEPT ![<<loaded[p], s>>].kind = "real" ]
    <3>1. PICK s \in LowestFree(p) :
               /\ Reusable(<<loaded[p], s>>)
               /\ dir' = [ dir EXCEPT ![<<loaded[p], s>>].kind = "real" ]
      BY <2>3
    <3> SUFFICES ASSUME NEW b \in Attempts, attempt'[b].state = "running", Persistent(b)'
                 PROVE  (dir[DirectoryOf(b)].kind = "link" \/ b \in dir[DirectoryOf(b)].files)'
      BY DEF RunnerHasFiles
    <3>2. b # a /\ attempt'[b] = attempt[b]
      BY <2>5
    <3>3. dir[DirectoryOf(b)].kind = "link" \/ b \in dir[DirectoryOf(b)].files
      BY <3>2 DEF RunnerHasFiles, Persistent
    <3>4. DirectoryOf(b)' = DirectoryOf(b) /\ DirectoryOf(b) # <<loaded[p], s>>
      BY <3>1, <3>2, <3>3 DEF Reusable, DirectoryOf
    <3>5. DirectoryOf(b) \in Directories
      BY <3>2, LeaseInDirectories DEF IInv, Persistent
    <3>6. dir'[DirectoryOf(b)] = dir[DirectoryOf(b)]
      BY <1>0, <3>1, <3>4, <3>5 DEF TypeOK
    <3> QED BY <3>3, <3>4, <3>6
  <2> QED BY <1>4, <2>2, <2>3 DEF Allocate
<1>5. CASE Materialize
  <2>1. DirectoryOf(launching) \in Directories
    BY <1>5, LaunchingTyped DEF Materialize
  <2> DEFINE r == [ dir[DirectoryOf(launching)] EXCEPT !.files = @ \cup { launching } ]
  <2>2. dir' = [ dir EXCEPT ![DirectoryOf(launching)] = r ] /\ UNCHANGED attempt
    BY <1>5, <2>1 DEF Materialize, IInv, TypeOK
  <2>3. r.kind = dir[DirectoryOf(launching)].kind /\ dir[DirectoryOf(launching)].files \subseteq r.files
    BY <2>1 DEF IInv, TypeOK, Directory
  <2> HIDE DEF r
  <2>4. \A e \in Directories : dir'[e].kind = dir[e].kind /\ dir[e].files \subseteq dir'[e].files
    BY <1>0, <2>1, <2>2, <2>3 DEF TypeOK
  <2>5. \A a \in Attempts : Persistent(a) => DirectoryOf(a) \in Directories
    BY LeaseInDirectories DEF IInv
  <2> QED BY <2>2, <2>4, <2>5 DEF RunnerHasFiles, Persistent, DirectoryOf
<1>6. CASE LaunchFails
  <2>1. /\ launching \in Attempts /\ attempt[launching].state # "running" /\ Holds(launching)
        /\ "concluded" \in States /\ Becomes(launching, "concluded")
    BY <1>6, LaunchingTyped DEF LaunchFails, Holds, States
  <2>2. SameLeases /\ \A b \in Attempts : attempt'[b].state = "running" => attempt[b].state = "running"
    BY <1>0, <2>1, BecomesTyped
  <2>3. \A e \in Directories : dir'[e] # dir[e] => Persistent(launching) /\ e = DirectoryOf(launching)
    BY <1>6, RolledBackFiles
  <2> QED BY <2>1, <2>2, <2>3, OthersUndisturbed
<1>7. CASE Start
  <2>1. launching \in Attempts /\ "running" \in States /\ Becomes(launching, "running") /\ UNCHANGED dir
        /\ (Persistent(launching) => launching \in dir[DirectoryOf(launching)].files)
    BY <1>7, LaunchingTyped DEF Start, States
  <2>2. SameLeases /\ \A b \in Attempts : b # launching => attempt'[b] = attempt[b]
    BY <1>0, <2>1, BecomesTyped
  <2> QED BY <2>1, <2>2 DEF RunnerHasFiles, SameLeases, Persistent, DirectoryOf
<1>8. ASSUME NEW b \in Attempts, Job(b)
      PROVE  RunnerHasFiles'
  <2>1. Persistent(b) /\ DirectoryOf(b) \in Directories /\ attempt[b].state = "running" /\ UNCHANGED attempt
    BY <1>8, JobLeaves DEF Job
  <2>2. PICK r \in Directory : /\ dir' = [ dir EXCEPT ![DirectoryOf(b)] = r ]
                               /\ r.kind # "link" => r.files = dir[DirectoryOf(b)].files
    BY <1>8, JobLeaves
  <2> SUFFICES ASSUME NEW a \in Attempts, attempt[a].state = "running", Persistent(a)
               PROVE  dir'[DirectoryOf(a)].kind = "link" \/ a \in dir'[DirectoryOf(a)].files
    BY <2>1 DEF RunnerHasFiles, Persistent, DirectoryOf
  <2>3. DirectoryOf(a) \in Directories /\ Holds(a) /\ Holds(b)
    BY <2>1, LeaseInDirectories DEF IInv, Holds, Uncleaned
  <2>4. dir[DirectoryOf(a)].kind = "link" \/ a \in dir[DirectoryOf(a)].files
    BY DEF RunnerHasFiles
  <2>5. CASE a = b
    <3>1. dir[DirectoryOf(b)].kind = "real"
      BY <1>8 DEF Job
    <3> QED BY <1>0, <2>1, <2>2, <2>4, <2>5, <3>1 DEF TypeOK
  <2>6. CASE a # b
    <3>1. DirectoryOf(a) # DirectoryOf(b)
      BY <2>1, <2>3, <2>6, SoleHolder
    <3> QED BY <1>0, <2>1, <2>2, <2>3, <2>4, <3>1 DEF TypeOK
  <2> QED BY <2>5, <2>6
<1>9. ASSUME NEW d \in Directories, RemoveByHand(d)
      PROVE  RunnerHasFiles'
  <2>1. /\ \A a \in Attempts : DirectoryOf(a) = d => attempt[a].state # "running"
        /\ dir' = [ dir EXCEPT ![d] = Absent ] /\ UNCHANGED attempt
    BY <1>9 DEF RemoveByHand
  <2>2. \A a \in Attempts : Persistent(a) => DirectoryOf(a) \in Directories
    BY LeaseInDirectories DEF IInv
  <2> QED BY <1>0, <2>1, <2>2 DEF RunnerHasFiles, Persistent, DirectoryOf, TypeOK
<1>10. CASE Next
  <2>1. Operator => UNCHANGED <<attempt, dir>> \/ \E e \in Directories : RemoveByHand(e)
    BY DEF Operator, RequestChange, CommitChange, RemovePolicy
  <2>2. \A t \in Repositories :
          Pass(t) => UNCHANGED <<attempt, dir>>
                     \/ \E a \in Attempts : Conclude(a) \/ CleanCopy(a) \/ Sweep(t, a)
    BY DEF Pass, Visit, PoliciesOf, BeginPass, EndSupervision, EndSweep, EndPass, Supervise, PassOver
  <2>3. WatchPolicySet \/ Reload \/ Restart => UNCHANGED <<attempt, dir>>
    BY DEF WatchPolicySet, Reload, Restart
  <2> QED BY <1>1, <1>2, <1>3, <1>4, <1>5, <1>6, <1>7, <1>8, <1>9, <1>10, <2>1, <2>2, <2>3
          DEF Next, Launch
<1> QED BY <1>1, <1>10 DEF vars

LEMMA FilesAreItsOwn ==
    ASSUME IInv, RootsApart, RunnerHasFiles
    PROVE  RunnerUndisturbed
<1> SUFFICES ASSUME NEW a \in Attempts, attempt[a].state = "running", Persistent(a),
                    dir[DirectoryOf(a)].kind # "link"
             PROVE  dir[DirectoryOf(a)].files = { a }
  BY DEF RunnerUndisturbed
<1>1. DirectoryOf(a) \in Directories /\ a \in dir[DirectoryOf(a)].files /\ Holds(a)
  BY LeaseInDirectories DEF IInv, RunnerHasFiles, Holds, Uncleaned
<1>2. ASSUME NEW b \in dir[DirectoryOf(a)].files
      PROVE  b = a
  <2>1. b \in Attempts /\ Holds(b) /\ Persistent(b) /\ DirectoryOf(b) = DirectoryOf(a)
    BY <1>1 DEF IInv, FilesOwned, TypeOK, Directory, Holds
  <2> QED BY <1>1, <2>1, SoleHolder
<1> QED BY <1>1, <1>2

\* As long as no two profiles launch in one root, no cleanup, however late and
\* from whichever loop's copy of a row, and no rollback, launch or job of another
\* touches the slot of a runner at work (clean_terminal_attempts,
\* select_persistent_workspace).  Two profiles of one repository may share a root,
\* and then it fails.
THEOREM RunnersApart == Spec /\ []RootsApart => []RunnerUndisturbed
<1>1. Init => RunnerHasFiles
  BY DEF Init, RunnerHasFiles, NoRow
<1>2. IInv /\ RootsApart /\ RunnerHasFiles /\ [Next]_vars => RunnerHasFiles'
  BY RunnerKept
<1>3. IInv /\ RootsApart /\ RunnerHasFiles => RunnerUndisturbed
  BY FilesAreItsOwn
<1> QED BY <1>1, <1>2, <1>3, Inductive, PTL DEF Spec

-----------------------------------------------------------------------------
(* Roots nobody else names. *)

\* A setting, a request, a loop's copy and a lease are of a root its own profile
\* was given.
RootsGiven ==
    /\ \A p \in Policies : /\ stored[p] \in RootsOf[p] \cup { NoRoot, Removed }
                            /\ loaded[p] \in RootsOf[p] \cup { NoRoot, Removed }
                            /\ request[p] \in RootsOf[p] \cup { NoRoot, NoRequest }
    /\ \A a \in Attempts : Persistent(a) => attempt[a].root \in RootsOf[attempt[a].policy]

LEMMA SettingsGiven ==
    ASSUME RootsGiven, SameLeases,
           \A p \in Policies : /\ stored'[p] \in RootsOf[p] \cup { NoRoot, Removed }
                               /\ loaded'[p] \in RootsOf[p] \cup { NoRoot, Removed }
                               /\ request'[p] \in RootsOf[p] \cup { NoRoot, NoRequest }
    PROVE  RootsGiven'
BY DEF RootsGiven, SameLeases, Persistent

LEMMA LeasesGiven ==
    ASSUME RootsGiven, SameLeases, UNCHANGED <<stored, loaded, request>>
    PROVE  RootsGiven'
BY SettingsGiven DEF RootsGiven

LEMMA OperatorGives ==
    ASSUME IInv, RootsGiven, Operator
    PROVE  RootsGiven'
<1>1. ASSUME NEW p \in Policies, NEW workspace \in RootsOf[p] \cup { NoRoot }, RequestChange(p, workspace)
      PROVE  RootsGiven'
  BY <1>1, SettingsGiven, LeasesUnchanged DEF RequestChange, RootsGiven, IInv, TypeOK
<1>2. ASSUME NEW p \in Policies, CommitChange(p)
      PROVE  RootsGiven'
  BY <1>2, SettingsGiven, LeasesUnchanged DEF CommitChange, RootsGiven, IInv, TypeOK
<1>3. ASSUME NEW p \in Policies, RemovePolicy(p)
      PROVE  RootsGiven'
  BY <1>3, SettingsGiven, LeasesUnchanged DEF RemovePolicy, RootsGiven, IInv, TypeOK
<1>4. ASSUME NEW d \in Directories, RemoveByHand(d)
      PROVE  RootsGiven'
  BY <1>4, LeasesGiven, LeasesUnchanged DEF RemoveByHand
<1> QED BY <1>1, <1>2, <1>3, <1>4 DEF Operator

LEMMA AllocateGives ==
    ASSUME IInv, RootsGiven, NEW a \in Attempts, NEW p \in Policies, Allocate(a, p)
    PROVE  RootsGiven'
<1>1. PICK root, slot : root \in RootsOf[p] \cup { NoRoot } /\ Allocated(a, p, root, slot)
  <2>1. loaded[p] \in RootsOf[p] \cup { NoRoot }
    BY DEF Allocate, RootsGiven
  <2> QED BY <2>1 DEF Allocate
<1> DEFINE row == [ state |-> "allocated", policy |-> p, root |-> root, slot |-> slot,
                    current |-> Agrees(p, root) ]
<1>2. attempt' = [ attempt EXCEPT ![a] = row ] /\ row.policy = p /\ row.root = root
  BY <1>1 DEF Allocated
<1> HIDE DEF row
<1>3. attempt'[a] = row /\ \A b \in Attempts : b # a => attempt'[b] = attempt[b]
  BY <1>2 DEF IInv, TypeOK
<1>4. UNCHANGED <<stored, loaded, request>>
  BY DEF Allocate
<1>5. root \in RootsOf[p] \cup { NoRoot }
  BY <1>1
<1> QED BY <1>2, <1>3, <1>4, <1>5 DEF RootsGiven, Persistent

LEMMA CleanupGives ==
    ASSUME IInv, RootsGiven, NEW a \in Attempts, Clean(a) \/ CleanHalfway(a),
           UNCHANGED <<stored, loaded, request>>
    PROVE  RootsGiven'
<1>1. SameLeases
  <2>1. CASE Clean(a)
    <3>1. "cleaned" \in States /\ Becomes(a, "cleaned") /\ TypeOK
      BY <2>1 DEF States, Clean, IInv
    <3> QED BY <3>1, BecomesTyped
  <2>2. CASE CleanHalfway(a)
    BY <2>2, LeasesUnchanged DEF CleanHalfway
  <2> QED BY <2>1, <2>2
<1> QED BY <1>1, LeasesGiven

LEMMA PassGives ==
    ASSUME IInv, RootsGiven, NEW t \in Repositories, Pass(t)
    PROVE  RootsGiven'
<1>1. CASE BeginPass(t)
  <2>1. loaded' = Refreshed(t) /\ UNCHANGED <<stored, attempt, request>>
    BY <1>1 DEF BeginPass
  <2> QED BY <2>1, SettingsGiven, LeasesUnchanged DEF Refreshed, RootsGiven
<1>2. ASSUME NEW a \in Attempts, Conclude(a)
      PROVE  RootsGiven'
  <2>1. "concluded" \in States /\ Becomes(a, "concluded") /\ UNCHANGED <<stored, loaded, request>>
    BY <1>2 DEF States, Conclude
  <2> QED BY <2>1, BecomesTyped, LeasesGiven DEF IInv
<1>3. ASSUME NEW a \in Attempts, CleanCopy(a) \/ Sweep(t, a)
      PROVE  RootsGiven'
  BY <1>3, CleanupGives DEF CleanCopy, Sweep
<1>4. CASE UNCHANGED <<stored, attempt, loaded, request>>
  BY <1>4, LeasesGiven, LeasesUnchanged
<1> QED BY <1>1, <1>2, <1>3, <1>4
        DEF Pass, Visit, PoliciesOf, EndSupervision, EndSweep, EndPass, Supervise, PassOver

LEMMA RootsGivenKept == IInv /\ RootsGiven /\ [Next]_vars => RootsGiven'
<1> SUFFICES ASSUME IInv, RootsGiven, [Next]_vars
             PROVE  RootsGiven'
  OBVIOUS
<1>1. CASE UNCHANGED <<stored, attempt, loaded, request>>
  BY <1>1, LeasesGiven, LeasesUnchanged
<1>2. CASE NewGeneration /\ UNCHANGED <<stored, attempt, request>>
  BY <1>2, SettingsGiven, LeasesUnchanged DEF NewGeneration, RootsGiven
<1>3. CASE LaunchFails \/ Start
  <2>1. PICK s \in States : Becomes(launching, s) /\ launching \in Attempts
    BY <1>3, LaunchingTyped DEF LaunchFails, Start, States
  <2> QED BY <1>3, <2>1, BecomesTyped, LeasesGiven DEF LaunchFails, Start, IInv
<1>4. CASE Next
  <2>1. \A a \in Attempts : Job(a) => UNCHANGED <<stored, attempt, loaded, request>>
    BY DEF Job
  <2>2. Materialize \/ WatchPolicySet => UNCHANGED <<stored, attempt, loaded, request>>
    BY DEF Materialize, WatchPolicySet
  <2>3. Reload \/ Restart => NewGeneration /\ UNCHANGED <<stored, attempt, request>>
    BY DEF Reload, Restart
  <2> QED BY <1>1, <1>2, <1>3, <1>4, <2>1, <2>2, <2>3, OperatorGives, PassGives, AllocateGives
          DEF Next, Launch
<1> QED BY <1>1, <1>4 DEF vars

\* Profiles whose operators name roots of their own share none, whatever their
\* ceiling, their loops, the changes of their settings and the generations of the
\* daemon: no runner at work is disturbed.
THEOREM DisjointRootsApart ==
    ASSUME \A p, q \in Policies : p # q => RootsOf[p] \cap RootsOf[q] = {}
    PROVE  Spec => []RunnerUndisturbed
<1>1. Init => RootsGiven
  BY DEF Init, RootsGiven, Persistent, NoRow
<1>2. IInv /\ RootsGiven => RootsApart
  BY DEF IInv, Journalled, RootsGiven, RootsApart
<1> QED BY <1>1, <1>2, RootsGivenKept, RunnersApart, Inductive, PTL DEF Spec
==============================================================================
