------------------------------ MODULE HostMap ------------------------------
(***************************************************************************)
(* The map of hosts each instance holds (src/internal/tenancy/tenancy.go): *)
(* read when there is none or it is older than TTL, forgotten by           *)
(* Invalidate, and stored by every load that ends, with no lock held       *)
(* between the reading and the storing.  A map is the number of changes    *)
(* made to the hosts before it was read.                                   *)
(***************************************************************************)
EXTENDS Clock

CONSTANTS
  Requests,     \* resolutions at once
  TTL,          \* ticks a map is trusted
  MaxLoad,      \* ticks a load takes, at most
  MaxChanges,   \* changes to the hosts
  NoMap         \* no map is held

ASSUME HostMapAssumption ==
  /\ TTL \in Nat /\ MaxLoad \in Nat /\ MaxChanges \in Nat
  /\ NoMap \notin Nat

VARIABLES
  changes,    \* changes made to the hosts so far
  ended,      \* when each map but the last stopped being true
  held,       \* the map held
  loadedAt,   \* when it was stored
  request,    \* each resolution: where it is, since when, the map it read
  atOnce      \* the map a change on this instance promised, if no load was under way

hostVars == <<changes, ended, held, loadedAt, request, atOnce>>

Resolving == [at : {"idle", "loading", "read"}, since : Nat, map : Nat]

HostMapInit ==
  /\ changes = 0
  /\ ended = << >>
  /\ held = NoMap /\ loadedAt = 0
  /\ request = [r \in Requests |-> [at |-> "idle", since |-> 0, map |-> 0]]
  /\ atOnce = 0

Trusted == held # NoMap /\ now - loadedAt < TTL

\* The map held answers at once: nothing changes.  Otherwise the hosts are read.
Load(r) ==
  /\ request[r].at = "idle" /\ ~Trusted
  /\ request' = [request EXCEPT ![r] = [at |-> "loading", since |-> now, map |-> 0]]
  /\ UNCHANGED <<now, changes, ended, held, loadedAt, atOnce>>

\* The query sees the hosts as they are.
Read(r) ==
  /\ request[r].at = "loading"
  /\ request' = [request EXCEPT ![r].at = "read", ![r].map = changes]
  /\ UNCHANGED <<now, changes, ended, held, loadedAt, atOnce>>

\* The map read is stored, over whatever was stored meanwhile, and answers.
Stored(r) ==
  /\ request[r].at = "read"
  /\ held' = request[r].map /\ loadedAt' = now
  /\ request' = [request EXCEPT ![r].at = "idle"]
  /\ UNCHANGED <<now, changes, ended, atOnce>>

\* The hosts could not be read: the request is answered 503, and nothing is kept.
LoadFails(r) ==
  /\ request[r].at = "loading"
  /\ request' = [request EXCEPT ![r].at = "idle"]
  /\ UNCHANGED <<now, changes, ended, held, loadedAt, atOnce>>

Changed ==
  /\ changes < MaxChanges
  /\ changes' = changes + 1
  /\ ended' = [m \in DOMAIN ended \union {changes} |-> IF m = changes THEN now ELSE ended[m]]

\* Another instance, or a person at the database, changes the hosts.
ChangeElsewhere == Changed /\ UNCHANGED <<now, held, loadedAt, request, atOnce>>

\* This instance changes them, and leaves the map to its timer.
ChangeHere_Waits ==
  /\ Changed
  /\ atOnce' = IF \A r \in Requests : request[r].at = "idle" THEN changes' ELSE 0
  /\ UNCHANGED <<now, request, held, loadedAt>>

\* This instance changes them, and invalidates.
ChangeHere ==
  /\ Changed
  /\ held' = NoMap /\ loadedAt' = 0
  /\ atOnce' = IF \A r \in Requests : request[r].at = "idle" THEN changes' ELSE 0
  /\ UNCHANGED <<now, request>>

HostTick ==
  /\ Passes
  /\ \A r \in Requests : request[r].at # "idle" => now - request[r].since < MaxLoad
  /\ UNCHANGED hostVars

HostMapNext ==
  \/ HostTick \/ ChangeElsewhere \/ ChangeHere
  \/ \E r \in Requests : Load(r) \/ Read(r) \/ Stored(r) \/ LoadFails(r)

HostMapSpec == now = 0 /\ HostMapInit /\ [][HostMapNext]_<<now, hostVars>>

\* A map that answers was true less than TTL and one load ago, whatever loads
\* overlapped and in whichever order they ended.
NeverTooOld ==
  Trusted => held \notin DOMAIN ended \/ now - ended[held] < TTL + MaxLoad

\* After a change made here with no load under way, nothing older answers here.
AnswersAtOnce == Trusted => held >= atOnce

HostsFresh == NeverTooOld /\ AnswersAtOnce
=============================================================================
