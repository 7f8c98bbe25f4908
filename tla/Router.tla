-------------------------------- MODULE Router --------------------------------
(***************************************************************************)
(* How a name becomes a backend, and how that changes while requests run:  *)
(* the boot of mlxd and the hot reload of its configuration (cmd/mlxd),    *)
(* the router's registry and its request handler (internal/router), and    *)
(* the view that the admin handlers have of the same backends              *)
(* (internal/admin).                                                       *)
(*                                                                         *)
(* A slot is what SlotSpec says it is: EnsureLoaded holds g.mu, so here it *)
(* is one step that loads the member or fails.  Each method of the         *)
(* registry is one step under the registry's own lock; the live.mu of a    *)
(* reload does not keep requests out.                                      *)
(*                                                                         *)
(* An entry of the configuration is its name, its mode, its slot and its   *)
(* default flag; the other keys do not matter here.  A list of backends is *)
(* a set, for the order only matters if two backends have one name, which  *)
(* NamingAssumption rules out.                                             *)
(***************************************************************************)
EXTENDS Naturals, Sequences, FiniteSetsExt

CONSTANTS
  Names,      \* of entries and slots, and in requests, as they are written
  Canon,      \* canon: the lower-case form of each name
  Files,      \* what may be in the configuration file
  NoName,     \* ""
  NoBackend,  \* nil
  Clients,    \* goroutines of HTTP requests
  Reloads,    \* goroutines of the admin API's reload
  Free        \* live.mu is not held

EntriesOf(f) == {f[i] : i \in 1..Len(f)}
Entries == UNION {EntriesOf(f) : f \in Files}
SwapEntries == {e \in Entries : e.mode = "swap"}

Keys == {Canon[n] : n \in Names}
Slot(g) == <<"slot", g>>
External(n) == <<"external", n>>
Backends == {"slot", "external"} \X Names

ASSUME RouterAssumption ==
  /\ Canon \in [Names -> Names]
  /\ \A n \in Names : Canon[Canon[n]] = Canon[n]
  /\ NoName \notin Names
  /\ NoBackend \notin Backends
  /\ Files \subseteq Seq([name : Names, mode : {"swap", "external"}, slot : Names,
                          default : BOOLEAN])
  /\ Clients \cap Reloads = {}
  /\ Free \notin Reloads

(***************************************************************************)
(* What Validate does not ask for: names that differ do not differ in case *)
(* only; an entry with the name of a slot is a member of that slot; and an *)
(* entry whose name is not in lower case is not edited (a reload takes it  *)
(* for a new one each time, for it looks for the name as it is written     *)
(* among the registry's lower-case names).                                 *)
(***************************************************************************)
ASSUME NamingAssumption ==
  /\ \A e, d \in Entries : Canon[e.name] = Canon[d.name] =>
       /\ e.name = d.name
       /\ e.name # Canon[e.name] => e.mode = d.mode /\ e.slot = d.slot
  /\ \A e, d \in SwapEntries : Canon[e.slot] = Canon[d.slot] => e.slot = d.slot
  /\ \A e \in Entries, d \in SwapEntries : Canon[e.name] = Canon[d.slot] =>
       e.mode = "swap" /\ e.slot = d.slot /\ e.name = d.slot

VARIABLES
  file,        \* the configuration file
  live,        \* live.mu: the reload that holds it, or Free
  members,     \* of each slot; none if there is no such slot
  default,     \* the default member of each slot
  registry,    \* Registry.byName
  backends,    \* live.backends
  aliases,     \* live.aliases: the slot of a member's name
  seen,        \* Handlers.backends
  published,   \* Handlers.aliases, unless it is live.aliases itself:
  shared,      \* it is, from the boot to the first reload
  loaded,      \* the loaded member of each slot
  pc,          \* where each goroutine is
  asked,       \* the name in a client's request
  at,          \* the backend it was resolved to
  cfg,         \* the configuration a reload has read
  todo         \* the entries it has still to add, by their places in cfg

liveVars == <<members, default, registry, backends, aliases>>
viewVars == <<seen, published, shared>>
clientVars == <<loaded, asked, at>>
reloadVars == <<cfg, todo>>
vars == <<file, live, members, default, registry, backends, aliases, seen, published,
          shared, loaded, pc, asked, at, cfg, todo>>

TypeOK ==
  /\ file \in Files
  /\ live \in Reloads \cup {Free}
  /\ members \in [Names -> SUBSET Names]
  /\ default \in [Names -> Names \cup {NoName}]
  /\ registry \in [Keys -> Backends \cup {NoBackend}]
  /\ backends \subseteq Backends
  /\ aliases \in [Names -> Names \cup {NoName}]
  /\ seen \subseteq Backends
  /\ published \in [Names -> Names \cup {NoName}]
  /\ shared \in BOOLEAN
  /\ loaded \in [Names -> Names \cup {NoName}]
  /\ pc \in [Clients \cup Reloads ->
               {"idle", "request", "start", "proxy", "lock", "add", "alias"}]
  /\ asked \in [Clients -> Names \cup {NoName}]
  /\ at \in [Clients -> Backends \cup {NoBackend}]
  /\ \A c \in Clients : at[c] = NoBackend <=> pc[c] = "idle"
  /\ cfg \in [Reloads -> Files \cup {<<>>}]
  /\ todo \in [Reloads -> SUBSET Nat]

-----------------------------------------------------------------------------
(* The configuration *)

\* Validate: names are unique, and a slot has at most one default.
Valid(f) ==
  /\ f # <<>>
  /\ \A i, j \in 1..Len(f) :
       \/ i = j
       \/ /\ f[i].name # f[j].name
          /\ ~(f[i].mode = "swap" /\ f[j].mode = "swap" /\ f[i].slot = f[j].slot
               /\ f[i].default /\ f[j].default)

Swaps(f) == {e \in EntriesOf(f) : e.mode = "swap"}
MembersIn(f, g) == {e.name : e \in {d \in Swaps(f) : d.slot = g}}

\* newGroup: the one flagged default, else the first declared.
DefaultIn(f, g) ==
  LET ofSlot == {i \in 1..Len(f) : f[i].mode = "swap" /\ f[i].slot = g}
      flagged == {i \in ofSlot : f[i].default}
  IN  IF ofSlot = {} THEN NoName
      ELSE f[Min(IF flagged = {} THEN ofSlot ELSE flagged)].name

BackendOf(e) == IF e.mode = "swap" THEN Slot(e.slot) ELSE External(e.name)

\* What the registry holds after the boot: the backends by their own names,
\* then the members as aliases of their slots.
Registered(f, k) ==
  LET entries == {e \in EntriesOf(f) : Canon[e.name] = k}
      slots == {e \in Swaps(f) : Canon[e.slot] = k}
  IN  IF entries # {} THEN BackendOf(CHOOSE e \in entries : TRUE)
      ELSE IF slots # {} THEN Slot((CHOOSE e \in slots : TRUE).slot)
      ELSE NoBackend

\* Faulty: the slot's own name is enough.
NeverAlias(e) == FALSE

\* The member's name is not the slot's, and needs an alias.
NeedsAlias(e) == e.name # e.slot

AliasIn(f, n) ==
  LET entries == {e \in Swaps(f) : e.name = n /\ NeedsAlias(e)}
  IN  IF entries = {} THEN NoName ELSE (CHOOSE e \in entries : TRUE).slot

\* newRunCmd: mlxd starts.
Init ==
  /\ file \in {f \in Files : Valid(f)}
  /\ live = Free
  /\ members = [g \in Names |-> MembersIn(file, g)]
  /\ default = [g \in Names |-> DefaultIn(file, g)]
  /\ registry = [k \in Keys |-> Registered(file, k)]
  /\ backends = {BackendOf(e) : e \in EntriesOf(file)}
  /\ aliases = [n \in Names |-> AliasIn(file, n)]
  /\ seen = backends
  /\ published = [n \in Names |-> NoName]
  /\ shared = TRUE
  /\ loaded = [g \in Names |-> NoName]
  /\ pc = [t \in Clients \cup Reloads |-> "idle"]
  /\ asked = [c \in Clients |-> NoName]
  /\ at = [c \in Clients |-> NoBackend]
  /\ cfg = [r \in Reloads |-> <<>>]
  /\ todo = [r \in Reloads |-> {}]

\* mlxd dies and is started again, with what the file holds by now.  (This is
\* also what the Go runtime makes of a lookup in a map that another goroutine
\* is writing, as an admin request may do while aliases are shared.)
Restart ==
  /\ Valid(file)
  /\ UNCHANGED file
  /\ live' = Free
  /\ members' = [g \in Names |-> MembersIn(file, g)]
  /\ default' = [g \in Names |-> DefaultIn(file, g)]
  /\ registry' = [k \in Keys |-> Registered(file, k)]
  /\ backends' = {BackendOf(e) : e \in EntriesOf(file)}
  /\ aliases' = [n \in Names |-> AliasIn(file, n)]
  /\ seen' = backends'
  /\ published' = [n \in Names |-> NoName]
  /\ shared' = TRUE
  /\ loaded' = [g \in Names |-> NoName]
  /\ pc' = [t \in Clients \cup Reloads |-> "idle"]
  /\ asked' = [c \in Clients |-> NoName]
  /\ at' = [c \in Clients |-> NoBackend]
  /\ cfg' = [r \in Reloads |-> <<>>]
  /\ todo' = [r \in Reloads |-> {}]

\* The user, or mlxctl, writes the file.
Edit(f) ==
  /\ f # file
  /\ file' = f
  /\ UNCHANGED <<live, liveVars, viewVars, clientVars, pc, reloadVars>>

-----------------------------------------------------------------------------
(* reload *)

reloadFrame == <<file, viewVars, clientVars>>

Idle(r) ==
  /\ pc' = [pc EXCEPT ![r] = "idle"]
  /\ cfg' = [cfg EXCEPT ![r] = <<>>]
  /\ todo' = [todo EXCEPT ![r] = {}]

\* config.Load, before the lock: the file may change while the reload waits.
ReloadRead(r) ==
  /\ pc[r] = "idle"
  /\ Valid(file)
  /\ cfg' = [cfg EXCEPT ![r] = file]
  /\ pc' = [pc EXCEPT ![r] = "lock"]
  /\ UNCHANGED <<live, liveVars, reloadFrame, todo>>

\* diffNewBackends: an entry is new if its name, as it is written, is not one
\* of the registry's.
IsNew(e) == e.name \notin {k \in Keys : registry[k] # NoBackend}

ReloadEnter(r) ==
  /\ pc[r] = "lock"
  /\ live = Free
  /\ live' = r
  /\ todo' = [todo EXCEPT ![r] = {i \in 1..Len(cfg[r]) : IsNew(cfg[r][i])}]
  /\ pc' = [pc EXCEPT ![r] = "add"]
  /\ UNCHANGED <<liveVars, reloadFrame, cfg>>

\* Place i of cfg is the next one to add.
First(r, i) == i \in todo[r] /\ \A j \in todo[r] : i <= j

Done(r, i) == todo' = [todo EXCEPT ![r] = @ \ {i}]

ReloadExternal(r, i) ==
  LET e == cfg[r][i] IN
  /\ pc[r] = "add" /\ First(r, i)
  /\ e.mode = "external"
  /\ registry' = [registry EXCEPT ![Canon[e.name]] = External(e.name)]
  /\ backends' = backends \cup {External(e.name)}
  /\ Done(r, i)
  /\ UNCHANGED <<live, members, default, aliases, reloadFrame, pc, cfg>>

\* Faulty: the slot is not told.
NotJoined(g, n) == UNCHANGED members

\* AddMember: slot g learns of n.
Joined(g, n) == members' = [members EXCEPT ![g] = @ \cup {n}]

\* Faulty: a slot of the same name is not looked for.
NoSlotThere(g) == FALSE

\* live.groups has g.
SlotExists(g) == members[g] # {}

\* A member for a slot that exists; one it knows already is skipped.
ReloadMember(r, i) ==
  LET e == cfg[r][i] IN
  /\ pc[r] = "add" /\ First(r, i)
  /\ e.mode = "swap"
  /\ SlotExists(e.slot)
  /\ IF e.name \in members[e.slot]
     THEN /\ Done(r, i)
          /\ UNCHANGED <<members, pc>>
     ELSE /\ Joined(e.slot, e.name)
          /\ pc' = [pc EXCEPT ![r] = "alias"]
          /\ UNCHANGED todo
  /\ UNCHANGED <<live, default, registry, backends, aliases, reloadFrame, cfg>>

\* A member for a slot that does not: a new slot, with this one as its default.
ReloadSlot(r, i) ==
  LET e == cfg[r][i] IN
  /\ pc[r] = "add" /\ First(r, i)
  /\ e.mode = "swap"
  /\ ~SlotExists(e.slot)
  /\ members' = [members EXCEPT ![e.slot] = {e.name}]
  /\ default' = [default EXCEPT ![e.slot] = e.name]
  /\ registry' = [registry EXCEPT ![Canon[e.slot]] = Slot(e.slot)]
  /\ backends' = backends \cup {Slot(e.slot)}
  /\ IF NeedsAlias(e)
     THEN pc' = [pc EXCEPT ![r] = "alias"] /\ UNCHANGED todo
     ELSE Done(r, i) /\ UNCHANGED pc
  /\ UNCHANGED <<live, aliases, reloadFrame, cfg>>

\* Faulty: the alias is for the router only.
AliasUnrecorded(e) == UNCHANGED aliases

AliasRecorded(e) == aliases' = [aliases EXCEPT ![e.name] = e.slot]

\* RegisterAlias, and live.aliases.
ReloadAlias(r, i) ==
  LET e == cfg[r][i] IN
  /\ pc[r] = "alias" /\ First(r, i)
  /\ registry' = [registry EXCEPT ![Canon[e.name]] = Slot(e.slot)]
  /\ AliasRecorded(e)
  /\ Done(r, i)
  /\ pc' = [pc EXCEPT ![r] = "add"]
  /\ UNCHANGED <<live, members, default, backends, reloadFrame, cfg>>

\* SetState with copies of both, and the deferred unlock.
ReloadPublish(r) ==
  /\ pc[r] = "add"
  /\ todo[r] = {}
  /\ seen' = backends
  /\ published' = aliases
  /\ shared' = FALSE
  /\ live' = Free
  /\ Idle(r)
  /\ UNCHANGED <<file, liveVars, clientVars>>

-----------------------------------------------------------------------------
(* Requests *)

clientFrame == <<file, live, liveVars, viewVars, reloadVars>>

\* What byName looks into, first to last: the names of the backends, the
\* aliases, and both again without regard to case.
ByName(n) ==
  LET known == IF shared THEN aliases ELSE published
      named(m) == {b \in seen : b[2] = m}
      looks == <<named(n),
                 named(known[n]),
                 UNION {named(m) : m \in {m \in Names : Canon[m] = Canon[n]}},
                 UNION {named(known[m]) : m \in {m \in Names : Canon[m] = Canon[n]}}>>
      hits == {i \in 1..4 : looks[i] # {}}
  IN  IF hits = {} THEN {} ELSE looks[Min(hits)]

\* Faulty: whatever the lookup gives.
ResolveRaw(n) == {registry[Canon[n]]}

\* Registry.Resolve.
Resolve(n) == {registry[Canon[n]]} \ {NoBackend}

\* A request for name n: of the router, or of the admin API's start.  A name
\* that nobody knows is answered at once and changes nothing.
Arrive(c, n, step, found) ==
  /\ pc[c] = "idle"
  /\ \E b \in found : at' = [at EXCEPT ![c] = b]
  /\ asked' = [asked EXCEPT ![c] = n]
  /\ pc' = [pc EXCEPT ![c] = step]
  /\ UNCHANGED <<clientFrame, loaded>>

Request(c, n) == Arrive(c, n, "request", Resolve(n))
Start(c, n) == Arrive(c, n, "start", ByName(n))

\* The member that EnsureLoaded(n) of slot g is about.
Target(g, n) == IF n = g THEN default[g] ELSE n

Finish(c) ==
  /\ pc' = [pc EXCEPT ![c] = "idle"]
  /\ asked' = [asked EXCEPT ![c] = NoName]
  /\ at' = [at EXCEPT ![c] = NoBackend]

\* A start is done; a request is sent to the backend next.
Proceed(c) ==
  IF pc[c] = "request"
  THEN pc' = [pc EXCEPT ![c] = "proxy"] /\ UNCHANGED <<asked, at>>
  ELSE Finish(c)

\* EnsureLoaded of an external backend does nothing.
PassExternal(c) ==
  /\ pc[c] \in {"request", "start"}
  /\ at[c][1] = "external"
  /\ Proceed(c)
  /\ UNCHANGED <<clientFrame, loaded>>

Load(c) ==
  LET g == at[c][2] IN
  /\ pc[c] \in {"request", "start"}
  /\ at[c][1] = "slot"
  /\ Target(g, asked[c]) \in members[g]
  /\ loaded' = [loaded EXCEPT ![g] = Target(g, asked[c])]
  /\ Proceed(c)
  /\ UNCHANGED clientFrame

\* ... or the load fails, before or after the old worker is gone.
LoadErr(c) ==
  LET g == at[c][2] IN
  /\ pc[c] \in {"request", "start"}
  /\ at[c][1] = "slot"
  /\ Target(g, asked[c]) \in members[g]
  /\ loaded' \in {loaded, [loaded EXCEPT ![g] = NoName]}
  /\ Finish(c)
  /\ UNCHANGED clientFrame

\* The slot has no such member.
Refused(c) ==
  /\ pc[c] \in {"request", "start"}
  /\ at[c][1] = "slot"
  /\ Target(at[c][2], asked[c]) \notin members[at[c][2]]
  /\ Finish(c)
  /\ UNCHANGED <<clientFrame, loaded>>

\* UpstreamModel and ProxyJSON: the request goes to whatever is loaded now.
Proxy(c) ==
  /\ pc[c] = "proxy"
  /\ Finish(c)
  /\ UNCHANGED <<clientFrame, loaded>>

\* A slot is emptied: its worker died, or a stop of the admin API.
Emptied(g) ==
  /\ loaded[g] # NoName
  /\ loaded' = [loaded EXCEPT ![g] = NoName]
  /\ UNCHANGED <<clientFrame, pc, asked, at>>

-----------------------------------------------------------------------------
ReloadStep(r) ==
  \/ ReloadRead(r) \/ ReloadEnter(r) \/ ReloadPublish(r)
  \/ \E i \in todo[r] :
       ReloadExternal(r, i) \/ ReloadMember(r, i) \/ ReloadSlot(r, i) \/ ReloadAlias(r, i)

ClientStep(c) ==
  \/ \E n \in Names : Request(c, n) \/ Start(c, n)
  \/ PassExternal(c) \/ Load(c) \/ LoadErr(c) \/ Refused(c) \/ Proxy(c)

Next ==
  \/ \E r \in Reloads : ReloadStep(r)
  \/ \E c \in Clients : ClientStep(c)
  \/ \E g \in Names : Emptied(g)
  \/ \E f \in Files : Edit(f)
  \/ Restart

Spec == Init /\ [][Next]_vars

-----------------------------------------------------------------------------
(* Properties *)

\* live.go:141 ("Removed or edited entries are ignored until a restart"): as
\* long as mlxd runs, a name that can be resolved keeps its backend, a slot
\* keeps its members and its default, whatever the file says by now, and
\* whichever version of it each of several reloads has read.
Additive ==
  [][Restart \/
     /\ \A k \in Keys : registry[k] # NoBackend => registry'[k] = registry[k]
     /\ \A g \in Names : members[g] \subseteq members'[g]
     /\ \A g \in Names : default[g] # NoName => default'[g] = default[g]]_vars

\* The names a configuration uses, as it writes them.
Written == {e.name : e \in Entries} \cup {e.slot : e \in SwapEntries}

\* A request that has been resolved is never told by the slot that it has no
\* such member, although reloads go on between the two: a slot knows a member
\* before anybody can resolve its name.  (For names as they are written in the
\* configuration: the slots do mind the case that the registry does not.)
Recognised ==
  \A c \in Clients :
    pc[c] \in {"request", "start"} /\ at[c][1] = "slot" /\ asked[c] \in Written
    => Target(at[c][2], asked[c]) \in members[at[c][2]]

\* Whenever no reload is at work, the admin API and the router agree on every
\* name, in any case: what can be requested can be started and stopped.
AdminAgrees ==
  live = Free => \A n \in Names : ByName(n) = Resolve(n)

\* A reload that succeeds leaves no entry of the file it has read without a
\* backend, however many others ran between its reading and its end.
ReloadCovers ==
  [][\A r \in Reloads : pc[r] = "add" /\ pc'[r] = "idle" /\ ~Restart =>
       \A e \in EntriesOf(cfg[r]) : registry'[Canon[e.name]] # NoBackend]_vars

\* README.md:41 ("the request's `model` field picks the active member"): a
\* request that is sent to a slot is not sent to another member than the one it
\* asked for.
AskedIsServed ==
  [][\A c \in Clients : Proxy(c) /\ at[c][1] = "slot" =>
       loaded[at[c][2]] \in {Target(at[c][2], asked[c]), NoName}]_vars
=============================================================================
