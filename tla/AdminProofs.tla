----------------------------- MODULE AdminProofs -----------------------------
(***************************************************************************)
(* The admin API and the router look a name up in different places: byName *)
(* in a list of backends and a map of aliases, in four passes, Resolve in  *)
(* one map.  Mirror says what one reload leaves in all of them at each of  *)
(* its steps, InStep what the handlers' copies are when no reload is at    *)
(* work; together they give every look of byName the registry's answer.    *)
(***************************************************************************)
EXTENDS RouterProofs

InStep == live = Free => seen = backends /\ Known = aliases

\* Each entry of the list and of the aliases is the registry's, and the registry
\* has no other; every slot is listed.
ListMirrors == \A b \in backends : registry[Canon[b[2]]] = b

AliasMirrors ==
  \A n \in Names : aliases[n] # NoName =>
    registry[Canon[n]] = Slot(aliases[n]) /\ Slot(aliases[n]) \in backends

NothingElse ==
  \A k \in Keys : registry[k] # NoBackend =>
    \/ registry[k] \in backends /\ Canon[registry[k][2]] = k
    \/ \E n \in Names : Canon[n] = k /\ aliases[n] # NoName

SlotsListed == \A g \in Names : members[g] # {} => Slot(g) \in backends

Mirror == ListMirrors /\ AliasMirrors /\ NothingElse /\ SlotsListed

AdminInv == RouterInv /\ InStep /\ Mirror

-----------------------------------------------------------------------------
(* The two lookups *)

\* With copies that are in step, each of byName's looks finds nothing, or what
\* the registry has; and one of them finds what the registry has.
LEMMA LooksAgree ==
  ASSUME TypeOK, Mirror, seen = backends, Known = aliases, NEW n \in Names
  PROVE  ByName(n) = Resolve(n)
<1> DEFINE named(m) == {x \in seen : x[2] = m}
           alike == {m \in Names : Canon[m] = Canon[n]}
           looks == <<named(n), named(Known[n]), UNION {named(m) : m \in alike},
                      UNION {named(Known[m]) : m \in alike}>>
           hits == {i \in 1..4 : looks[i] # {}}
           there == registry[Canon[n]]
<1>1. Canon[n] \in Keys /\ there \in Backends \cup {NoBackend} /\ NoBackend \notin Backends
  BY EntryFacts, RouterAssumption DEF TypeOK
<1>2. \A x \in seen : x \in Backends /\ x[2] \in Names /\ registry[Canon[x[2]]] = x
  BY BackendFacts DEF TypeOK, Mirror, ListMirrors
<1>3. \A m \in Names : aliases[m] \in Names \cup {NoName}
  BY DEF TypeOK
<1>4. \A m \in alike : named(m) \subseteq {there}
  BY <1>2
<1>5. \A m \in alike : Known[m] # NoName =>
        there = Slot(Known[m]) /\ there \in named(Known[m]) /\ named(Known[m]) = {there}
  <2> SUFFICES ASSUME NEW m \in alike, Known[m] # NoName
               PROVE  there = Slot(Known[m]) /\ there \in named(Known[m]) /\ named(Known[m]) = {there}
    OBVIOUS
  <2>1. there = Slot(Known[m]) /\ there \in seen /\ Known[m] \in Names
    BY <1>3 DEF Mirror, AliasMirrors
  <2>2. there[2] = Known[m] /\ registry[Canon[Known[m]]] = there
    BY <1>2, <2>1, BackendFacts
  <2>3. \A x \in seen : x[2] = Known[m] => x = there
    BY <1>2, <2>2
  <2> QED
    BY <2>1, <2>2, <2>3
<1>6. \A m \in alike : Known[m] = NoName => named(Known[m]) = {}
  BY <1>2, RouterAssumption
<1>7. \A m \in alike : named(Known[m]) \subseteq {there}
  BY <1>5, <1>6
<1>8. n \in alike
  OBVIOUS
<1>9. \A i \in 1..4 : looks[i] \subseteq {there}
  <2> HIDE DEF named, alike
  <2>1. /\ looks[1] = named(n) /\ looks[2] = named(Known[n])
        /\ looks[3] = UNION {named(m) : m \in alike}
        /\ looks[4] = UNION {named(Known[m]) : m \in alike}
    OBVIOUS
  <2>2. /\ UNION {named(m) : m \in alike} \subseteq {there}
        /\ UNION {named(Known[m]) : m \in alike} \subseteq {there}
    BY <1>4, <1>7
  <2> HIDE DEF looks
  <2>3. \A i \in 1..4 : i = 1 \/ i = 2 \/ i = 3 \/ i = 4
    OBVIOUS
  <2> QED
    BY <1>4, <1>7, <1>8, <2>1, <2>2, <2>3
<1>10. \A i \in 1..4 : looks[i] # {} => looks[i] = {there} /\ there \in seen
  <2>1. \A i \in 1..4 : looks[i] \subseteq seen
    <3> HIDE DEF alike
    <3>1. \A m : named(m) \subseteq seen
      OBVIOUS
    <3> HIDE DEF named
    <3>2. /\ looks[1] = named(n) /\ looks[2] = named(Known[n])
          /\ looks[3] = UNION {named(m) : m \in alike}
          /\ looks[4] = UNION {named(Known[m]) : m \in alike}
      OBVIOUS
    <3> HIDE DEF looks
    <3>3. \A i \in 1..4 : i = 1 \/ i = 2 \/ i = 3 \/ i = 4
      OBVIOUS
    <3> QED
      BY <3>1, <3>2, <3>3
  <2> HIDE DEF looks
  <2> QED
    BY <1>9, <2>1
<1>11. ASSUME there # NoBackend PROVE hits # {}
  <2>1. CASE there \in backends /\ Canon[there[2]] = Canon[n]
    <3>1. there[2] \in alike /\ there \in named(there[2])
      BY <1>2, <2>1
    <3>2. looks[3] # {}
      BY <3>1
    <3> HIDE DEF looks
    <3> QED
      BY <3>2
  <2>2. CASE \E m \in Names : Canon[m] = Canon[n] /\ aliases[m] # NoName
    <3>1. PICK m \in alike : Known[m] # NoName
      BY <2>2
    <3>2. there \in named(Known[m])
      BY <1>5, <3>1
    <3> HIDE DEF named, alike
    <3>3. looks[4] # {}
      BY <3>2
    <3> HIDE DEF looks
    <3> QED
      BY <3>3
  <2> QED
    BY <1>1, <1>11, <2>1, <2>2 DEF Mirror, NothingElse
<1>12. hits # {} => Min(hits) \in hits
  <2>1. hits \in SUBSET Nat
    OBVIOUS
  <2> HIDE DEF hits
  <2> QED
    BY <2>1, MinIsLeast
<1>13. ByName(n) = IF hits = {} THEN {} ELSE looks[Min(hits)]
  BY DEF ByName, Known
<1>14. CASE hits = {}
  <2>1. there = NoBackend
    BY <1>11, <1>14
  <2> QED
    BY <1>13, <1>14, <2>1 DEF Resolve
<1>15. CASE hits # {}
  <2>1. Min(hits) \in 1..4 /\ looks[Min(hits)] # {}
    BY <1>12, <1>15
  <2>2. ByName(n) = {there} /\ there \in seen
    <3> HIDE DEF looks, hits
    <3> QED
      BY <1>10, <1>13, <1>15, <2>1
  <2>3. there # NoBackend
    BY <1>1, <1>2, <2>2
  <2> QED
    BY <2>2, <2>3 DEF Resolve
<1> QED
  BY <1>14, <1>15

-----------------------------------------------------------------------------
(* The boot *)

\* Two entries of one valid configuration whose names differ in case only are one.
LEMMA OneEntry ==
  ASSUME NEW f \in Files, Valid(f), NEW d \in EntriesOf(f), NEW e \in EntriesOf(f),
         Canon[d.name] = Canon[e.name]
  PROVE  d = e
<1>1. PICK i \in 1..Len(f), j \in 1..Len(f) : d = f[i] /\ e = f[j]
  BY DEF EntriesOf
<1>2. d \in Entries /\ e \in Entries
  BY DEF Entries
<1>3. f[i].name = f[j].name
  BY <1>1, <1>2, NamingAssumption
<1> QED
  BY <1>1, <1>3 DEF Valid

LEMMA InitMirror == Init => InStep /\ Mirror
<1> SUFFICES ASSUME Init PROVE InStep /\ Mirror
  OBVIOUS
<1>1. file \in Files /\ Valid(file) /\ EntriesOf(file) \subseteq Entries
  BY DEF Init, Entries
<1>2. \A e \in EntriesOf(file) : /\ e \in Entries
                                 /\ e.name \in Names /\ e.slot \in Names
                                 /\ Canon[e.name] \in Keys /\ Canon[e.slot] \in Keys
                                 /\ e.mode = "swap" => e \in Swaps(file)
  BY <1>1, EntryFacts DEF Swaps
<1>3. \A e \in Swaps(file) : e \in EntriesOf(file) /\ e \in SwapEntries /\ BackendOf(e) = Slot(e.slot)
  BY <1>1 DEF Swaps, SwapEntries, BackendOf
<1>4. InStep
  BY DEF Init, InStep, Known
\* The name of an entry is its backend's.
<1>5. ASSUME NEW e \in EntriesOf(file) PROVE registry[Canon[e.name]] = BackendOf(e)
  <2> DEFINE es == {d \in EntriesOf(file) : Canon[d.name] = Canon[e.name]}
  <2>1. es = {e}
    BY <1>1, OneEntry
  <2>2. registry[Canon[e.name]] = BackendOf(CHOOSE d \in es : TRUE)
    BY <1>2, <2>1 DEF Init, Registered
  <2> QED
    BY <2>1, <2>2
\* ... and the name of a slot is the slot's.
<1>6. ASSUME NEW e \in Swaps(file) PROVE registry[Canon[e.slot]] = Slot(e.slot)
  <2> DEFINE es == {d \in EntriesOf(file) : Canon[d.name] = Canon[e.slot]}
             ss == {d \in Swaps(file) : Canon[d.slot] = Canon[e.slot]}
  <2>1. registry[Canon[e.slot]] = Registered(file, Canon[e.slot])
    BY <1>2, <1>3 DEF Init
  <2>2. CASE es # {}
    <3>1. PICK d \in es : registry[Canon[e.slot]] = BackendOf(d)
      BY <2>1, <2>2 DEF Registered
    <3>2. d.mode = "swap" /\ d.slot = e.slot
      BY <1>2, <1>3, NamingAssumption
    <3> QED
      BY <3>1, <3>2 DEF BackendOf
  <2>3. CASE es = {}
    <3>1. e \in ss
      OBVIOUS
    <3>2. PICK d \in ss : registry[Canon[e.slot]] = Slot(d.slot)
      BY <2>1, <2>3, <3>1 DEF Registered
    <3>3. d.slot = e.slot
      BY <1>3, NamingAssumption
    <3> QED
      BY <3>2, <3>3
  <2> QED
    BY <2>2, <2>3
<1>7. ListMirrors
  <2> SUFFICES ASSUME NEW b \in backends PROVE registry[Canon[b[2]]] = b
    BY DEF ListMirrors
  <2>1. PICK e \in EntriesOf(file) : b = BackendOf(e)
    BY DEF Init
  <2>2. CASE e.mode = "swap"
    BY <1>2, <1>3, <1>6, <2>1, <2>2, BackendFacts
  <2>3. CASE e.mode # "swap"
    BY <1>2, <1>5, <2>1, <2>3, BackendFacts DEF BackendOf
  <2> QED
    BY <2>2, <2>3
<1>8. \A n \in Names : AliasIn(file, n) # NoName =>
        \E e \in Swaps(file) : e.name = n /\ e.slot = AliasIn(file, n)
  <2> TAKE n \in Names
  <2> DEFINE es == {e \in Swaps(file) : e.name = n /\ NeedsAlias(e)}
  <2>1. es # {} => AliasIn(file, n) = (CHOOSE e \in es : TRUE).slot
    BY DEF AliasIn
  <2>2. es = {} => AliasIn(file, n) = NoName
    BY DEF AliasIn
  <2> QED
    BY <2>1, <2>2
<1>9. AliasMirrors
  <2> SUFFICES ASSUME NEW n \in Names, aliases[n] # NoName
               PROVE  registry[Canon[n]] = Slot(aliases[n]) /\ Slot(aliases[n]) \in backends
    BY DEF AliasMirrors
  <2>1. aliases[n] = AliasIn(file, n)
    BY DEF Init
  <2>2. PICK e \in Swaps(file) : e.name = n /\ e.slot = aliases[n]
    BY <1>8, <2>1
  <2> QED
    BY <1>3, <1>5, <2>2 DEF Init
<1>10. ASSUME NEW e \in EntriesOf(file), e.mode = "swap", e.name # e.slot
       PROVE  aliases[e.name] # NoName
  <2> DEFINE es == {d \in Swaps(file) : d.name = e.name /\ NeedsAlias(d)}
  <2>1. e \in es
    BY <1>2, <1>10 DEF NeedsAlias
  <2>2. aliases[e.name] = (CHOOSE d \in es : TRUE).slot
    BY <1>2, <2>1 DEF Init, AliasIn
  <2>3. \A d \in es : d.slot \in Names
    BY <1>2, <1>3
  <2> QED
    BY <2>1, <2>2, <2>3, RouterAssumption
<1>11. NothingElse
  <2> SUFFICES ASSUME NEW k \in Keys, registry[k] # NoBackend
               PROVE  \/ registry[k] \in backends /\ Canon[registry[k][2]] = k
                      \/ \E n \in Names : Canon[n] = k /\ aliases[n] # NoName
    BY DEF NothingElse
  <2> DEFINE es == {e \in EntriesOf(file) : Canon[e.name] = k}
             ss == {e \in Swaps(file) : Canon[e.slot] = k}
  <2>1. registry[k] = Registered(file, k)
    BY DEF Init
  <2>2. CASE es # {}
    <3>1. PICK e \in es : registry[k] = BackendOf(e)
      BY <2>1, <2>2 DEF Registered
    <3>2. registry[k] \in backends
      BY <3>1 DEF Init
    <3>3. CASE e.mode = "swap" /\ e.name # e.slot
      BY <1>2, <1>10, <3>3
    <3>4. CASE e.mode = "swap" /\ e.name = e.slot
      BY <1>2, <1>3, <3>1, <3>2, <3>4, BackendFacts
    <3>5. CASE e.mode # "swap"
      BY <1>2, <3>1, <3>2, <3>5, BackendFacts DEF BackendOf
    <3> QED
      BY <3>3, <3>4, <3>5
  <2>3. CASE es = {} /\ ss # {}
    <3>1. PICK e \in ss : registry[k] = Slot(e.slot)
      BY <2>1, <2>3 DEF Registered
    <3>2. registry[k] \in backends
      BY <1>3, <3>1 DEF Init
    <3> QED
      BY <1>2, <1>3, <3>1, <3>2, BackendFacts
  <2> QED
    BY <2>1, <2>2, <2>3 DEF Registered
<1>12. SlotsListed
  <2> SUFFICES ASSUME NEW g \in Names, members[g] # {} PROVE Slot(g) \in backends
    BY DEF SlotsListed
  <2>1. PICK e \in Swaps(file) : e.slot = g
    BY DEF Init, MembersIn
  <2> QED
    BY <1>3, <2>1 DEF Init
<1> QED
  BY <1>4, <1>7, <1>9, <1>11, <1>12 DEF Mirror

-----------------------------------------------------------------------------
(* The steps of a reload *)

\* A name that had no backend, or this one, gets it: the backend's own name, or
\* that of an alias of a backend that is listed.
LEMMA MirrorGrows ==
  ASSUME TypeOK, Mirror, NEW b \in Backends, NEW k \in Keys, registry[k] \in {NoBackend, b},
         registry' = [registry EXCEPT ![k] = b], backends' = backends \cup {b},
         \/ k = Canon[b[2]] /\ aliases' = aliases
         \/ /\ b \in backends /\ b[1] = "slot"
            /\ \E n \in Names : Canon[n] = k /\ aliases' = [aliases EXCEPT ![n] = b[2]]
  PROVE  ListMirrors' /\ AliasMirrors' /\ NothingElse'
<1> USE DEF Mirror
<1>1. b \in Backends /\ b # NoBackend /\ b[2] \in Names /\ (b[1] = "slot" => b = Slot(b[2]))
  BY BackendFacts, RouterAssumption
<1>2. \A j \in Keys : registry'[j] = IF j = k THEN b ELSE registry[j]
  BY DEF TypeOK
<1>3. \A j \in Keys : registry[j] # NoBackend => registry'[j] = registry[j]
  BY <1>2
<1>4. \A x \in backends : x \in Backends /\ x[2] \in Names /\ Canon[x[2]] \in Keys /\ x # NoBackend
  BY BackendFacts, EntryFacts, RouterAssumption DEF TypeOK
<1>5. \A x \in backends : registry'[Canon[x[2]]] = x
  BY <1>3, <1>4 DEF ListMirrors
<1>6. ListMirrors'
  BY <1>2, <1>5 DEF ListMirrors
<1>7. \A n \in Names : aliases[n] # NoName =>
        registry'[Canon[n]] = Slot(aliases[n]) /\ Slot(aliases[n]) \in backends
  BY <1>3, <1>4, EntryFacts DEF AliasMirrors
<1>8. CASE k = Canon[b[2]] /\ aliases' = aliases
  <2>1. AliasMirrors'
    BY <1>7, <1>8 DEF AliasMirrors
  <2>2. NothingElse'
    BY <1>2, <1>8 DEF NothingElse
  <2> QED
    BY <1>6, <2>1, <2>2
<1>9. CASE \E n \in Names : /\ b \in backends /\ b[1] = "slot" /\ Canon[n] = k
                           /\ aliases' = [aliases EXCEPT ![n] = b[2]]
  <2>1. PICK n \in Names : /\ b \in backends /\ b[1] = "slot" /\ Canon[n] = k
                           /\ aliases' = [aliases EXCEPT ![n] = b[2]]
    BY <1>9
  <2>2. \A m \in Names : aliases'[m] = IF m = n THEN b[2] ELSE aliases[m]
    BY <2>1 DEF TypeOK
  <2>3. AliasMirrors'
    BY <1>1, <1>2, <1>7, <2>1, <2>2 DEF AliasMirrors
  <2>4. \A m \in Names : aliases[m] # NoName => aliases'[m] # NoName
    BY <1>1, <2>2, RouterAssumption
  <2>5. aliases'[n] # NoName
    BY <1>1, <2>2, RouterAssumption
  <2>6. ASSUME NEW j \in Keys, j # k, registry'[j] # NoBackend
        PROVE  \/ registry'[j] \in backends' /\ Canon[registry'[j][2]] = j
               \/ \E m \in Names : Canon[m] = j /\ aliases'[m] # NoName
    BY <1>2, <2>4, <2>6 DEF NothingElse
  <2>7. NothingElse'
    BY <2>1, <2>5, <2>6 DEF NothingElse
  <2> QED
    BY <1>6, <2>3, <2>7
<1> QED
  BY <1>8, <1>9

LEMMA ExternalMirrors ==
  ASSUME RouterInv, Mirror, NEW r \in Reloads, NEW i \in todo[r], ReloadExternal(r, i)
  PROVE  Mirror'
<1> USE DEF RouterInv
<1> DEFINE e == cfg[r][i]
<1>1. e \in Entries /\ e.name \in Names /\ Canon[e.name] \in Keys /\ e.mode = "external"
  BY EntryAt, EntryFacts DEF ReloadExternal
<1>2. live = r
  BY DEF ReloadExternal, Places
<1>3. registry[Canon[e.name]] \in {NoBackend, External(e.name)}
  BY <1>1, <1>2, EntryAt DEF Plan, PlanAt, BackendOf
<1>4. /\ registry' = [registry EXCEPT ![Canon[e.name]] = External(e.name)]
      /\ backends' = backends \cup {External(e.name)} /\ aliases' = aliases /\ members' = members
  BY DEF ReloadExternal
<1>5. External(e.name) \in Backends /\ External(e.name)[2] = e.name
  BY <1>1, BackendFacts
<1>6. ListMirrors' /\ AliasMirrors' /\ NothingElse'
  BY <1>1, <1>3, <1>4, <1>5, MirrorGrows
<1> QED
  BY <1>4, <1>6 DEF Mirror, SlotsListed

LEMMA MemberMirrors ==
  ASSUME RouterInv, Mirror, NEW r \in Reloads, NEW i \in todo[r], ReloadMember(r, i)
  PROVE  Mirror'
<1> USE DEF RouterInv
<1>1. cfg[r][i].slot \in Names /\ members[cfg[r][i].slot] # {}
  BY SwapAt DEF ReloadMember, SlotExists
<1>2. \A g \in Names : members'[g] # {} => members[g] # {}
  BY <1>1 DEF ReloadMember, Joined, TypeOK
<1>3. registry' = registry /\ backends' = backends /\ aliases' = aliases
  BY DEF ReloadMember
<1> QED
  BY <1>2, <1>3 DEF Mirror, ListMirrors, AliasMirrors, NothingElse, SlotsListed

LEMMA SlotMirrors ==
  ASSUME RouterInv, Mirror, NEW r \in Reloads, NEW i \in todo[r], ReloadSlot(r, i)
  PROVE  Mirror'
<1> USE DEF RouterInv
<1> DEFINE e == cfg[r][i]
<1>1. /\ e.slot \in Names /\ Canon[e.slot] \in Keys
      /\ registry[Canon[e.slot]] \in {NoBackend, Slot(e.slot)}
  BY SwapAt DEF ReloadSlot
<1>2. /\ registry' = [registry EXCEPT ![Canon[e.slot]] = Slot(e.slot)]
      /\ backends' = backends \cup {Slot(e.slot)} /\ aliases' = aliases
      /\ members' = [members EXCEPT ![e.slot] = {e.name}]
  BY DEF ReloadSlot
<1>3. Slot(e.slot) \in Backends /\ Slot(e.slot)[2] = e.slot
  BY <1>1, BackendFacts
<1>4. ListMirrors' /\ AliasMirrors' /\ NothingElse'
  BY <1>1, <1>2, <1>3, MirrorGrows
<1>5. SlotsListed'
  BY <1>1, <1>2 DEF Mirror, SlotsListed, TypeOK
<1> QED
  BY <1>4, <1>5 DEF Mirror

LEMMA AliasMirrored ==
  ASSUME RouterInv, Mirror, NEW r \in Reloads, NEW i \in todo[r], ReloadAlias(r, i)
  PROVE  Mirror'
<1> USE DEF RouterInv
<1> DEFINE e == cfg[r][i]
<1>1. e.mode = "swap" /\ e.name \in members[e.slot]
  <2>1. PICK j \in todo[r] :
          First(r, j) /\ cfg[r][j].mode = "swap" /\ cfg[r][j].name \in members[cfg[r][j].slot]
    BY DEF ReloadAlias, Plan, PlanAt
  <2>2. i \in Nat /\ j \in Nat
    BY DEF TypeOK
  <2>3. j = i
    BY <2>1, <2>2 DEF ReloadAlias, First
  <2> QED
    BY <2>1, <2>3
<1>2. /\ e.slot \in Names /\ e.name \in Names /\ Canon[e.name] \in Keys
      /\ registry[Canon[e.name]] \in {NoBackend, Slot(e.slot)}
  BY <1>1, SwapAt DEF ReloadAlias
<1>3. Slot(e.slot) \in Backends /\ Slot(e.slot)[2] = e.slot /\ Slot(e.slot)[1] = "slot"
  BY <1>2, BackendFacts
<1>4. Slot(e.slot) \in backends
  BY <1>1, <1>2 DEF Mirror, SlotsListed
<1>5. /\ registry' = [registry EXCEPT ![Canon[e.name]] = Slot(e.slot)]
      /\ aliases' = [aliases EXCEPT ![e.name] = e.slot]
      /\ backends' = backends /\ members' = members
  BY DEF ReloadAlias, AliasRecorded
<1>6. backends' = backends \cup {Slot(e.slot)}
  BY <1>4, <1>5
<1>7. ListMirrors' /\ AliasMirrors' /\ NothingElse'
  BY <1>2, <1>3, <1>4, <1>5, <1>6, MirrorGrows
<1> QED
  BY <1>5, <1>7 DEF Mirror, SlotsListed

-----------------------------------------------------------------------------
(* The invariant *)

\* Whoever changes the lists holds live.mu; who gives it back has made copies.
LEMMA StepsStayInStep ==
  ASSUME RouterInv, InStep, Mirror, [Next]_vars, ~Restart
  PROVE  InStep' /\ Mirror'
<1> USE DEF RouterInv
<1>1. ASSUME UNCHANGED <<live, members, registry, backends, aliases, seen, published, shared>>
      PROVE  InStep' /\ Mirror'
  BY <1>1 DEF InStep, Known, Mirror, ListMirrors, AliasMirrors, NothingElse, SlotsListed
<1>2. ASSUME NEW r \in Reloads, ReloadStep(r) PROVE InStep' /\ Mirror'
  <2>1. CASE ReloadRead(r)
    BY <1>1, <2>1 DEF ReloadRead, liveVars, reloadFrame, viewVars
  <2>2. CASE ReloadEnter(r)
    <3>1. live' = r /\ r # Free
      BY <2>2, RouterAssumption DEF ReloadEnter
    <3>2. UNCHANGED <<members, registry, backends, aliases>>
      BY <2>2 DEF ReloadEnter, liveVars
    <3> QED
      BY <3>1, <3>2 DEF InStep, Mirror, ListMirrors, AliasMirrors, NothingElse, SlotsListed
  <2>3. CASE ReloadPublish(r)
    <3>1. seen' = backends' /\ Known' = aliases'
      BY <2>3 DEF ReloadPublish, liveVars, Known
    <3>2. UNCHANGED <<members, registry, backends, aliases>>
      BY <2>3 DEF ReloadPublish, liveVars
    <3> QED
      BY <3>1, <3>2 DEF InStep, Mirror, ListMirrors, AliasMirrors, NothingElse, SlotsListed
  <2>4. ASSUME NEW i \in todo[r],
               ReloadExternal(r, i) \/ ReloadMember(r, i) \/ ReloadSlot(r, i) \/ ReloadAlias(r, i)
        PROVE  InStep' /\ Mirror'
    <3>1. live' = live /\ live # Free
      BY <2>4, RouterAssumption
      DEF ReloadExternal, ReloadMember, ReloadSlot, ReloadAlias, Places
    <3>2. Mirror'
      BY <2>4, ExternalMirrors, MemberMirrors, SlotMirrors, AliasMirrored
    <3> QED
      BY <3>1, <3>2 DEF InStep
  <2> QED
    BY <1>2, <2>1, <2>2, <2>3, <2>4 DEF ReloadStep
<1>3. ASSUME NEW c \in Clients, ClientStep(c) PROVE InStep' /\ Mirror'
  <2>1. UNCHANGED clientFrame
    BY <1>3 DEF ClientStep, Request, Start, Arrive, PassExternal, Load, LoadErr, Refused, Proxy
  <2> QED
    BY <1>1, <2>1 DEF clientFrame, liveVars, viewVars
<1>4. ASSUME NEW g \in Names, Emptied(g) PROVE InStep' /\ Mirror'
  BY <1>1, <1>4 DEF Emptied, clientFrame, liveVars, viewVars
<1>5. ASSUME NEW f \in Files, Edit(f) PROVE InStep' /\ Mirror'
  BY <1>1, <1>5 DEF Edit, liveVars, viewVars
<1>6. CASE UNCHANGED vars
  BY <1>1, <1>6 DEF vars
<1> QED
  BY <1>2, <1>3, <1>4, <1>5, <1>6 DEF Next

LEMMA AdminInvIsInductive == Spec => []AdminInv
<1>1. Init => AdminInv
  BY InitInv, InitMirror DEF AdminInv
<1>2. AdminInv /\ Restart => Init'
  BY RestartBoots DEF AdminInv, RouterInv
<1>3. AdminInv /\ [Next]_vars /\ ~Restart => AdminInv'
  BY StepGrows, StepsStayInStep DEF AdminInv
<1>4. AdminInv /\ [Next]_vars => AdminInv'
  BY <1>1, <1>2, <1>3, PTL
<1> QED
  BY <1>1, <1>4, PTL DEF Spec

\* When no reload is at work, the admin API and the router agree on every name,
\* however it is written: handlers.go:165 ("should resolve").
THEOREM AdminAgreesWithRouter == Spec => []AdminAgrees
<1>1. ASSUME AdminInv, live = Free, NEW n \in Names PROVE ByName(n) = Resolve(n)
  BY <1>1, LooksAgree DEF AdminInv, RouterInv, InStep
<1>2. AdminInv => AdminAgrees
  BY <1>1 DEF AdminAgrees
<1> QED
  BY <1>2, AdminInvIsInductive, PTL
=============================================================================
