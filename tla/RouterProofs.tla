----------------------------- MODULE RouterProofs -----------------------------
(***************************************************************************)
(* A name that mlxd has once resolved keeps its backend, whatever becomes  *)
(* of the configuration file, and a slot knows the members that requests   *)
(* are resolved to.  RouterInv is the inductive invariant: Provenance says *)
(* which entry each name of the registry comes from, and Plan what a       *)
(* reload may rely on between two of its steps, although it has read the   *)
(* registry once and for all when it began.                                *)
(***************************************************************************)
EXTENDS Router, WellFoundedInduction, TLAPS

Places ==
  /\ \A r \in Reloads : pc[r] \in {"idle", "lock", "add", "alias"}
  /\ \A c \in Clients : pc[c] \in {"idle", "request", "start", "proxy"}
  /\ \A r \in Reloads : live = r <=> pc[r] \in {"add", "alias"}

\* A slot's members are entries of some configuration; one of them is the default.
SlotInv ==
  \A g \in Names :
    /\ default[g] = NoName <=> members[g] = {}
    /\ members[g] # {} => default[g] \in members[g]
    /\ \A n \in members[g] : \E e \in SwapEntries : e.name = n /\ e.slot = g

\* Why b may be the registry's backend of key k.
Source(k, b) ==
  \/ \E e \in SwapEntries :
       Canon[e.name] = k /\ b = Slot(e.slot) /\ e.name \in members[e.slot]
  \/ \E e \in SwapEntries :
       Canon[e.slot] = k /\ b = Slot(e.slot) /\ members[e.slot] # {}
  \/ \E e \in Entries :
       e.mode = "external" /\ Canon[e.name] = k /\ b = External(e.name)

Provenance == \A k \in Keys : registry[k] # NoBackend => Source(k, registry[k])

AliasInv ==
  \A n \in Names :
    /\ aliases[n] # NoName => n \in members[aliases[n]]
    /\ published[n] # NoName => n \in members[published[n]]

Listed == \A g \in Names : Slot(g) \in backends \cup seen => members[g] # {}

\* A member can be resolved, or a reload is about to see to it.
Routed ==
  \A g \in Names : \A n \in members[g] :
    \/ registry[Canon[n]] # NoBackend
    \/ \E r \in Reloads :
         pc[r] = "alias" /\ \E i \in todo[r] : First(r, i) /\ cfg[r][i].name = n

PlanAt(r) ==
  /\ pc[r] \in {"lock", "add", "alias"} => cfg[r] \in Files /\ Valid(cfg[r])
  /\ todo[r] \subseteq 1..Len(cfg[r])
  /\ todo[r] # {} => live = r
  /\ live = r => \A i \in 1..Len(cfg[r]) :
       /\ i \in todo[r] =>
            registry[Canon[cfg[r][i].name]] \in {NoBackend, BackendOf(cfg[r][i])}
       /\ i \notin todo[r] => registry[Canon[cfg[r][i].name]] # NoBackend
  /\ pc[r] = "alias" => \E i \in todo[r] :
       First(r, i) /\ cfg[r][i].mode = "swap" /\ cfg[r][i].name \in members[cfg[r][i].slot]

Plan == \A r \in Reloads : PlanAt(r)

Wiring == SlotInv /\ Provenance /\ AliasInv /\ Listed

RouterInv == TypeOK /\ Places /\ Wiring /\ Routed /\ Plan /\ Recognised

-----------------------------------------------------------------------------
\* A set of naturals that is not empty has a least element, and Min is it.
LEMMA MinIsLeast ==
  ASSUME NEW S \in SUBSET Nat, S # {}
  PROVE  Min(S) \in S
<1> DEFINE R == {ss \in Nat \X Nat : ss[1] < ss[2]}
<1>1. IsWellFoundedOn(R, Nat)
  BY NatLessThanWellFounded DEF OpToRel
<1>2. \A x, y \in Nat : x < y => <<x, y>> \in R
  BY SMT
<1> HIDE DEF R
<1>3. PICK x \in S : \A y \in S : ~(<<y, x>> \in R)
  BY <1>1, WFMin
<1>4. \A y \in S : x <= y
  <2> TAKE y \in S
  <2>1. ~(y < x)
    BY <1>2, <1>3
  <2> QED
    BY <2>1
<1> QED
  BY <1>3, <1>4 DEF Min

\* Slots and external backends do not get mixed up.
LEMMA BackendFacts ==
  /\ \A n \in Names : Slot(n) \in Backends /\ External(n) \in Backends
  /\ \A n, m \in Names : /\ Slot(n) = Slot(m) => n = m
                         /\ Slot(n) # External(m)
                         /\ External(n) = External(m) => n = m
  /\ \A n \in Names : /\ Slot(n) # NoBackend /\ External(n) # NoBackend
                      /\ Slot(n)[1] = "slot" /\ Slot(n)[2] = n
                      /\ External(n)[1] = "external" /\ External(n)[2] = n
  /\ \A b \in Backends : b[2] \in Names /\ (b[1] = "slot" => b = Slot(b[2]))
<1>1. \A n \in Names : Slot(n) \in Backends /\ External(n) \in Backends
  BY DEF Slot, External, Backends
<1>2. \A b \in Backends : b[2] \in Names /\ (b[1] = "slot" => b = Slot(b[2]))
  BY DEF Slot, Backends
<1> QED
  BY <1>1, <1>2, RouterAssumption DEF Slot, External

\* The entries of the configurations are entries.
LEMMA EntryFacts ==
  /\ \A f \in Files \cup {<<>>} : f \in Seq(Entries)
  /\ \A e \in Entries : /\ e.name \in Names /\ e.slot \in Names
                        /\ e.mode \in {"swap", "external"} /\ e.default \in BOOLEAN
                        /\ Canon[e.name] \in Keys /\ Canon[e.slot] \in Keys
  /\ \A n \in Names : Canon[n] \in Keys
  /\ Keys \subseteq Names /\ \A k \in Keys : Canon[k] = k
<1> DEFINE EntryType == [name : Names, mode : {"swap", "external"}, slot : Names,
                         default : BOOLEAN]
<1>1. \A f \in Files : f \in Seq(EntryType)
  BY RouterAssumption
<1>2. \A f \in Files : \A i \in 1..Len(f) : f[i] \in Entries
  BY DEF Entries, EntriesOf
<1>3. Entries \subseteq EntryType
  <2> HIDE DEF EntryType
  <2>1. \A f \in Files : \A i \in 1..Len(f) : f[i] \in EntryType
    BY <1>1
  <2> QED
    BY <2>1 DEF Entries, EntriesOf
<1>4. \A f \in Files : f \in Seq(Entries)
  <2> TAKE f \in Files
  <2>1. f \in Seq(EntryType)
    BY <1>1
  <2>2. Len(f) \in Nat /\ DOMAIN f = 1..Len(f) /\ f = [i \in 1..Len(f) |-> f[i]]
    BY <2>1
  <2>3. \A i \in 1..Len(f) : f[i] \in Entries
    BY <1>2
  <2> QED
    BY <2>2, <2>3
<1>5. <<>> \in Seq(Entries)
  OBVIOUS
<1>6. \A n \in Names : Canon[n] \in Keys /\ Canon[n] \in Names
  BY RouterAssumption DEF Keys
<1>7. Keys \subseteq Names /\ \A k \in Keys : Canon[k] = k
  BY RouterAssumption DEF Keys
<1> QED
  BY <1>3, <1>4, <1>5, <1>6, <1>7

\* An entry of a configuration that a reload has read.
LEMMA EntryAt ==
  ASSUME TypeOK, Plan, NEW r \in Reloads, NEW i \in todo[r]
  PROVE  /\ i \in 1..Len(cfg[r])
         /\ cfg[r][i] \in Entries
         /\ cfg[r][i].mode = "swap" => cfg[r][i] \in SwapEntries
<1>1. i \in 1..Len(cfg[r])
  BY DEF Plan, PlanAt
<1>2. cfg[r] \in Seq(Entries)
  BY EntryFacts DEF TypeOK
<1>3. cfg[r][i] \in Entries
  BY <1>1, <1>2
<1> QED
  BY <1>1, <1>3 DEF SwapEntries

-----------------------------------------------------------------------------
(* What NamingAssumption is for *)

\* Nobody else has the name of a slot.
LEMMA SlotNameFree ==
  ASSUME TypeOK, Provenance, NEW e \in SwapEntries
  PROVE  registry[Canon[e.slot]] \in {NoBackend, Slot(e.slot)}
<1>1. e \in Entries /\ Canon[e.slot] \in Keys
  BY EntryFacts DEF SwapEntries
<1>2. SUFFICES ASSUME registry[Canon[e.slot]] # NoBackend
               PROVE  registry[Canon[e.slot]] = Slot(e.slot)
  OBVIOUS
<1>3. Source(Canon[e.slot], registry[Canon[e.slot]])
  BY <1>1, <1>2 DEF Provenance
<1>4. \A d \in SwapEntries : Canon[d.name] = Canon[e.slot] => d.slot = e.slot
  BY NamingAssumption DEF SwapEntries
<1>5. \A d \in SwapEntries : Canon[d.slot] = Canon[e.slot] => d.slot = e.slot
  BY NamingAssumption
<1>6. \A d \in Entries : d.mode = "external" => Canon[d.name] # Canon[e.slot]
  BY NamingAssumption
<1> QED
  BY <1>3, <1>4, <1>5, <1>6 DEF Source

\* An entry that counts as new has no backend, or the one it is about to get.
LEMMA NewEntry ==
  ASSUME TypeOK, Provenance, NEW e \in Entries, IsNew(e)
  PROVE  registry[Canon[e.name]] \in {NoBackend, BackendOf(e)}
<1>1. Canon[e.name] \in Keys
  BY EntryFacts
<1>2. CASE e.name = Canon[e.name]
  BY <1>1, <1>2 DEF IsNew
<1>3. CASE e.name # Canon[e.name] /\ registry[Canon[e.name]] # NoBackend
  <2>1. Source(Canon[e.name], registry[Canon[e.name]])
    BY <1>1, <1>3 DEF Provenance
  <2>2. \A d \in Entries : Canon[d.name] = Canon[e.name] =>
          d.name = e.name /\ d.mode = e.mode /\ d.slot = e.slot
    BY <1>3, NamingAssumption
  <2>3. \A d \in SwapEntries : Canon[d.slot] = Canon[e.name] =>
          e.mode = "swap" /\ e.slot = d.slot
    BY NamingAssumption
  <2> QED
    BY <2>1, <2>2, <2>3 DEF Source, BackendOf, SwapEntries
<1> QED
  BY <1>2, <1>3

\* Two entries of one configuration whose names differ in case only are one.
LEMMA OneName ==
  ASSUME TypeOK, Plan, NEW r \in Reloads, cfg[r] \in Files, Valid(cfg[r]),
         NEW i \in 1..Len(cfg[r]), NEW j \in 1..Len(cfg[r]),
         Canon[cfg[r][i].name] = Canon[cfg[r][j].name]
  PROVE  i = j
<1>1. cfg[r] \in Seq(Entries)
  BY EntryFacts
<1>2. cfg[r][i] \in Entries /\ cfg[r][j] \in Entries
  BY <1>1
<1>3. cfg[r][i].name = cfg[r][j].name
  BY <1>2, NamingAssumption
<1> QED
  BY <1>3 DEF Valid

-----------------------------------------------------------------------------
(* What a request is resolved to knows the name *)

Knows(g, n) == Target(g, n) \in members[g]

\* What is written like the name of a member, or of a slot, but for the case,
\* is that name.
LEMMA WrittenAlike ==
  ASSUME NEW e \in SwapEntries, NEW n \in Written
  PROVE  /\ Canon[e.name] = Canon[n] => n = e.name \/ n = e.slot
         /\ Canon[e.slot] = Canon[n] => n = e.slot
<1>1. e \in Entries
  BY DEF SwapEntries
<1>2. \A d \in Entries : /\ Canon[d.name] = Canon[e.name] => d.name = e.name
                         /\ Canon[d.name] = Canon[e.slot] => d.name = e.slot
  BY <1>1, NamingAssumption
<1>3. \A d \in SwapEntries : /\ Canon[e.name] = Canon[d.slot] => e.slot = d.slot
                             /\ Canon[d.slot] = Canon[e.slot] => d.slot = e.slot
  BY <1>1, NamingAssumption
<1> QED
  BY <1>2, <1>3 DEF Written

LEMMA ResolveKnows ==
  ASSUME TypeOK, Wiring, NEW n \in Written, NEW b \in Resolve(n), b[1] = "slot"
  PROVE  Knows(b[2], n)
<1>1. n \in Names /\ Canon[n] \in Keys
  BY EntryFacts DEF Written, SwapEntries
<1>2. registry[Canon[n]] = b /\ b # NoBackend /\ b \in Backends
  BY <1>1 DEF Resolve, TypeOK
<1>3. Source(Canon[n], b)
  BY <1>1, <1>2 DEF Wiring, Provenance
<1>4. \A e \in Entries : e.mode = "external" => b # External(e.name)
  BY <1>2, BackendFacts, EntryFacts
<1>5. PICK e \in SwapEntries : /\ b = Slot(e.slot)
                              /\ \/ Canon[e.name] = Canon[n] /\ e.name \in members[e.slot]
                                 \/ Canon[e.slot] = Canon[n] /\ members[e.slot] # {}
  BY <1>3, <1>4 DEF Source
<1>6. e.slot \in Names /\ b[2] = e.slot
  BY <1>5, BackendFacts, EntryFacts DEF SwapEntries
<1> QED
  BY <1>5, <1>6, WrittenAlike DEF Knows, Target, Wiring, SlotInv

\* The aliases that the admin handlers see.
Known == IF shared THEN aliases ELSE published

LEMMA ByNameFinds ==
  ASSUME NEW n \in Names, NEW b \in ByName(n)
  PROVE  b \in seen /\ \E m \in Names : Canon[m] = Canon[n] /\ b[2] \in {m, Known[m]}
<1> DEFINE named(m) == {x \in seen : x[2] = m}
           alike == {m \in Names : Canon[m] = Canon[n]}
           looks == <<named(n), named(Known[n]), UNION {named(m) : m \in alike},
                      UNION {named(Known[m]) : m \in alike}>>
           hits == {i \in 1..4 : looks[i] # {}}
<1>1. hits # {} /\ b \in looks[Min(hits)]
  BY DEF ByName, Known
<1>2. Min(hits) \in 1..4
  <2>1. hits \in SUBSET Nat /\ hits \subseteq 1..4
    OBVIOUS
  <2> HIDE DEF hits
  <2> QED
    BY <1>1, <2>1, MinIsLeast
<1>3. \/ b \in named(n) \/ b \in named(Known[n])
      \/ b \in UNION {named(m) : m \in alike} \/ b \in UNION {named(Known[m]) : m \in alike}
  <2> HIDE DEF named, alike, hits
  <2> QED
    BY <1>1, <1>2
<1> QED
  BY <1>3

LEMMA ByNameKnows ==
  ASSUME TypeOK, Wiring, NEW n \in Written, NEW b \in ByName(n), b[1] = "slot"
  PROVE  Knows(b[2], n)
<1>1. n \in Names
  BY EntryFacts DEF Written, SwapEntries
<1>2. PICK m \in Names : Canon[m] = Canon[n] /\ b[2] \in {m, Known[m]}
  BY <1>1, ByNameFinds
<1>3. b[2] \in Names /\ b = Slot(b[2]) /\ b \in seen
  BY <1>1, ByNameFinds, BackendFacts DEF TypeOK
<1>4. members[b[2]] # {}
  BY <1>3 DEF Wiring, Listed
<1>5. CASE b[2] = m
  <2>1. PICK e \in SwapEntries : e.slot = b[2]
    BY <1>3, <1>4 DEF Wiring, SlotInv
  <2>2. n = b[2]
    BY <1>2, <1>5, <2>1, WrittenAlike
  <2> QED
    BY <1>3, <1>4, <2>2 DEF Knows, Target, Wiring, SlotInv
<1>6. CASE b[2] = Known[m]
  <2>1. m \in members[b[2]]
    BY <1>3, <1>6, RouterAssumption DEF Known, Wiring, AliasInv
  <2>2. PICK e \in SwapEntries : e.name = m /\ e.slot = b[2]
    BY <1>3, <2>1 DEF Wiring, SlotInv
  <2>3. n = m \/ n = b[2]
    BY <1>2, <2>2, WrittenAlike
  <2> QED
    BY <1>3, <1>4, <2>1, <2>3 DEF Knows, Target, Wiring, SlotInv
<1> QED
  BY <1>2, <1>5, <1>6

-----------------------------------------------------------------------------
(* The boot *)

\* newGroup picks one of the members it is given.
LEMMA DefaultIsMember ==
  ASSUME NEW f \in Files, NEW g \in Names
  PROVE  /\ MembersIn(f, g) = {} <=> DefaultIn(f, g) = NoName
         /\ MembersIn(f, g) # {} => DefaultIn(f, g) \in MembersIn(f, g)
         /\ MembersIn(f, g) \subseteq Names
<1> DEFINE ofSlot == {i \in 1..Len(f) : f[i].mode = "swap" /\ f[i].slot = g}
           flagged == {i \in ofSlot : f[i].default}
           choice == IF flagged = {} THEN ofSlot ELSE flagged
<1>1. f \in Seq(Entries) /\ Len(f) \in Nat /\ \A i \in 1..Len(f) : f[i] \in Entries
  BY EntryFacts
<1>2. MembersIn(f, g) = {f[i].name : i \in ofSlot}
  BY DEF MembersIn, Swaps, EntriesOf
<1>3. DefaultIn(f, g) = IF ofSlot = {} THEN NoName ELSE f[Min(choice)].name
  BY DEF DefaultIn
<1>4. MembersIn(f, g) \subseteq Names
  BY <1>1, <1>2, EntryFacts
<1>5. ASSUME ofSlot # {} PROVE Min(choice) \in ofSlot
  <2>1. choice \subseteq ofSlot /\ choice # {} /\ choice \in SUBSET Nat
    BY <1>1, <1>5
  <2> HIDE DEF choice
  <2> QED
    BY <2>1, MinIsLeast
<1> HIDE DEF choice, ofSlot
<1> QED
  BY <1>2, <1>3, <1>4, <1>5, RouterAssumption

LEMMA InitTypes == Init => TypeOK /\ Places
<1> SUFFICES ASSUME Init PROVE TypeOK /\ Places
  OBVIOUS
<1>1. file \in Files /\ EntriesOf(file) \subseteq Entries
  BY DEF Init, Entries
<1>2. \A e \in Entries : BackendOf(e) \in Backends
  BY EntryFacts, BackendFacts DEF BackendOf
<1>3. \A g \in Names : MembersIn(file, g) \subseteq Names
                       /\ DefaultIn(file, g) \in Names \cup {NoName}
  BY <1>1, DefaultIsMember
<1>4. \A k \in Keys : Registered(file, k) \in Backends \cup {NoBackend}
  <2> TAKE k \in Keys
  <2> DEFINE es == {e \in EntriesOf(file) : Canon[e.name] = k}
             ss == {e \in Swaps(file) : Canon[e.slot] = k}
  <2>1. es # {} => (CHOOSE e \in es : TRUE) \in Entries
    BY <1>1
  <2>2. ss # {} => (CHOOSE e \in ss : TRUE).slot \in Names
    BY <1>1, EntryFacts DEF Swaps
  <2> QED
    BY <1>2, <2>1, <2>2, BackendFacts DEF Registered
<1>5. \A n \in Names : AliasIn(file, n) \in Names \cup {NoName}
  BY <1>1, EntryFacts DEF AliasIn, Swaps
<1>6. registry \in [Keys -> Backends \cup {NoBackend}] /\ members \in [Names -> SUBSET Names]
      /\ default \in [Names -> Names \cup {NoName}] /\ aliases \in [Names -> Names \cup {NoName}]
  BY <1>3, <1>4, <1>5 DEF Init
<1>7. backends \subseteq Backends /\ seen \subseteq Backends
  BY <1>1, <1>2 DEF Init
<1>8. Places
  BY RouterAssumption DEF Init, Places
<1> QED
  BY <1>1, <1>6, <1>7, <1>8, RouterAssumption DEF Init, TypeOK

LEMMA InitWiring == Init => Wiring /\ Routed
<1> SUFFICES ASSUME Init PROVE Wiring /\ Routed
  OBVIOUS
<1>1. file \in Files /\ EntriesOf(file) \subseteq Entries
  BY DEF Init, Entries
<1>2. \A g \in Names : members[g] = MembersIn(file, g) /\ default[g] = DefaultIn(file, g)
  BY DEF Init
<1>3. \A e \in Swaps(file) : /\ e \in SwapEntries /\ e \in EntriesOf(file)
                             /\ e.name \in Names /\ e.slot \in Names
                             /\ e.name \in members[e.slot]
  BY <1>1, <1>2, EntryFacts DEF Swaps, SwapEntries, MembersIn
<1>4. \A g \in Names : \A n \in members[g] : \E e \in Swaps(file) : e.name = n /\ e.slot = g
  BY <1>2 DEF MembersIn
<1>5. SlotInv
  BY <1>1, <1>2, <1>3, <1>4, DefaultIsMember DEF SlotInv
<1>6. ASSUME NEW k \in Keys, registry[k] # NoBackend PROVE Source(k, registry[k])
  <2> DEFINE es == {e \in EntriesOf(file) : Canon[e.name] = k}
             ss == {e \in Swaps(file) : Canon[e.slot] = k}
  <2>1. registry[k] = Registered(file, k)
    BY DEF Init
  <2>2. CASE es # {}
    <3>1. PICK e \in es : registry[k] = BackendOf(e)
      BY <2>1, <2>2 DEF Registered
    <3>2. e \in Entries /\ (e.mode = "swap" => e \in Swaps(file))
      BY <1>1 DEF Swaps
    <3> QED
      BY <3>1, <3>2, <1>3, EntryFacts DEF Source, BackendOf
  <2>3. CASE es = {} /\ ss # {}
    <3>1. PICK e \in ss : registry[k] = Slot(e.slot)
      BY <2>1, <2>3 DEF Registered
    <3> QED
      BY <3>1, <1>3 DEF Source
  <2> QED
    BY <1>6, <2>1, <2>2, <2>3 DEF Registered
<1>7. AliasInv
  <2>1. \A n \in Names : published[n] = NoName /\ aliases[n] = AliasIn(file, n)
    BY DEF Init
  <2>2. \A n \in Names : AliasIn(file, n) # NoName => n \in members[AliasIn(file, n)]
    <3> TAKE n \in Names
    <3> DEFINE es == {e \in Swaps(file) : e.name = n /\ NeedsAlias(e)}
    <3>1. es # {} => AliasIn(file, n) = (CHOOSE e \in es : TRUE).slot
      BY DEF AliasIn
    <3>2. es # {} => \E e \in es : AliasIn(file, n) = e.slot
      BY <3>1
    <3>3. es = {} => AliasIn(file, n) = NoName
      BY DEF AliasIn
    <3> QED
      BY <3>2, <3>3, <1>3
  <2> QED
    BY <2>1, <2>2 DEF AliasInv
<1>8. Listed
  <2> SUFFICES ASSUME NEW g \in Names, Slot(g) \in backends PROVE members[g] # {}
    BY DEF Init, Listed
  <2>1. PICK e \in EntriesOf(file) : Slot(g) = BackendOf(e)
    BY DEF Init
  <2>2. e \in Swaps(file) /\ e.slot = g
    BY <1>1, <2>1, EntryFacts, BackendFacts DEF BackendOf, Swaps
  <2> QED
    BY <1>3, <2>2
<1>9. Routed
  <2> SUFFICES ASSUME NEW g \in Names, NEW n \in members[g]
               PROVE  registry[Canon[n]] # NoBackend
    BY DEF Routed
  <2>1. PICK e \in Swaps(file) : e.name = n /\ e.slot = g
    BY <1>4
  <2>2. {d \in EntriesOf(file) : Canon[d.name] = Canon[n]} # {} /\ Canon[n] \in Keys
    BY <1>3, <2>1, EntryFacts DEF Swaps
  <2>3. \A d \in EntriesOf(file) : BackendOf(d) # NoBackend
    BY <1>1, EntryFacts, BackendFacts DEF BackendOf
  <2> QED
    BY <2>2, <2>3 DEF Init, Registered
<1> QED
  BY <1>5, <1>6, <1>7, <1>8, <1>9 DEF Wiring, Provenance

LEMMA InitInv == Init => RouterInv
<1> SUFFICES ASSUME Init PROVE RouterInv
  OBVIOUS
<1>1. Plan
  BY RouterAssumption DEF Init, Plan, PlanAt
<1>2. Recognised
  BY DEF Init, Recognised
<1> QED
  BY <1>1, <1>2, InitTypes, InitWiring DEF RouterInv

-----------------------------------------------------------------------------
(* The steps of a reload *)

Grows ==
  /\ \A k \in Keys : registry[k] # NoBackend => registry'[k] = registry[k]
  /\ \A g \in Names : members[g] \subseteq members'[g]
  /\ \A g \in Names : default[g] # NoName => default'[g] = default[g]

\* What growth leaves true.
LEMMA GrowthKeeps ==
  ASSUME TypeOK, SlotInv, Grows,
         UNCHANGED <<asked, at>>, \A c \in Clients : pc'[c] = pc[c]
  PROVE  /\ \A k, b : Source(k, b) => Source(k, b)'
         /\ Recognised => Recognised'
<1>1. \A e \in SwapEntries : e.name \in members[e.slot] => e.name \in members'[e.slot]
  BY EntryFacts DEF Grows, SwapEntries
<1>2. \A e \in SwapEntries : members[e.slot] # {} => members'[e.slot] # {}
  BY EntryFacts DEF Grows, SwapEntries
<1>3. \A g \in Names : \A n : Target(g, n) \in members[g] => Target(g, n)' \in members'[g]
  BY DEF SlotInv, Grows, Target
<1>4. ASSUME Recognised PROVE Recognised'
  <2> SUFFICES ASSUME NEW c \in Clients, pc[c] \in {"request", "start"}, at[c][1] = "slot",
                      asked[c] \in Written
               PROVE  Target(at[c][2], asked[c])' \in members'[at[c][2]]
    BY DEF Recognised
  <2>1. Target(at[c][2], asked[c]) \in members[at[c][2]]
    BY <1>4 DEF Recognised
  <2>2. at[c] \in Backends
    BY DEF TypeOK
  <2>3. at[c][2] \in Names
    BY <2>2, BackendFacts
  <2> QED
    BY <1>3, <2>1, <2>3 DEF Target
<1> QED
  BY <1>1, <1>2, <1>4 DEF Source

\* The reload that is at work is alone.
LEMMA Alone ==
  ASSUME RouterInv, NEW r \in Reloads, pc[r] \in {"add", "alias"}, NEW q \in Reloads, q # r
  PROVE  live = r /\ live # q /\ pc[q] \in {"idle", "lock"} /\ todo[q] = {}
BY DEF RouterInv, Places, Plan, PlanAt

\* ... so what the others plan is not disturbed.
LEMMA OthersPlan ==
  ASSUME RouterInv, NEW r \in Reloads, pc[r] \in {"add", "alias"}, NEW q \in Reloads, q # r,
         live' = live, cfg'[q] = cfg[q], todo'[q] = todo[q], pc'[q] = pc[q]
  PROVE  PlanAt(q)'
<1>1. PlanAt(q)
  BY DEF RouterInv, Plan
<1> QED
  BY <1>1, Alone DEF PlanAt

LEMMA ReloadExternalStep ==
  ASSUME RouterInv, NEW r \in Reloads, NEW i \in todo[r], ReloadExternal(r, i)
  PROVE  RouterInv' /\ Grows
<1> USE DEF RouterInv
<1> DEFINE e == cfg[r][i]
<1>1. i \in 1..Len(cfg[r]) /\ e \in Entries /\ e.mode = "external" /\ e.name \in Names
      /\ Canon[e.name] \in Keys
  BY EntryAt, EntryFacts DEF ReloadExternal
<1>2. cfg[r] \in Files /\ Valid(cfg[r]) /\ live = r /\ pc[r] = "add"
  BY DEF ReloadExternal, Plan, PlanAt, Places
<1>3. registry[Canon[e.name]] \in {NoBackend, External(e.name)}
  BY <1>1, <1>2 DEF Plan, PlanAt, BackendOf
<1>4. registry' = [registry EXCEPT ![Canon[e.name]] = External(e.name)]
      /\ backends' = backends \cup {External(e.name)} /\ todo' = [todo EXCEPT ![r] = @ \ {i}]
      /\ UNCHANGED <<live, members, default, aliases, file, seen, published, shared, loaded,
                     asked, at, pc, cfg>>
  BY DEF ReloadExternal, Done, reloadFrame, viewVars, clientVars
<1>5. Grows
  BY <1>3, <1>4 DEF Grows, TypeOK
<1>6. TypeOK' /\ Places'
  BY <1>1, <1>4, BackendFacts DEF TypeOK, Places
<1>7. SlotInv' /\ AliasInv'
  BY <1>4 DEF Wiring, SlotInv, AliasInv
<1>8. Provenance'
  BY <1>1, <1>4, <1>5, GrowthKeeps DEF Wiring, Provenance, Source, TypeOK
<1>9. Listed'
  BY <1>1, <1>4, BackendFacts DEF Wiring, Listed
<1>10. Routed'
  <2>1. \A q \in Reloads : pc[q] # "alias"
    BY <1>2, Alone
  <2>2. \A k \in Keys : registry[k] # NoBackend => registry'[k] # NoBackend
    BY <1>5 DEF Grows
  <2>3. \A g \in Names : \A n \in members[g] : Canon[n] \in Keys
    BY EntryFacts DEF TypeOK
  <2> QED
    BY <1>4, <2>1, <2>2, <2>3 DEF Routed
<1>11. Plan'
  <2> SUFFICES ASSUME NEW q \in Reloads PROVE PlanAt(q)'
    BY DEF Plan
  <2>1. CASE q # r
    <3>1. pc'[q] = pc[q] /\ cfg'[q] = cfg[q] /\ todo'[q] = todo[q] /\ live' = live
      BY <1>4, <2>1 DEF TypeOK
    <3> QED
      BY <1>2, <2>1, <3>1, OthersPlan
  <2>2. CASE q = r
    <3>1. ASSUME NEW j \in 1..Len(cfg[r])
          PROVE  /\ j \in todo'[r] => registry'[Canon[cfg[r][j].name]] = registry[Canon[cfg[r][j].name]]
                 /\ j \notin todo'[r] => registry'[Canon[cfg[r][j].name]] # NoBackend
      <4>1. cfg[r][j] \in Entries
        BY EntryFacts DEF TypeOK
      <4>2. Canon[cfg[r][j].name] \in Keys
        BY <4>1, EntryFacts
      <4>3. CASE j = i
        BY <1>1, <1>4, <4>2, <4>3, BackendFacts DEF TypeOK
      <4>4. CASE j # i
        <5>1. Canon[cfg[r][j].name] # Canon[e.name]
          BY <1>1, <1>2, <4>4, OneName
        <5> QED
          BY <1>2, <1>4, <4>2, <4>4, <5>1 DEF TypeOK, Plan, PlanAt
      <4> QED
        BY <4>3, <4>4
    <3>2. todo'[r] \subseteq todo[r] /\ pc'[r] = "add" /\ cfg' = cfg /\ live' = live
      BY <1>2, <1>4 DEF TypeOK
    <3>3. PlanAt(r)
      BY DEF Plan
    <3> QED
      BY <1>2, <2>2, <3>1, <3>2, <3>3 DEF PlanAt
  <2> QED
    BY <2>1, <2>2
<1>12. Recognised'
  BY <1>4, <1>5, GrowthKeeps DEF Wiring
<1> QED
  BY <1>5, <1>6, <1>7, <1>8, <1>9, <1>10, <1>11, <1>12 DEF Wiring

\* The entry at which a reload that adds a member stands.
LEMMA SwapAt ==
  ASSUME RouterInv, NEW r \in Reloads, NEW i \in todo[r], cfg[r][i].mode = "swap",
         pc[r] \in {"add", "alias"}
  PROVE  /\ i \in 1..Len(cfg[r])
         /\ cfg[r][i] \in SwapEntries /\ cfg[r][i] \in Entries
         /\ cfg[r][i].name \in Names /\ cfg[r][i].slot \in Names
         /\ Canon[cfg[r][i].name] \in Keys /\ Canon[cfg[r][i].slot] \in Keys
         /\ cfg[r] \in Files /\ Valid(cfg[r]) /\ live = r
         /\ registry[Canon[cfg[r][i].name]] \in {NoBackend, Slot(cfg[r][i].slot)}
         /\ registry[Canon[cfg[r][i].slot]] \in {NoBackend, Slot(cfg[r][i].slot)}
<1> USE DEF RouterInv
<1>1. i \in 1..Len(cfg[r]) /\ cfg[r][i] \in SwapEntries /\ cfg[r][i] \in Entries
  BY EntryAt
<1>2. cfg[r] \in Files /\ Valid(cfg[r]) /\ live = r
  BY DEF Plan, PlanAt, Places
<1>3. registry[Canon[cfg[r][i].name]] \in {NoBackend, Slot(cfg[r][i].slot)}
  BY <1>1, <1>2 DEF Plan, PlanAt, BackendOf
<1> QED
  BY <1>1, <1>2, <1>3, EntryFacts, SlotNameFree DEF Wiring

\* A member that the slot knows already: nothing changes but the plan.
LEMMA ReloadSkipStep ==
  ASSUME RouterInv, NEW r \in Reloads, NEW i \in todo[r], ReloadMember(r, i),
         cfg[r][i].name \in members[cfg[r][i].slot]
  PROVE  RouterInv' /\ Grows
<1> USE DEF RouterInv
<1> DEFINE e == cfg[r][i]
<1>1. pc[r] = "add" /\ e.mode = "swap" /\ todo' = [todo EXCEPT ![r] = @ \ {i}]
      /\ UNCHANGED <<file, live, liveVars, viewVars, clientVars, pc, cfg>>
  BY DEF ReloadMember, Done, reloadFrame, liveVars
<1>2. live = r /\ i \in 1..Len(cfg[r]) /\ e.slot \in Names
  BY <1>1, SwapAt
<1>3. \A q \in Reloads : pc[q] # "alias"
  BY <1>1, Alone
<1>4. registry[Canon[e.name]] # NoBackend
  BY <1>2, <1>3 DEF Routed
<1>5. Grows
  BY <1>1 DEF Grows, liveVars
<1>6. TypeOK' /\ Places'
  BY <1>1 DEF TypeOK, Places, liveVars, viewVars, clientVars
<1>7. Wiring'
  <2>1. UNCHANGED <<members, default, registry, backends, aliases, seen, published>>
    BY <1>1 DEF liveVars, viewVars
  <2>2. SlotInv' /\ AliasInv' /\ Listed'
    BY <2>1 DEF Wiring, SlotInv, AliasInv, Listed
  <2>3. Provenance'
    BY <2>1 DEF Wiring, Provenance, Source
  <2> QED
    BY <2>2, <2>3 DEF Wiring
<1>8. Routed'
  BY <1>1, <1>3 DEF Routed, liveVars
<1>9. Plan'
  <2> SUFFICES ASSUME NEW q \in Reloads PROVE PlanAt(q)'
    BY DEF Plan
  <2>1. CASE q # r
    BY <1>1, <1>2, <2>1, Alone DEF Plan, PlanAt, TypeOK, liveVars
  <2>2. CASE q = r
    BY <1>1, <1>2, <1>4, <2>2 DEF Plan, PlanAt, TypeOK, liveVars, BackendOf
  <2> QED
    BY <2>1, <2>2
<1>10. Recognised'
  BY <1>1, <1>5, GrowthKeeps DEF Wiring, clientVars
<1> QED
  BY <1>5, <1>6, <1>7, <1>8, <1>9, <1>10

\* A new member of a slot that exists.
LEMMA ReloadJoinStep ==
  ASSUME RouterInv, NEW r \in Reloads, NEW i \in todo[r], ReloadMember(r, i),
         cfg[r][i].name \notin members[cfg[r][i].slot]
  PROVE  RouterInv' /\ Grows
<1> USE DEF RouterInv
<1> DEFINE e == cfg[r][i]
<1>1. /\ pc[r] = "add" /\ e.mode = "swap" /\ First(r, i) /\ members[e.slot] # {}
      /\ members' = [members EXCEPT ![e.slot] = @ \cup {e.name}]
      /\ pc' = [pc EXCEPT ![r] = "alias"]
      /\ UNCHANGED <<file, live, default, registry, backends, aliases, viewVars, clientVars,
                     cfg, todo>>
  BY DEF ReloadMember, Joined, SlotExists, reloadFrame
<1>2. /\ live = r /\ i \in 1..Len(cfg[r]) /\ e.slot \in Names /\ e.name \in Names
      /\ e \in SwapEntries
  BY <1>1, SwapAt
<1>3. \A q \in Reloads : pc[q] # "alias"
  BY <1>1, Alone
<1>4. Grows
  BY <1>1 DEF Grows, TypeOK
<1>5. /\ e.name \in members'[e.slot] /\ members'[e.slot] = members[e.slot] \cup {e.name}
      /\ \A g \in Names : g # e.slot => members'[g] = members[g]
  BY <1>1, <1>2 DEF TypeOK
<1>6. TypeOK' /\ Places'
  BY <1>1, <1>2, RouterAssumption DEF TypeOK, Places, viewVars, clientVars
<1>7. SlotInv' /\ AliasInv' /\ Listed'
  <2>1. SlotInv'
    BY <1>1, <1>2, <1>5 DEF Wiring, SlotInv
  <2>2. AliasInv'
    <3>1. \A n \in Names, g \in Names \cup {NoName} :
            g # NoName /\ n \in members[g] => n \in members'[g]
      BY <1>4 DEF Grows
    <3>2. \A n \in Names : /\ aliases[n] \in Names \cup {NoName}
                           /\ published[n] \in Names \cup {NoName}
      BY DEF TypeOK
    <3>3. aliases' = aliases /\ published' = published
      BY <1>1 DEF viewVars
    <3> QED
      BY <3>1, <3>2, <3>3 DEF Wiring, AliasInv
  <2>3. Listed'
    BY <1>1, <1>5 DEF Wiring, Listed, viewVars
  <2> QED
    BY <2>1, <2>2, <2>3
<1>8. \A c \in Clients : pc'[c] = pc[c]
  BY <1>1, RouterAssumption DEF TypeOK
<1>9. Provenance'
  BY <1>1, <1>4, <1>8, GrowthKeeps DEF Wiring, Provenance, clientVars
<1>10. Routed'
  <2>1. First(r, i)' /\ cfg'[r][i].name = e.name /\ pc'[r] = "alias" /\ i \in todo'[r]
    BY <1>1, <1>6 DEF First, TypeOK
  <2> QED
    BY <1>1, <1>2, <1>3, <1>5, <2>1 DEF Routed
<1>11. Plan'
  <2> SUFFICES ASSUME NEW q \in Reloads PROVE PlanAt(q)'
    BY DEF Plan
  <2>1. CASE q # r
    <3>1. pc'[q] = pc[q] /\ cfg'[q] = cfg[q] /\ todo'[q] = todo[q] /\ live' = live
      BY <1>1, <2>1 DEF TypeOK
    <3> QED
      BY <1>1, <2>1, <3>1, OthersPlan
  <2>2. CASE q = r
    <3>1. First(r, i)' /\ pc'[r] = "alias"
      BY <1>1 DEF First, TypeOK
    <3>2. cfg' = cfg /\ live' = live /\ todo' = todo /\ registry' = registry
      BY <1>1
    <3>3. PlanAt(r) /\ cfg[r] \in Files /\ Valid(cfg[r])
      BY <1>1 DEF Plan, PlanAt
    <3> QED
      BY <1>1, <1>2, <1>5, <2>2, <3>1, <3>2, <3>3 DEF PlanAt
  <2> QED
    BY <2>1, <2>2
<1>12. Recognised'
  BY <1>1, <1>4, <1>8, GrowthKeeps DEF Wiring, clientVars
<1> QED
  BY <1>4, <1>6, <1>7, <1>9, <1>10, <1>11, <1>12 DEF Wiring

\* A new slot.
LEMMA ReloadSlotStep ==
  ASSUME RouterInv, NEW r \in Reloads, NEW i \in todo[r], ReloadSlot(r, i)
  PROVE  RouterInv' /\ Grows
<1> USE DEF RouterInv
<1> DEFINE e == cfg[r][i]
<1>1. /\ pc[r] = "add" /\ e.mode = "swap" /\ First(r, i) /\ members[e.slot] = {}
      /\ members' = [members EXCEPT ![e.slot] = {e.name}]
      /\ default' = [default EXCEPT ![e.slot] = e.name]
      /\ registry' = [registry EXCEPT ![Canon[e.slot]] = Slot(e.slot)]
      /\ backends' = backends \cup {Slot(e.slot)}
      /\ \/ /\ e.name # e.slot
            /\ pc' = [pc EXCEPT ![r] = "alias"] /\ UNCHANGED todo
         \/ /\ e.name = e.slot
            /\ todo' = [todo EXCEPT ![r] = @ \ {i}] /\ UNCHANGED pc
      /\ UNCHANGED <<live, aliases, file, viewVars, clientVars, cfg>>
  BY DEF ReloadSlot, SlotExists, NeedsAlias, Done, reloadFrame
<1>2. /\ live = r /\ i \in 1..Len(cfg[r]) /\ e.slot \in Names /\ e.name \in Names
      /\ e \in SwapEntries /\ e \in Entries
      /\ Canon[e.name] \in Keys /\ Canon[e.slot] \in Keys
      /\ cfg[r] \in Files /\ Valid(cfg[r])
      /\ registry[Canon[e.slot]] \in {NoBackend, Slot(e.slot)}
  BY <1>1, SwapAt
<1>3. \A q \in Reloads : pc[q] # "alias"
  BY <1>1, Alone
<1>4. /\ members'[e.slot] = {e.name} /\ default'[e.slot] = e.name
      /\ \A g \in Names : g # e.slot => members'[g] = members[g] /\ default'[g] = default[g]
      /\ registry'[Canon[e.slot]] = Slot(e.slot) /\ Slot(e.slot) # NoBackend
      /\ Slot(e.slot) \in Backends
      /\ \A k \in Keys : k # Canon[e.slot] => registry'[k] = registry[k]
  BY <1>1, <1>2, BackendFacts DEF TypeOK
<1>5. default[e.slot] = NoName
  BY <1>1, <1>2 DEF Wiring, SlotInv
<1>6. Grows
  BY <1>1, <1>2, <1>4, <1>5 DEF Grows
<1>7. TypeOK'
  <2>1. /\ pc' \in [Clients \cup Reloads ->
                   {"idle", "request", "start", "proxy", "lock", "add", "alias"}]
        /\ todo' \in [Reloads -> SUBSET Nat]
        /\ \A c \in Clients : pc'[c] = pc[c]
    <3>1. pc' \in {pc, [pc EXCEPT ![r] = "alias"]} /\ todo' \in {todo, [todo EXCEPT ![r] = @ \ {i}]}
      BY <1>1
    <3>2. r \notin Clients
      BY RouterAssumption
    <3> QED
      BY <3>1, <3>2 DEF TypeOK
  <2>2. /\ members' \in [Names -> SUBSET Names] /\ default' \in [Names -> Names \cup {NoName}]
        /\ registry' \in [Keys -> Backends \cup {NoBackend}] /\ backends' \subseteq Backends
    BY <1>1, <1>2, <1>4 DEF TypeOK
  <2>3. UNCHANGED <<live, aliases, file, seen, published, shared, loaded, asked, at, cfg>>
    BY <1>1 DEF viewVars, clientVars
  <2> QED
    BY <2>1, <2>2, <2>3 DEF TypeOK
<1>8. Places'
  BY <1>1, <1>2, RouterAssumption DEF TypeOK, Places
<1>9. SlotInv'
  <2> SUFFICES ASSUME NEW g \in Names
               PROVE  /\ default'[g] = NoName <=> members'[g] = {}
                      /\ members'[g] # {} => default'[g] \in members'[g]
                      /\ \A n \in members'[g] : \E d \in SwapEntries : d.name = n /\ d.slot = g
    BY DEF SlotInv
  <2>1. CASE g = e.slot
    <3>1. members'[g] = {e.name} /\ default'[g] = e.name
      BY <1>4, <2>1
    <3>2. e.name # NoName
      BY <1>2, RouterAssumption
    <3> QED
      BY <1>2, <2>1, <3>1, <3>2
  <2>2. CASE g # e.slot
    BY <1>4, <2>2 DEF Wiring, SlotInv
  <2> QED
    BY <2>1, <2>2
<1>10. AliasInv'
  <2>1. \A n \in Names, g \in Names \cup {NoName} :
          g # NoName /\ n \in members[g] => n \in members'[g]
    BY <1>6 DEF Grows
  <2>2. \A n \in Names : /\ aliases[n] \in Names \cup {NoName}
                         /\ published[n] \in Names \cup {NoName}
    BY DEF TypeOK
  <2>3. aliases' = aliases /\ published' = published
    BY <1>1 DEF viewVars
  <2> QED
    BY <2>1, <2>2, <2>3 DEF Wiring, AliasInv
<1>11. Listed'
  <2> SUFFICES ASSUME NEW g \in Names, Slot(g) \in backends' \cup seen' PROVE members'[g] # {}
    BY DEF Listed
  <2>1. CASE g = e.slot
    BY <1>4, <2>1
  <2>2. CASE g # e.slot
    <3>1. Slot(g) # Slot(e.slot)
      BY <1>2, <2>2, BackendFacts
    <3>2. Slot(g) \in backends \cup seen
      BY <1>1, <3>1 DEF viewVars
    <3> QED
      BY <1>4, <2>2, <3>2 DEF Wiring, Listed
  <2> QED
    BY <2>1, <2>2
<1>12. \A c \in Clients : pc'[c] = pc[c]
  BY <1>1, RouterAssumption DEF TypeOK
<1>13. UNCHANGED <<asked, at>>
  BY <1>1 DEF clientVars
<1>14. Provenance'
  <2> SUFFICES ASSUME NEW k \in Keys, registry'[k] # NoBackend
               PROVE  Source(k, registry[k])'
    BY DEF Provenance
  <2>1. CASE k = Canon[e.slot]
    <3>1. members'[e.slot] # {} /\ registry'[k] = Slot(e.slot)
      BY <1>4, <2>1
    <3> QED
      BY <1>2, <2>1, <3>1 DEF Source
  <2>2. CASE k # Canon[e.slot]
    <3>1. registry'[k] = registry[k] /\ Source(k, registry[k])
      BY <1>4, <2>2 DEF Wiring, Provenance
    <3>2. \A b : Source(k, b) => Source(k, b)'
      BY <1>6, <1>12, <1>13, GrowthKeeps DEF Wiring
    <3> QED
      BY <3>1, <3>2
  <2> QED
    BY <2>1, <2>2
<1>15. \A k \in Keys : registry[k] # NoBackend => registry'[k] # NoBackend
  BY <1>6 DEF Grows
<1>16. Routed'
  <2> SUFFICES ASSUME NEW g \in Names, NEW n \in members'[g]
               PROVE  \/ registry'[Canon[n]] # NoBackend
                      \/ \E q \in Reloads : pc'[q] = "alias" /\ \E j \in todo'[q] :
                                            First(q, j)' /\ cfg'[q][j].name = n
    BY DEF Routed
  <2>1. CASE g # e.slot
    <3>1. n \in members[g] /\ Canon[n] \in Keys
      BY <1>4, <2>1, EntryFacts DEF TypeOK
    <3> QED
      BY <1>3, <1>15, <3>1 DEF Routed
  <2>2. CASE g = e.slot /\ e.name = e.slot
    BY <1>4, <2>2
  <2>3. CASE g = e.slot /\ e.name # e.slot
    <3>1. n = e.name /\ cfg'[r][i].name = n
      BY <1>1, <1>4, <2>3
    <3>2. pc'[r] = "alias" /\ i \in todo'[r] /\ First(r, i)'
      BY <1>1, <2>3 DEF First, TypeOK
    <3> QED
      BY <3>1, <3>2
  <2> QED
    BY <2>1, <2>2, <2>3
<1>17. Plan'
  <2> SUFFICES ASSUME NEW q \in Reloads PROVE PlanAt(q)'
    BY DEF Plan
  <2>1. CASE q # r
    <3>1. pc'[q] = pc[q] /\ cfg'[q] = cfg[q] /\ todo'[q] = todo[q] /\ live' = live
      BY <1>1, <2>1 DEF TypeOK
    <3> QED
      BY <1>1, <2>1, <3>1, OthersPlan
  <2>2. CASE q = r
    <3>1. ASSUME NEW j \in 1..Len(cfg[r])
          PROVE  LET k == Canon[cfg[r][j].name] IN
                 /\ registry[k] # NoBackend => registry'[k] # NoBackend
                 /\ registry[k] \in {NoBackend, BackendOf(cfg[r][j])}
                      => registry'[k] \in {NoBackend, BackendOf(cfg[r][j])}
      <4>1. cfg[r][j] \in Entries
        BY EntryFacts DEF TypeOK
      <4>2. Canon[cfg[r][j].name] \in Keys
        BY <4>1, EntryFacts
      <4>3. Canon[cfg[r][j].name] = Canon[e.slot] => BackendOf(cfg[r][j]) = Slot(e.slot)
        BY <1>2, <4>1, NamingAssumption DEF BackendOf
      <4> QED
        BY <1>4, <1>15, <4>2, <4>3
    <3>2. \A j \in 1..Len(cfg[r]) :
            /\ j \in todo[r] =>
                 registry'[Canon[cfg[r][j].name]] \in {NoBackend, BackendOf(cfg[r][j])}
            /\ j \notin todo[r] => registry'[Canon[cfg[r][j].name]] # NoBackend
      BY <1>2, <3>1 DEF Plan, PlanAt
    <3>3. todo[r] \subseteq 1..Len(cfg[r]) /\ cfg' = cfg /\ live' = live
      BY <1>1 DEF Plan, PlanAt
    <3>4. CASE e.name # e.slot
      <4>1. First(r, i)' /\ pc'[r] = "alias" /\ todo' = todo
        BY <1>1, <3>4 DEF First, TypeOK
      <4>2. e.mode = "swap" /\ e.name \in members'[e.slot]
        BY <1>1, <1>4
      <4> QED
        BY <1>2, <2>2, <3>2, <3>3, <4>1, <4>2 DEF PlanAt
    <3>5. CASE e.name = e.slot
      <4>1. pc'[r] = "add" /\ todo'[r] = todo[r] \ {i}
        BY <1>1, <3>5 DEF TypeOK
      <4>2. registry'[Canon[e.name]] # NoBackend
        BY <1>4, <3>5
      <4> QED
        BY <1>2, <2>2, <3>2, <3>3, <4>1, <4>2 DEF PlanAt
    <3> QED
      BY <3>4, <3>5
  <2> QED
    BY <2>1, <2>2
<1>18. Recognised'
  BY <1>6, <1>12, <1>13, GrowthKeeps DEF Wiring
<1> QED
  BY <1>6, <1>7, <1>8, <1>9, <1>10, <1>11, <1>14, <1>16, <1>17, <1>18 DEF Wiring

\* The alias of a member.
LEMMA ReloadAliasStep ==
  ASSUME RouterInv, NEW r \in Reloads, NEW i \in todo[r], ReloadAlias(r, i)
  PROVE  RouterInv' /\ Grows
<1> USE DEF RouterInv
<1> DEFINE e == cfg[r][i]
<1>1. /\ pc[r] = "alias" /\ First(r, i)
      /\ registry' = [registry EXCEPT ![Canon[e.name]] = Slot(e.slot)]
      /\ aliases' = [aliases EXCEPT ![e.name] = e.slot]
      /\ todo' = [todo EXCEPT ![r] = @ \ {i}] /\ pc' = [pc EXCEPT ![r] = "add"]
      /\ UNCHANGED <<file, live, members, default, backends, viewVars, clientVars, cfg>>
  BY DEF ReloadAlias, AliasRecorded, Done, reloadFrame
<1>2. e.mode = "swap" /\ e.name \in members[e.slot]
  <2>1. PICK j \in todo[r] : First(r, j) /\ cfg[r][j].mode = "swap"
                             /\ cfg[r][j].name \in members[cfg[r][j].slot]
    BY <1>1 DEF Plan, PlanAt
  <2>2. i \in Nat /\ j \in Nat /\ i <= j /\ j <= i
    BY <1>1, <2>1 DEF First, TypeOK
  <2> QED
    BY <2>1, <2>2
<1>3. /\ i \in 1..Len(cfg[r]) /\ e \in SwapEntries /\ e \in Entries
      /\ e.name \in Names /\ e.slot \in Names /\ Canon[e.name] \in Keys
      /\ cfg[r] \in Files /\ Valid(cfg[r]) /\ live = r
      /\ registry[Canon[e.name]] \in {NoBackend, Slot(e.slot)}
  BY <1>1, <1>2, SwapAt
<1>4. /\ registry'[Canon[e.name]] = Slot(e.slot) /\ Slot(e.slot) # NoBackend
      /\ Slot(e.slot) \in Backends
      /\ \A k \in Keys : k # Canon[e.name] => registry'[k] = registry[k]
      /\ aliases'[e.name] = e.slot
      /\ \A n \in Names : n # e.name => aliases'[n] = aliases[n]
  BY <1>1, <1>3, BackendFacts DEF TypeOK
<1>5. Grows
  BY <1>1, <1>3, <1>4 DEF Grows
<1>6. \A c \in Clients : pc'[c] = pc[c]
  BY <1>1, RouterAssumption DEF TypeOK
<1>7. TypeOK'
  <2>1. /\ registry' \in [Keys -> Backends \cup {NoBackend}]
        /\ aliases' \in [Names -> Names \cup {NoName}]
    BY <1>1, <1>3, <1>4 DEF TypeOK
  <2>2. UNCHANGED <<file, live, members, default, backends, seen, published, shared,
                    loaded, asked, at, cfg>>
    BY <1>1 DEF viewVars, clientVars
  <2>3. /\ pc' \in [Clients \cup Reloads ->
                   {"idle", "request", "start", "proxy", "lock", "add", "alias"}]
        /\ todo' \in [Reloads -> SUBSET Nat]
    BY <1>1 DEF TypeOK
  <2> QED
    BY <1>6, <2>1, <2>2, <2>3 DEF TypeOK
<1>8. Places'
  BY <1>1, <1>3, RouterAssumption DEF TypeOK, Places
<1>9. SlotInv' /\ Listed'
  BY <1>1 DEF Wiring, SlotInv, Listed, viewVars
<1>10. AliasInv'
  BY <1>1, <1>2, <1>4 DEF Wiring, AliasInv, viewVars
<1>11. UNCHANGED <<asked, at>>
  BY <1>1 DEF clientVars
<1>12. Provenance'
  <2> SUFFICES ASSUME NEW k \in Keys, registry'[k] # NoBackend
               PROVE  Source(k, registry[k])'
    BY DEF Provenance
  <2>1. CASE k = Canon[e.name]
    <3>1. e.name \in members'[e.slot] /\ registry'[k] = Slot(e.slot)
      BY <1>1, <1>2, <1>4, <2>1
    <3> QED
      BY <1>3, <2>1, <3>1 DEF Source
  <2>2. CASE k # Canon[e.name]
    <3>1. registry'[k] = registry[k] /\ Source(k, registry[k])
      BY <1>4, <2>2 DEF Wiring, Provenance
    <3>2. \A b : Source(k, b) => Source(k, b)'
      BY <1>5, <1>6, <1>11, GrowthKeeps DEF Wiring
    <3> QED
      BY <3>1, <3>2
  <2> QED
    BY <2>1, <2>2
<1>13. Routed'
  <2> SUFFICES ASSUME NEW g \in Names, NEW n \in members[g]
               PROVE  registry'[Canon[n]] # NoBackend
    BY <1>1 DEF Routed
  <2>1. Canon[n] \in Keys
    BY EntryFacts DEF TypeOK
  <2>2. CASE registry[Canon[n]] # NoBackend
    BY <1>5, <2>1, <2>2 DEF Grows
  <2>3. CASE registry[Canon[n]] = NoBackend
    <3>1. PICK q \in Reloads : pc[q] = "alias" /\ \E j \in todo[q] :
                                 First(q, j) /\ cfg[q][j].name = n
      BY <2>3 DEF Routed
    <3>2. q = r
      BY <1>1, <3>1, Alone
    <3>3. PICK j \in todo[r] : First(r, j) /\ cfg[r][j].name = n
      BY <3>1, <3>2
    <3>4. i \in Nat /\ j \in Nat /\ i <= j /\ j <= i
      BY <1>1, <3>3 DEF First, TypeOK
    <3> QED
      BY <1>4, <3>3, <3>4
  <2> QED
    BY <2>2, <2>3
<1>14. Plan'
  <2> SUFFICES ASSUME NEW q \in Reloads PROVE PlanAt(q)'
    BY DEF Plan
  <2>1. CASE q # r
    <3>1. pc'[q] = pc[q] /\ cfg'[q] = cfg[q] /\ todo'[q] = todo[q] /\ live' = live
      BY <1>1, <2>1 DEF TypeOK
    <3> QED
      BY <1>1, <2>1, <3>1, OthersPlan
  <2>2. CASE q = r
    <3>1. ASSUME NEW j \in 1..Len(cfg[r])
          PROVE  /\ j \in todo'[r] => registry'[Canon[cfg[r][j].name]] = registry[Canon[cfg[r][j].name]]
                 /\ j \notin todo'[r] => registry'[Canon[cfg[r][j].name]] # NoBackend
      <4>1. cfg[r][j] \in Entries
        BY EntryFacts DEF TypeOK
      <4>2. Canon[cfg[r][j].name] \in Keys
        BY <4>1, EntryFacts
      <4>3. todo'[r] = todo[r] \ {i}
        BY <1>1 DEF TypeOK
      <4>4. CASE j = i
        BY <1>4, <4>3, <4>4
      <4>5. CASE j # i
        <5>1. Canon[cfg[r][j].name] # Canon[e.name]
          BY <1>3, <4>5, OneName
        <5> QED
          BY <1>3, <1>4, <4>2, <4>3, <4>5, <5>1 DEF Plan, PlanAt
      <4> QED
        BY <4>4, <4>5
    <3>2. todo'[r] \subseteq todo[r] /\ pc'[r] = "add" /\ cfg' = cfg /\ live' = live
      BY <1>1 DEF TypeOK
    <3> QED
      BY <1>3, <2>2, <3>1, <3>2 DEF Plan, PlanAt
  <2> QED
    BY <2>1, <2>2
<1>15. Recognised'
  BY <1>5, <1>6, <1>11, GrowthKeeps DEF Wiring
<1> QED
  BY <1>5, <1>7, <1>8, <1>9, <1>10, <1>12, <1>13, <1>14, <1>15 DEF Wiring

-----------------------------------------------------------------------------
(* The other steps *)

\* A step that leaves the backends alone leaves alone what is known of them.
LEMMA WiringStays ==
  ASSUME Wiring, UNCHANGED <<members, default, registry, backends, aliases, seen, published>>
  PROVE  Wiring' /\ Grows
<1>1. SlotInv' /\ AliasInv' /\ Listed' /\ Grows
  BY DEF Wiring, SlotInv, AliasInv, Listed, Grows
<1>2. Provenance'
  BY DEF Wiring, Provenance, Source
<1> QED
  BY <1>1, <1>2 DEF Wiring

LEMMA PlanStays ==
  ASSUME Routed, Plan, UNCHANGED <<members, registry, live, cfg, todo>>,
         \A r \in Reloads : pc'[r] = pc[r]
  PROVE  Routed' /\ Plan'
<1>1. \A r \in Reloads : \A i : First(r, i)' <=> First(r, i)
  BY DEF First
<1>2. Routed'
  BY <1>1 DEF Routed
<1>3. ASSUME NEW r \in Reloads PROVE PlanAt(r)'
  BY <1>1 DEF Plan, PlanAt
<1> QED
  BY <1>2, <1>3 DEF Plan

LEMMA ReloadReadStep ==
  ASSUME RouterInv, NEW r \in Reloads, ReloadRead(r)
  PROVE  RouterInv' /\ Grows
<1> USE DEF RouterInv
<1>1. /\ pc[r] = "idle" /\ Valid(file) /\ cfg' = [cfg EXCEPT ![r] = file]
      /\ pc' = [pc EXCEPT ![r] = "lock"]
      /\ UNCHANGED <<live, members, default, registry, backends, aliases, file, seen,
                     published, shared, loaded, asked, at, todo>>
  BY DEF ReloadRead, liveVars, reloadFrame, viewVars, clientVars
<1>2. live # r /\ todo[r] = {}
  BY <1>1 DEF Places, Plan, PlanAt
<1>3. \A c \in Clients : pc'[c] = pc[c]
  BY <1>1, RouterAssumption DEF TypeOK
<1>4. TypeOK'
  BY <1>1, <1>3 DEF TypeOK
<1>5. Places'
  BY <1>1, <1>2, <1>3 DEF TypeOK, Places
<1>6. Wiring' /\ Grows
  BY <1>1, WiringStays
<1>7. Routed'
  <2>1. ASSUME NEW q \in Reloads, pc[q] = "alias"
        PROVE  pc'[q] = "alias" /\ cfg'[q] = cfg[q]
    BY <1>1, <2>1 DEF TypeOK
  <2> QED
    BY <1>1, <2>1 DEF Routed, First
<1>8. Plan'
  <2> SUFFICES ASSUME NEW q \in Reloads PROVE PlanAt(q)'
    BY DEF Plan
  <2>1. CASE q # r
    <3>1. pc'[q] = pc[q] /\ cfg'[q] = cfg[q]
      BY <1>1, <2>1 DEF TypeOK
    <3> QED
      BY <1>1, <3>1 DEF Plan, PlanAt, First
  <2>2. CASE q = r
    BY <1>1, <1>2, <2>2 DEF TypeOK, PlanAt
  <2> QED
    BY <2>1, <2>2
<1>9. Recognised'
  BY <1>1, <1>3, <1>6, GrowthKeeps DEF Wiring
<1> QED
  BY <1>4, <1>5, <1>6, <1>7, <1>8, <1>9

\* A reload begins: every entry has a backend or is in the plan.
LEMMA ReloadEnterStep ==
  ASSUME RouterInv, NEW r \in Reloads, ReloadEnter(r)
  PROVE  RouterInv' /\ Grows
<1> USE DEF RouterInv
<1>1. /\ pc[r] = "lock" /\ live = Free /\ live' = r
      /\ todo' = [todo EXCEPT ![r] = {i \in 1..Len(cfg[r]) : IsNew(cfg[r][i])}]
      /\ pc' = [pc EXCEPT ![r] = "add"]
      /\ UNCHANGED <<members, default, registry, backends, aliases, file, seen,
                     published, shared, loaded, asked, at, cfg>>
  BY DEF ReloadEnter, liveVars, reloadFrame, viewVars, clientVars
<1>2. \A q \in Reloads : live # q /\ pc[q] \notin {"add", "alias"} /\ todo[q] = {}
  BY <1>1, RouterAssumption DEF Places, Plan, PlanAt
<1>3. \A c \in Clients : pc'[c] = pc[c]
  BY <1>1, RouterAssumption DEF TypeOK
<1>4. cfg[r] \in Files /\ Valid(cfg[r]) /\ Len(cfg[r]) \in Nat
      /\ \A i \in 1..Len(cfg[r]) : cfg[r][i] \in Entries
  BY <1>1, EntryFacts DEF Plan, PlanAt
<1>5. todo'[r] = {i \in 1..Len(cfg[r]) : IsNew(cfg[r][i])}
  BY <1>1 DEF TypeOK
<1>6. TypeOK'
  <2>1. todo' \in [Reloads -> SUBSET Nat]
    BY <1>1, <1>4 DEF TypeOK
  <2>2. pc' \in [Clients \cup Reloads ->
                   {"idle", "request", "start", "proxy", "lock", "add", "alias"}]
    BY <1>1 DEF TypeOK
  <2> QED
    BY <1>1, <1>3, <2>1, <2>2 DEF TypeOK
<1>7. Places'
  <2>1. \A q \in Reloads : q # r => pc'[q] = pc[q]
    BY <1>1 DEF TypeOK
  <2>2. pc'[r] = "add"
    BY <1>1 DEF TypeOK
  <2> QED
    BY <1>1, <1>2, <1>3, <2>1, <2>2 DEF Places
<1>8. Wiring' /\ Grows
  BY <1>1, WiringStays
<1>9. Routed'
  BY <1>1, <1>2 DEF Routed
<1>10. Plan'
  <2> SUFFICES ASSUME NEW q \in Reloads PROVE PlanAt(q)'
    BY DEF Plan
  <2>1. CASE q # r
    <3>1. pc'[q] = pc[q] /\ cfg'[q] = cfg[q] /\ todo'[q] = {} /\ live' # q
      BY <1>1, <1>2, <2>1 DEF TypeOK
    <3> QED
      BY <1>2, <3>1 DEF Plan, PlanAt
  <2>2. CASE q = r
    <3>1. pc'[r] = "add" /\ cfg'[r] = cfg[r] /\ registry' = registry
      BY <1>1 DEF TypeOK
    <3>2. ASSUME NEW i \in 1..Len(cfg[r])
          PROVE  /\ i \in todo'[r] =>
                      registry[Canon[cfg[r][i].name]] \in {NoBackend, BackendOf(cfg[r][i])}
                 /\ i \notin todo'[r] => registry[Canon[cfg[r][i].name]] # NoBackend
      <4>1. cfg[r][i] \in Entries
        BY <1>4
      <4>2. CASE IsNew(cfg[r][i])
        BY <1>5, <4>1, <4>2, NewEntry DEF Wiring
      <4>3. CASE ~IsNew(cfg[r][i])
        BY <1>5, <4>3, EntryFacts DEF IsNew
      <4> QED
        BY <4>2, <4>3
    <3> QED
      BY <1>1, <1>4, <1>5, <2>2, <3>1, <3>2 DEF PlanAt
  <2> QED
    BY <2>1, <2>2
<1>11. Recognised'
  BY <1>1, <1>3, <1>8, GrowthKeeps DEF Wiring
<1> QED
  BY <1>6, <1>7, <1>8, <1>9, <1>10, <1>11

\* A reload ends: the admin's view catches up.
LEMMA ReloadPublishStep ==
  ASSUME RouterInv, NEW r \in Reloads, ReloadPublish(r)
  PROVE  RouterInv' /\ Grows
<1> USE DEF RouterInv
<1>1. /\ pc[r] = "add" /\ todo[r] = {} /\ seen' = backends /\ published' = aliases
      /\ shared' = FALSE /\ live' = Free
      /\ pc' = [pc EXCEPT ![r] = "idle"] /\ cfg' = [cfg EXCEPT ![r] = <<>>]
      /\ todo' = [todo EXCEPT ![r] = {}]
      /\ UNCHANGED <<file, members, default, registry, backends, aliases, loaded, asked, at>>
  BY DEF ReloadPublish, Idle, liveVars, clientVars
<1>2. live = r /\ \A q \in Reloads : pc[q] # "alias" /\ (q # r => pc[q] \in {"idle", "lock"})
  BY <1>1, Alone DEF Places
<1>3. \A c \in Clients : pc'[c] = pc[c]
  BY <1>1, RouterAssumption DEF TypeOK
<1>4. todo' = todo
  BY <1>1 DEF TypeOK
<1>5. TypeOK'
  BY <1>1, <1>3, <1>4 DEF TypeOK
<1>6. Places'
  <2>1. pc'[r] = "idle" /\ \A q \in Reloads : q # r => pc'[q] = pc[q]
    BY <1>1 DEF TypeOK
  <2> QED
    BY <1>1, <1>2, <1>3, <2>1, RouterAssumption DEF Places
<1>7. Grows
  BY <1>1 DEF Grows
<1>8. SlotInv' /\ Listed'
  BY <1>1 DEF Wiring, SlotInv, Listed
<1>9. AliasInv'
  BY <1>1 DEF Wiring, AliasInv
<1>10. Provenance'
  BY <1>1 DEF Wiring, Provenance, Source
<1>11. Routed'
  BY <1>1, <1>2 DEF Routed
<1>12. Plan'
  <2> SUFFICES ASSUME NEW q \in Reloads PROVE PlanAt(q)'
    BY DEF Plan
  <2>1. live' # q
    BY <1>1, RouterAssumption
  <2>2. CASE q # r
    <3>1. pc'[q] = pc[q] /\ cfg'[q] = cfg[q] /\ todo'[q] = {}
      BY <1>1, <1>2, <1>4, <2>2 DEF TypeOK, Plan, PlanAt
    <3> QED
      BY <1>2, <2>1, <2>2, <3>1 DEF Plan, PlanAt
  <2>3. CASE q = r
    <3>1. pc'[r] = "idle" /\ todo'[r] = {}
      BY <1>1 DEF TypeOK
    <3> QED
      BY <2>1, <2>3, <3>1 DEF PlanAt
  <2> QED
    BY <2>2, <2>3
<1>13. Recognised'
  BY <1>1, <1>3, <1>7, GrowthKeeps DEF Wiring
<1> QED
  BY <1>5, <1>6, <1>7, <1>8, <1>9, <1>10, <1>11, <1>12, <1>13 DEF Wiring

\* A step of a request: only the client itself moves, and whatever it has just
\* been resolved to knows the name it asked for.
LEMMA ClientKeeps ==
  ASSUME RouterInv, TypeOK', NEW c \in Clients, UNCHANGED clientFrame,
         pc'[c] \in {"idle", "request", "start", "proxy"},
         \A t \in (Clients \cup Reloads) \ {c} : pc'[t] = pc[t],
         \A d \in Clients \ {c} : asked'[d] = asked[d] /\ at'[d] = at[d],
         pc'[c] \in {"request", "start"} /\ at'[c][1] = "slot" /\ asked'[c] \in Written
           => Knows(at'[c][2], asked'[c])
  PROVE  RouterInv' /\ Grows
<1> USE DEF RouterInv
<1>1. UNCHANGED <<file, live, members, default, registry, backends, aliases, seen, published,
                  shared, cfg, todo>>
  BY DEF clientFrame, liveVars, viewVars, reloadVars
<1>2. \A r \in Reloads : pc'[r] = pc[r]
  BY RouterAssumption
<1>3. Places'
  <2>1. \A d \in Clients : pc'[d] \in {"idle", "request", "start", "proxy"}
    BY DEF Places
  <2> QED
    BY <1>1, <1>2, <2>1 DEF Places
<1>4. Wiring' /\ Grows
  BY <1>1, WiringStays
<1>5. Routed' /\ Plan'
  BY <1>1, <1>2, PlanStays
<1>6. Recognised'
  <2> SUFFICES ASSUME NEW d \in Clients, pc'[d] \in {"request", "start"},
                      at'[d][1] = "slot", asked'[d] \in Written
               PROVE  Knows(at[d][2], asked[d])'
    BY DEF Recognised, Knows
  <2>1. \A g, n : Knows(g, n) => Target(g, n)' \in members'[g]
    BY <1>1 DEF Knows, Target
  <2>2. CASE d = c
    BY <1>1, <2>2 DEF Knows, Target
  <2>3. CASE d # c
    BY <1>1, <2>3 DEF Recognised, Knows, Target
  <2> QED
    BY <2>2, <2>3
<1> QED
  BY <1>3, <1>4, <1>5, <1>6

LEMMA ArriveStep ==
  ASSUME RouterInv, NEW c \in Clients, NEW n \in Names, NEW step \in {"request", "start"},
         NEW found, found \subseteq Backends, Arrive(c, n, step, found),
         n \in Written => \A b \in found : b[1] = "slot" => Knows(b[2], n)
  PROVE  RouterInv' /\ Grows
<1> USE DEF RouterInv
<1>1. PICK b \in found : at' = [at EXCEPT ![c] = b]
  BY DEF Arrive
<1>2. /\ pc[c] = "idle" /\ asked' = [asked EXCEPT ![c] = n] /\ pc' = [pc EXCEPT ![c] = step]
      /\ UNCHANGED <<clientFrame, loaded>>
  BY DEF Arrive
<1>3. b \in Backends /\ b # NoBackend
  BY RouterAssumption
<1>4. /\ at'[c] = b /\ asked'[c] = n /\ pc'[c] = step
      /\ \A t \in (Clients \cup Reloads) \ {c} : pc'[t] = pc[t]
      /\ \A d \in Clients \ {c} : asked'[d] = asked[d] /\ at'[d] = at[d]
  BY <1>1, <1>2 DEF TypeOK
<1>5. TypeOK'
  <2>1. UNCHANGED <<file, live, members, default, registry, backends, aliases, seen, published,
                    shared, cfg, todo, loaded>>
    BY <1>2 DEF clientFrame, liveVars, viewVars, reloadVars
  <2>2. /\ at' \in [Clients -> Backends \cup {NoBackend}]
        /\ asked' \in [Clients -> Names \cup {NoName}]
        /\ pc' \in [Clients \cup Reloads ->
                     {"idle", "request", "start", "proxy", "lock", "add", "alias"}]
    BY <1>1, <1>2, <1>3 DEF TypeOK
  <2>3. \A d \in Clients : at'[d] = NoBackend <=> pc'[d] = "idle"
    BY <1>3, <1>4 DEF TypeOK
  <2> QED
    BY <2>1, <2>2, <2>3 DEF TypeOK
<1> QED
  BY <1>2, <1>4, <1>5, ClientKeeps

\* A request or a start that is over, or that goes on to the proxy.
LEMMA LeaveStep ==
  ASSUME RouterInv, NEW c \in Clients, UNCHANGED clientFrame, pc[c] # "idle",
         loaded' \in [Names -> Names \cup {NoName}], Finish(c) \/ Proceed(c)
  PROVE  RouterInv' /\ Grows
<1> USE DEF RouterInv
<1>1. /\ pc' \in {[pc EXCEPT ![c] = "idle"], [pc EXCEPT ![c] = "proxy"]}
      /\ asked' \in {asked, [asked EXCEPT ![c] = NoName]}
      /\ at' \in {at, [at EXCEPT ![c] = NoBackend]}
      /\ \/ pc' = [pc EXCEPT ![c] = "idle"] /\ at' = [at EXCEPT ![c] = NoBackend]
         \/ pc' = [pc EXCEPT ![c] = "proxy"] /\ at' = at
  BY DEF Finish, Proceed
<1>2. /\ pc'[c] \in {"idle", "proxy"}
      /\ \A t \in (Clients \cup Reloads) \ {c} : pc'[t] = pc[t]
      /\ \A d \in Clients \ {c} : asked'[d] = asked[d] /\ at'[d] = at[d]
      /\ at'[c] = NoBackend <=> pc'[c] = "idle"
  BY <1>1 DEF TypeOK
<1>3. TypeOK'
  <2>1. UNCHANGED <<file, live, members, default, registry, backends, aliases, seen, published,
                    shared, cfg, todo>>
    BY DEF clientFrame, liveVars, viewVars, reloadVars
  <2>2. /\ at' \in [Clients -> Backends \cup {NoBackend}]
        /\ asked' \in [Clients -> Names \cup {NoName}]
        /\ pc' \in [Clients \cup Reloads ->
                     {"idle", "request", "start", "proxy", "lock", "add", "alias"}]
    BY <1>1 DEF TypeOK
  <2>3. \A d \in Clients : at'[d] = NoBackend <=> pc'[d] = "idle"
    BY <1>2 DEF TypeOK
  <2> QED
    BY <2>1, <2>2, <2>3 DEF TypeOK
<1> QED
  BY <1>2, <1>3, ClientKeeps

LEMMA ClientKeepsInv ==
  ASSUME RouterInv, NEW c \in Clients, ClientStep(c)
  PROVE  RouterInv' /\ Grows
<1> USE DEF RouterInv
<1>1. ASSUME NEW n \in Names, Request(c, n) PROVE RouterInv' /\ Grows
  <2>1. Resolve(n) \subseteq Backends
    BY EntryFacts DEF Resolve, TypeOK
  <2>2. n \in Written => \A b \in Resolve(n) : b[1] = "slot" => Knows(b[2], n)
    BY ResolveKnows
  <2>3. Arrive(c, n, "request", Resolve(n))
    BY <1>1 DEF Request
  <2> HIDE DEF RouterInv
  <2> QED
    BY <2>1, <2>2, <2>3, ArriveStep
<1>2. ASSUME NEW n \in Names, Start(c, n) PROVE RouterInv' /\ Grows
  <2>1. ByName(n) \subseteq Backends
    BY ByNameFinds DEF TypeOK
  <2>2. n \in Written => \A b \in ByName(n) : b[1] = "slot" => Knows(b[2], n)
    BY ByNameKnows
  <2>3. Arrive(c, n, "start", ByName(n))
    BY <1>2 DEF Start
  <2> HIDE DEF RouterInv
  <2> QED
    BY <2>1, <2>2, <2>3, ArriveStep
<1>3. CASE PassExternal(c)
  BY <1>3, LeaveStep DEF PassExternal, TypeOK
<1>4. pc[c] # "idle" => at[c][2] \in Names
  BY BackendFacts DEF TypeOK
<1>5. CASE Load(c)
  <2> DEFINE g == at[c][2]
             n == Target(g, asked[c])
  <2>1. /\ n \in members[g] /\ loaded' = [loaded EXCEPT ![g] = n] /\ Proceed(c)
        /\ UNCHANGED clientFrame /\ pc[c] # "idle"
    BY <1>5 DEF Load
  <2>2. g \in Names
    BY <1>4, <2>1
  <2> HIDE DEF g, n
  <2>3. n \in Names
    BY <2>1, <2>2 DEF TypeOK
  <2>4. loaded' \in [Names -> Names \cup {NoName}]
    BY <2>1, <2>3 DEF TypeOK
  <2> HIDE DEF RouterInv
  <2> QED
    BY <2>1, <2>4, LeaveStep
<1>6. CASE LoadErr(c)
  <2>1. loaded' \in [Names -> Names \cup {NoName}]
    BY <1>6 DEF LoadErr, TypeOK
  <2> QED
    BY <1>6, <2>1, LeaveStep DEF LoadErr
<1>7. CASE Refused(c)
  BY <1>7, LeaveStep DEF Refused, TypeOK
<1>8. CASE Proxy(c)
  BY <1>8, LeaveStep DEF Proxy, TypeOK
<1> QED
  BY <1>1, <1>2, <1>3, <1>5, <1>6, <1>7, <1>8 DEF ClientStep

\* A slot is emptied, the file is edited, or nothing happens.
LEMMA QuietStep ==
  ASSUME RouterInv, UNCHANGED <<live, liveVars, viewVars, asked, at, pc, reloadVars>>,
         file' \in Files, loaded' \in [Names -> Names \cup {NoName}]
  PROVE  RouterInv' /\ Grows
<1> USE DEF RouterInv
<1>1. UNCHANGED <<live, members, default, registry, backends, aliases, seen, published,
                  shared, asked, at, pc, cfg, todo>>
  BY DEF liveVars, viewVars, reloadVars
<1>2. TypeOK'
  BY <1>1 DEF TypeOK
<1>3. Places'
  BY <1>1 DEF Places
<1>4. Wiring' /\ Grows
  BY <1>1, WiringStays
<1>5. Routed' /\ Plan'
  BY <1>1, PlanStays
<1>6. Recognised'
  BY <1>1, <1>4, GrowthKeeps DEF Wiring
<1> QED
  BY <1>2, <1>3, <1>4, <1>5, <1>6

LEMMA ReloadKeepsInv ==
  ASSUME RouterInv, NEW r \in Reloads, ReloadStep(r)
  PROVE  RouterInv' /\ Grows
<1>1. ASSUME NEW i \in todo[r], ReloadMember(r, i) PROVE RouterInv' /\ Grows
  BY <1>1, ReloadSkipStep, ReloadJoinStep
<1> QED
  BY <1>1, ReloadReadStep, ReloadEnterStep, ReloadPublishStep, ReloadExternalStep,
     ReloadSlotStep, ReloadAliasStep DEF ReloadStep

\* A restart is a boot.
LEMMA RestartBoots == TypeOK /\ Restart => Init'
BY DEF TypeOK, Restart, Init

LEMMA StepGrows == RouterInv /\ [Next]_vars /\ ~Restart => RouterInv' /\ Grows
<1> SUFFICES ASSUME RouterInv, [Next]_vars, ~Restart PROVE RouterInv' /\ Grows
  OBVIOUS
<1>1. TypeOK
  BY DEF RouterInv
<1>2. ASSUME NEW g \in Names, Emptied(g) PROVE RouterInv' /\ Grows
  BY <1>1, <1>2, QuietStep DEF Emptied, clientFrame, TypeOK
<1>3. ASSUME NEW f \in Files, Edit(f) PROVE RouterInv' /\ Grows
  BY <1>1, <1>3, QuietStep DEF Edit, clientVars, TypeOK
<1>4. CASE UNCHANGED vars
  BY <1>1, <1>4, QuietStep DEF vars, liveVars, viewVars, reloadVars, TypeOK
<1> QED
  BY <1>2, <1>3, <1>4, ReloadKeepsInv, ClientKeepsInv DEF Next

LEMMA RouterInvIsInductive == Spec => []RouterInv
<1>1. RouterInv /\ Restart => Init'
  BY RestartBoots DEF RouterInv
<1>2. RouterInv /\ [Next]_vars => RouterInv'
  BY <1>1, StepGrows, InitInv, PTL
<1> QED
  BY <1>2, InitInv, PTL DEF Spec

-----------------------------------------------------------------------------
(* The theorems *)

\* The router's state is well typed in every reachable state.
THEOREM RouterTypes == Spec => []TypeOK
<1>1. RouterInv => TypeOK
  BY DEF RouterInv
<1> QED
  BY <1>1, RouterInvIsInductive, PTL

\* A resolved request is never told by its slot that it has no such member.
THEOREM NamesAreRecognised == Spec => []Recognised
<1>1. RouterInv => Recognised
  BY DEF RouterInv
<1> QED
  BY <1>1, RouterInvIsInductive, PTL

\* Reloads only ever add to what the boot has set up.
THEOREM RegistryOnlyGrows == Spec => Additive
<1> DEFINE Growth ==
      Restart \/
        /\ \A k \in Keys : registry[k] # NoBackend => registry'[k] = registry[k]
        /\ \A g \in Names : members[g] \subseteq members'[g]
        /\ \A g \in Names : default[g] # NoName => default'[g] = default[g]
<1>1. RouterInv /\ [Next]_vars => [Growth]_vars
  BY StepGrows DEF Grows
<1> QED
  BY <1>1, RouterInvIsInductive, PTL DEF Spec, Additive

\* Only a reload's last step takes it from its work to its end.
LEMMA OnlyPublishEnds ==
  ASSUME RouterInv, [Next]_vars, ~Restart, NEW r \in Reloads, pc[r] = "add", pc'[r] = "idle"
  PROVE  ReloadPublish(r)
<1>1. pc \in [Clients \cup Reloads ->
               {"idle", "request", "start", "proxy", "lock", "add", "alias"}]
      /\ r \notin Clients
  BY RouterAssumption DEF RouterInv, TypeOK
<1>2. ASSUME NEW q \in Reloads, ReloadStep(q) PROVE ReloadPublish(r)
  <2>1. CASE ReloadRead(q)
    BY <1>1, <2>1 DEF ReloadRead
  <2>2. CASE ReloadEnter(q)
    BY <1>1, <2>2 DEF ReloadEnter
  <2>3. CASE ReloadPublish(q)
    BY <1>1, <2>3 DEF ReloadPublish, Idle
  <2>4. ASSUME NEW i \in todo[q],
               ReloadExternal(q, i) \/ ReloadMember(q, i) \/ ReloadSlot(q, i) \/ ReloadAlias(q, i)
        PROVE  FALSE
    <3>1. pc' \in {pc, [pc EXCEPT ![q] = "alias"], [pc EXCEPT ![q] = "add"]}
      BY <2>4 DEF ReloadExternal, ReloadMember, ReloadSlot, ReloadAlias
    <3> QED
      BY <1>1, <3>1
  <2> QED
    BY <1>2, <2>1, <2>2, <2>3, <2>4 DEF ReloadStep
<1>3. ASSUME NEW c \in Clients, ClientStep(c) PROVE FALSE
  <2>1. \/ pc' = [pc EXCEPT ![c] = "request"] \/ pc' = [pc EXCEPT ![c] = "start"]
        \/ pc' = [pc EXCEPT ![c] = "idle"] \/ pc' = [pc EXCEPT ![c] = "proxy"]
    BY <1>3 DEF ClientStep, Request, Start, Arrive, PassExternal, Load, LoadErr, Refused,
                Proxy, Proceed, Finish
  <2> QED
    BY <1>1, <2>1
<1>4. ASSUME NEW g \in Names, Emptied(g) PROVE FALSE
  BY <1>4 DEF Emptied
<1>5. ASSUME NEW f \in Files, Edit(f) PROVE FALSE
  BY <1>5 DEF Edit
<1>6. CASE UNCHANGED vars
  BY <1>6 DEF vars
<1> QED
  BY <1>2, <1>3, <1>4, <1>5, <1>6 DEF Next

\* A reload that succeeds has seen to every entry of the file it has read.
THEOREM ReloadIsComplete == Spec => ReloadCovers
<1> DEFINE Covers ==
      \A r \in Reloads : pc[r] = "add" /\ pc'[r] = "idle" /\ ~Restart =>
        \A e \in EntriesOf(cfg[r]) : registry'[Canon[e.name]] # NoBackend
<1>1. ASSUME RouterInv, [Next]_vars PROVE Covers
  <2> SUFFICES ASSUME NEW r \in Reloads, pc[r] = "add", pc'[r] = "idle", ~Restart,
                      NEW e \in EntriesOf(cfg[r])
               PROVE  registry'[Canon[e.name]] # NoBackend
    OBVIOUS
  <2>1. ReloadPublish(r)
    BY <1>1, OnlyPublishEnds
  <2>2. todo[r] = {} /\ registry' = registry
    BY <2>1 DEF ReloadPublish, liveVars
  <2>3. live = r
    BY <1>1 DEF RouterInv, Places
  <2>4. PICK i \in 1..Len(cfg[r]) : e = cfg[r][i]
    BY DEF EntriesOf
  <2> QED
    BY <1>1, <2>2, <2>3, <2>4 DEF RouterInv, Plan, PlanAt
<1>2. RouterInv /\ [Next]_vars => [Covers]_vars
  BY <1>1
<1> QED
  BY <1>2, RouterInvIsInductive, PTL DEF Spec, ReloadCovers
-----------------------------------------------------------------------------
(* Who answers.  AskedIsServed is violated by the code; this is how far.    *)

\* What a slot has loaded is one of its members, and so is what a request that
\* is about to be sent has asked for.
Served ==
  /\ \A g \in Names : loaded[g] # NoName => loaded[g] \in members[g]
  /\ \A c \in Clients :
       pc[c] = "proxy" /\ at[c][1] = "slot" => Knows(at[c][2], asked[c])

\* Slot g has one member at most.
Single(g) == \A m, n \in members[g] : m = n

\* Members stay, so a step that loads nothing and lets no request pass leaves
\* everybody served.
LEMMA ServedGrows ==
  ASSUME RouterInv, Served, Grows,
         \A g \in Names : \/ loaded'[g] \in {loaded[g], NoName}
                          \/ loaded'[g] \in members[g],
         \A c \in Clients :
           pc'[c] = "proxy" => \/ pc[c] = "proxy" /\ asked'[c] = asked[c] /\ at'[c] = at[c]
                               \/ at'[c][1] = "slot" /\ at'[c] \in Backends =>
                                    Knows(at'[c][2], asked'[c]),
         TypeOK'
  PROVE  Served'
<1>1. \A g \in Names : \A n : Knows(g, n) => Target(g, n)' \in members'[g]
  BY DEF RouterInv, Wiring, SlotInv, Grows, Knows, Target
<1>2. ASSUME NEW c \in Clients, pc'[c] = "proxy", at'[c][1] = "slot"
      PROVE  Knows(at[c][2], asked[c])'
  <2>1. at'[c] \in Backends
    BY <1>2 DEF TypeOK
  <2>2. Knows(at'[c][2], asked'[c])
    BY <1>2, <2>1 DEF Served
  <2> QED
    BY <1>1, <2>1, <2>2, BackendFacts DEF Knows, Target
<1>3. \A g \in Names : loaded'[g] # NoName => loaded'[g] \in members'[g]
  BY DEF Served, Grows
<1> QED
  BY <1>2, <1>3 DEF Served

\* The steps of a client: a load is of a member, and a request is let through
\* only for a member that the slot knows.
LEMMA ServedClient ==
  ASSUME RouterInv, Served, Grows, TypeOK', NEW c \in Clients, ClientStep(c)
  PROVE  Served'
<1> USE DEF RouterInv, TypeOK
<1>1. ASSUME NEW n \in Names, NEW step \in {"request", "start"}, NEW found,
             Arrive(c, n, step, found)
      PROVE  Served'
  <2>1. loaded' = loaded /\ \A d \in Clients : pc'[d] = "proxy" => d # c /\ pc[d] = "proxy"
    BY <1>1 DEF Arrive
  <2>2. \A d \in Clients : d # c => asked'[d] = asked[d] /\ at'[d] = at[d]
    BY <1>1 DEF Arrive
  <2> QED
    BY <2>1, <2>2, ServedGrows
<1>2. ASSUME Finish(c), \A g \in Names : loaded'[g] \in {loaded[g], NoName}
      PROVE  Served'
  <2>1. \A d \in Clients : pc'[d] = "proxy" =>
          pc[d] = "proxy" /\ asked'[d] = asked[d] /\ at'[d] = at[d]
    BY <1>2 DEF Finish
  <2> QED
    BY <1>2, <2>1, ServedGrows
<1>3. ASSUME Proceed(c), at[c][1] = "slot" => Knows(at[c][2], asked[c]),
             \A g \in Names : loaded'[g] = loaded[g] \/ loaded'[g] \in members[g]
      PROVE  Served'
  <2>1. \A d \in Clients : pc'[d] = "proxy" =>
          /\ asked'[d] = asked[d] /\ at'[d] = at[d]
          /\ d # c => pc[d] = "proxy"
    BY <1>3 DEF Proceed, Finish
  <2> QED
    BY <1>3, <2>1, ServedGrows
<1>4. CASE PassExternal(c)
  BY <1>3, <1>4 DEF PassExternal
<1>5. CASE Load(c)
  <2>1. Knows(at[c][2], asked[c])
    BY <1>5 DEF Load, Knows
  <2>2. \A g \in Names : loaded'[g] = loaded[g] \/ loaded'[g] \in members[g]
    BY <1>5 DEF Load
  <2> QED
    BY <1>3, <1>5, <2>1, <2>2 DEF Load
<1>6. CASE LoadErr(c)
  BY <1>2, <1>6 DEF LoadErr
<1>7. CASE Refused(c) \/ Proxy(c)
  BY <1>2, <1>7 DEF Refused, Proxy
<1> QED
  BY <1>1, <1>4, <1>5, <1>6, <1>7 DEF ClientStep, Request, Start

\* Every step keeps Served.
LEMMA ServedStep == RouterInv /\ Served /\ [Next]_vars => Served'
<1> SUFFICES ASSUME RouterInv, Served, [Next]_vars PROVE Served'
  OBVIOUS
<1>1. CASE Restart
  BY <1>1 DEF Restart, Served
<1>2. CASE ~Restart
  <2>1. RouterInv' /\ Grows
    BY <1>2, StepGrows
  <2>2. TypeOK /\ TypeOK'
    BY <2>1 DEF RouterInv
  <2>3. ASSUME UNCHANGED <<asked, at>>, \A c \in Clients : pc'[c] = pc[c],
               \A g \in Names : loaded'[g] \in {loaded[g], NoName}
        PROVE  Served'
    BY <2>1, <2>2, <2>3, ServedGrows
  <2>4. ASSUME NEW r \in Reloads, ReloadStep(r) PROVE Served'
    <3>1. UNCHANGED <<loaded, asked, at>>
      BY <2>4 DEF ReloadStep, ReloadRead, ReloadEnter, ReloadPublish, ReloadExternal,
                  ReloadMember, ReloadSlot, ReloadAlias, reloadFrame, clientVars
    <3>2. \A c \in Clients : pc'[c] = pc[c]
      BY <2>2, <2>4, RouterAssumption
         DEF ReloadStep, ReloadRead, ReloadEnter, ReloadPublish, ReloadExternal,
             ReloadMember, ReloadSlot, ReloadAlias, Idle, TypeOK
    <3> QED
      BY <2>3, <3>1, <3>2
  <2>5. ASSUME NEW g \in Names, Emptied(g) PROVE Served'
    BY <2>2, <2>3, <2>5 DEF Emptied, TypeOK
  <2>6. ASSUME NEW f \in Files, Edit(f) PROVE Served'
    BY <2>3, <2>6 DEF Edit, clientVars
  <2>7. CASE UNCHANGED vars
    BY <2>3, <2>7 DEF vars
  <2> QED
    BY <1>2, <2>1, <2>2, <2>4, <2>5, <2>6, <2>7, ServedClient DEF Next
<1> QED
  BY <1>1, <1>2

\* The request that Proxy sends is answered by a member of its slot, if by any,
\* and by the one that it asked for if the slot has no other: a slot with
\* several members is the only cause of the violation that TLC shows.
THEOREM SingleIsServed ==
  Spec => [][\A c \in Clients : Proxy(c) /\ at[c][1] = "slot" =>
               LET g == at[c][2] IN
               /\ loaded[g] \in members[g] \cup {NoName}
               /\ Single(g) => loaded[g] \in {Target(g, asked[c]), NoName}]_vars
<1> DEFINE A ==
      \A c \in Clients : Proxy(c) /\ at[c][1] = "slot" =>
        LET g == at[c][2] IN
        /\ loaded[g] \in members[g] \cup {NoName}
        /\ Single(g) => loaded[g] \in {Target(g, asked[c]), NoName}
<1>1. Init => Served
  BY DEF Init, Served
<1>2. RouterInv /\ Served => A
  <2> SUFFICES ASSUME RouterInv, Served, NEW c \in Clients, pc[c] = "proxy",
                      at[c][1] = "slot", NEW g, g = at[c][2]
               PROVE  /\ loaded[g] \in members[g] \cup {NoName}
                      /\ Single(g) => loaded[g] \in {Target(g, asked[c]), NoName}
    BY DEF Proxy
  <2>1. g \in Names
    BY BackendFacts DEF RouterInv, TypeOK
  <2>2. Target(g, asked[c]) \in members[g]
    BY DEF Served, Knows
  <2> QED
    BY <2>1, <2>2 DEF Served, Single
<1>3. RouterInv /\ Served => [A]_vars
  BY <1>2
<1> HIDE DEF A
<1>4. Spec => [][A]_vars
  BY <1>1, <1>3, RouterInvIsInductive, ServedStep, PTL DEF Spec
<1> QED
  BY <1>4 DEF A
=============================================================================
