-------------------------- MODULE ConfigFileProofs --------------------------
(***************************************************************************)
(* The commands of mlxctl keep config.toml for any files, names, ports,    *)
(* commands and shells, as long as only one of them rewrites.  ConfigInv   *)
(* is the inductive invariant: Rewriter says that one shell rewrites and   *)
(* which command has truncated the file, InHand what a rewrite has in its  *)
(* hands, Fresh what an add or a scan knows while it is alone.             *)
(***************************************************************************)
EXTENDS ConfigFile, SequenceTheorems, WellFoundedInduction, TLAPS

-----------------------------------------------------------------------------
(* Texts and what they mean *)

\* A set of naturals that is not empty has a least element, and Min is it.
LEMMA LeastOfNats ==
  ASSUME NEW S \in SUBSET Nat, S # {}
  PROVE  Min(S) \in S
<1> DEFINE Less == {ss \in Nat \X Nat : ss[1] < ss[2]}
<1>1. \A x, y \in Nat : x < y => <<x, y>> \in Less
  BY SMT
<1>2. IsWellFoundedOn(Less, Nat)
  BY NatLessThanWellFounded DEF OpToRel
<1> HIDE DEF Less
<1>3. PICK x \in S : \A y \in S : ~(<<y, x>> \in Less)
  BY <1>2, WFMin
<1>4. ASSUME NEW y \in S PROVE x <= y
  <2>1. ~(y < x)
    BY <1>1, <1>3
  <2>2. QED
    BY <2>1
<1>5. QED
  BY <1>3, <1>4 DEF Min

LEMMA NormalType == \A b \in Blocks : Normal(b) \in Specs
BY ConfigAssumption DEF Normal, SlotOf, Named, Blocks, Specs

LEMMA MeaningType ==
  ASSUME NEW f \in Texts
  PROVE  /\ f.head \in BOOLEAN
         /\ f.blocks \in Seq(Blocks)
         /\ Meaning(f) \in Seq(Specs)
         /\ DOMAIN f.blocks = 1..Len(f.blocks) /\ Len(f.blocks) \in Nat
         /\ DOMAIN Meaning(f) = 1..Len(f.blocks)
         /\ Len(Meaning(f)) = Len(f.blocks)
         /\ SpecsOf(f) \subseteq Specs
         /\ SpecsOf(f) = {Meaning(f)[i] : i \in DOMAIN Meaning(f)}
<1>1. f.head \in BOOLEAN /\ f.blocks \in Seq(Blocks)
  BY DEF Texts
<1>2. DOMAIN f.blocks = 1..Len(f.blocks) /\ Len(f.blocks) \in Nat
  BY <1>1, LenProperties
<1>3. \A i \in DOMAIN f.blocks : Normal(f.blocks[i]) \in Specs
  BY <1>1, <1>2, ElementOfSeq, NormalType
<1>4. Meaning(f) \in [1..Len(f.blocks) -> Specs]
  BY <1>2, <1>3 DEF Meaning
<1>5. Meaning(f) \in Seq(Specs) /\ Len(Meaning(f)) = Len(f.blocks)
  BY <1>2, <1>4, LenProperties
<1>6. SpecsOf(f) \subseteq Specs
  BY <1>3 DEF SpecsOf
<1>7. SpecsOf(f) = {Meaning(f)[i] : i \in DOMAIN Meaning(f)}
  BY DEF SpecsOf, Meaning
<1>8. QED
  BY <1>1, <1>2, <1>4, <1>5, <1>6, <1>7

LEMMA SlotForType == \A j \in Commands : SlotFor(j) \in Names
BY ConfigAssumption DEF SlotFor, Commands

\* The mates of a slot are places of the configuration.
LEMMA MatesArePlaces ==
  ASSUME NEW c \in Seq(Specs), NEW g
  PROVE  /\ Mates(c, g) \subseteq DOMAIN c /\ Mates(c, g) \in SUBSET Nat
         /\ \A i \in Mates(c, g) : c[i] \in Specs /\ c[i].mode = "swap" /\ c[i].slot = g
BY DEF Mates

LEMMA PortsType ==
  ASSUME NEW j \in Commands, NEW c \in Seq(Specs)
  PROVE  PortsFor(j, c) \subseteq Ports \cup {0}
<1>1. j.port \in Ports \cup {0}
  BY DEF Commands
<1>2. ASSUME Inherits(j, c) # {}
      PROVE  c[Min(Inherits(j, c))].port \in Ports \cup {0}
  <2>1. Inherits(j, c) = Mates(c, SlotFor(j))
    BY <1>2 DEF Inherits
  <2>2. Min(Mates(c, SlotFor(j))) \in Mates(c, SlotFor(j))
    BY <1>2, <2>1, MatesArePlaces, LeastOfNats
  <2>3. c[Min(Mates(c, SlotFor(j)))] \in Specs
    BY <2>2, MatesArePlaces
  <2>4. QED
    BY <2>1, <2>3 DEF Specs
<1>3. QED
  BY <1>1, <1>2 DEF PortsFor

LEMMA RenderedType ==
  \A j \in Commands : \A p \in Ports \cup {0} : Rendered(j, p) \in Blocks
<1> SUFFICES ASSUME NEW j \in Commands, NEW p \in Ports \cup {0}
             PROVE  Rendered(j, p) \in Blocks
  OBVIOUS
<1>1. /\ j.name \in Names /\ j.external \in BOOLEAN /\ j.default \in BOOLEAN
      /\ j.model \in Models
  BY DEF Commands
<1>2. SlotFor(j) \in Names
  BY SlotForType
<1>3. QED
  BY <1>1, <1>2 DEF Rendered, Blocks

\* An append adds one meaning at the end.
LEMMA AppendMeaning ==
  ASSUME NEW f \in Texts, NEW b \in Blocks, NEW g, g = [f EXCEPT !.blocks = Append(@, b)]
  PROVE  /\ g \in Texts /\ g.head = f.head
         /\ g.blocks = Append(f.blocks, b)
         /\ Meaning(g) = Append(Meaning(f), Normal(b))
         /\ SpecsOf(g) = SpecsOf(f) \cup {Normal(b)}
<1> DEFINE s == f.blocks
           t == Append(s, b)
<1>1. s \in Seq(Blocks) /\ f.head \in BOOLEAN
  BY DEF Texts
<1>2. g = [head |-> f.head, blocks |-> t]
  BY DEF Texts
<1>3. /\ t \in Seq(Blocks)
      /\ DOMAIN s = 1..Len(s) /\ Len(s) \in Nat
      /\ DOMAIN t = 1..(Len(s) + 1)
      /\ t[Len(s) + 1] = b
      /\ \A i \in 1..Len(s) : t[i] = s[i]
  BY <1>1, AppendProperties, LenProperties
<1>4. g \in Texts /\ g.head = f.head /\ g.blocks = t
  BY <1>1, <1>2, <1>3 DEF Texts
<1> HIDE DEF s, t
<1>5. SpecsOf(g) = SpecsOf(f) \cup {Normal(b)}
  <2>1. SpecsOf(g) = {Normal(t[i]) : i \in 1..(Len(s) + 1)}
    BY <1>3, <1>4 DEF SpecsOf
  <2>2. SpecsOf(f) = {Normal(s[i]) : i \in 1..Len(s)}
    BY <1>3 DEF SpecsOf, s
  <2>3. 1..(Len(s) + 1) = (1..Len(s)) \cup {Len(s) + 1}
    BY <1>3
  <2>4. QED
    BY <1>3, <2>1, <2>2, <2>3
<1>6. Meaning(g) = Append(Meaning(f), Normal(b))
  <2>1. Meaning(f) \in Seq(Specs) /\ Len(Meaning(f)) = Len(s)
    BY MeaningType DEF s
  <2>2. Normal(b) \in Specs
    BY NormalType
  <2>3. /\ DOMAIN Append(Meaning(f), Normal(b)) = 1..(Len(s) + 1)
        /\ Append(Meaning(f), Normal(b))[Len(s) + 1] = Normal(b)
        /\ \A i \in 1..Len(s) : Append(Meaning(f), Normal(b))[i] = Meaning(f)[i]
        /\ Append(Meaning(f), Normal(b)) \in Seq(Specs)
    BY <2>1, <2>2, AppendProperties, LenProperties
  <2>4. Meaning(g) = [i \in 1..(Len(s) + 1) |-> Normal(t[i])]
    BY <1>3, <1>4 DEF Meaning
  <2>5. \A i \in 1..Len(s) : Meaning(f)[i] = Normal(s[i])
    BY <1>3 DEF Meaning, s
  <2>6. \A i \in 1..(Len(s) + 1) : Append(Meaning(f), Normal(b))[i] = Normal(t[i])
    <3> SUFFICES ASSUME NEW i \in 1..(Len(s) + 1)
                 PROVE  Append(Meaning(f), Normal(b))[i] = Normal(t[i])
      OBVIOUS
    <3>1. CASE i = Len(s) + 1
      BY <1>3, <2>3, <3>1
    <3>2. CASE i # Len(s) + 1
      <4>1. i \in 1..Len(s)
        BY <1>3, <3>2
      <4>2. QED
        BY <1>3, <2>3, <2>5, <4>1
    <3>3. QED
      BY <3>1, <3>2
  <2>7. PICK a \in Seq(Specs) : a = Append(Meaning(f), Normal(b))
    BY <2>3
  <2>8. a \in [1..(Len(s) + 1) -> Specs]
    BY <2>3, <2>7, LenProperties
  <2>9. a = [i \in 1..(Len(s) + 1) |-> Normal(t[i])]
    BY <2>6, <2>7, <2>8
  <2>10. QED
    BY <2>4, <2>7, <2>9
<1>7. QED
  BY <1>4, <1>5, <1>6 DEF s, t

LEMMA MigratedBlockMeaning ==
  ASSUME NEW b \in Blocks, ~(b.group # NoName /\ b.slot # NoName)
  PROVE  Normal(MigratedBlock(b)) = Normal(b)
<1>1. PICK m : m = MigratedBlock(b)
  OBVIOUS
<1>2. /\ m.name = b.name /\ m.port = b.port /\ m.default = b.default
      /\ m.url = b.url /\ m.model = b.model
      /\ m.slot = IF b.group # NoName THEN b.group ELSE b.slot
      /\ m.group = NoName /\ m.mode = ""
  BY <1>1 DEF MigratedBlock, Blocks
<1>3. m.remote = (b.remote \/ b.mode = "external")
  BY <1>1, Zenon DEF MigratedBlock, StaysRemote, Blocks
<1>4. SlotOf(m) = SlotOf(b)
  BY <1>2 DEF SlotOf, Named
<1>5. m.mode # "external"
  BY <1>2
<1>6. (m.remote \/ m.mode = "external") <=> (b.remote \/ b.mode = "external")
  BY <1>3, <1>5, Zenon
<1>7. (IF m.remote \/ m.mode = "external" THEN "external" ELSE "swap")
        = (IF b.remote \/ b.mode = "external" THEN "external" ELSE "swap")
  BY <1>6, Zenon
<1>8. QED
  BY <1>1, <1>2, <1>4, <1>7, Zenon DEF Normal

\* A migration changes the words and nothing that they mean.
LEMMA MigratedMeaning ==
  ASSUME NEW f \in Texts
  PROVE  /\ Migrated(f) \in Texts
         /\ ~Clashes(f) => Meaning(Migrated(f)) = Meaning(f) /\ SpecsOf(Migrated(f)) = SpecsOf(f)
<1> DEFINE s == f.blocks
           t == [i \in DOMAIN s |-> MigratedBlock(s[i])]
<1>1. s \in Seq(Blocks) /\ f.head \in BOOLEAN /\ DOMAIN s = 1..Len(s) /\ Len(s) \in Nat
  BY LenProperties DEF Texts
<1>2. \A i \in DOMAIN s : s[i] \in Blocks
  BY <1>1
<1>3. \A b \in Blocks : MigratedBlock(b) \in Blocks
  BY ConfigAssumption DEF MigratedBlock, StaysRemote, Blocks
<1>4. t \in Seq(Blocks) /\ DOMAIN t = DOMAIN s
  BY <1>1, <1>2, <1>3
<1>5. Migrated(f) = [head |-> f.head, blocks |-> t]
  BY DEF Migrated, Texts
<1>6. Migrated(f) \in Texts /\ Migrated(f).blocks = t
  BY <1>1, <1>4, <1>5 DEF Texts
<1>7. ASSUME ~Clashes(f), NEW i \in DOMAIN s
      PROVE  Normal(t[i]) = Normal(s[i])
  BY <1>2, <1>7, MigratedBlockMeaning DEF Clashes
<1> HIDE DEF t
<1>8. ASSUME ~Clashes(f)
      PROVE  Meaning(Migrated(f)) = Meaning(f) /\ SpecsOf(Migrated(f)) = SpecsOf(f)
  BY <1>4, <1>6, <1>7, <1>8 DEF Meaning, SpecsOf
<1>9. QED
  BY <1>6, <1>8

-----------------------------------------------------------------------------
(* The invariant *)

\* From reading the text to writing it, and what comes after the new text is known.
RewriteSteps == {"replace", "bakcut", "backup", "cut", "write"}

\* A command that rewrites is one of the shell that may, and the file is whole
\* until it has truncated it.
Rewriter ==
  \A w \in Writers : pc[w] \in RewriteSteps =>
    /\ job[w] \in Jobs[w] /\ Rewrites(job[w])
    /\ job[w].kind \in {"add", "migrate"}
    /\ pc[w] = "replace" => job[w].kind = "add"
    /\ pc[w] \in {"bakcut", "backup"} => job[w].kind = "migrate"
    /\ cut = IF pc[w] = "write" THEN job[w].kind ELSE "none"

\* A truncated file stays one that does not load until it is written.
Headless == cut # "none" => ~file.head

\* What must not be forgotten is in the new text, and in a migrate's backup.
InHand ==
  \A w \in Writers : w \in Rewriting =>
    /\ {s \in done : Others(w, s)} \subseteq SpecsOf(buf[w])
    /\ job[w].kind = "migrate" =>
         /\ Loads(buf[w])
         /\ Meaning(buf[w]) = Meaning(src[w])
         /\ SpecsOf(buf[w]) = SpecsOf(src[w])
         /\ pc[w] \in {"cut", "write"} => bak = src[w]

\* While nobody else has changed the file, the command knows it.
Fresh ==
  \A w \in Writers :
    /\ alone[w] /\ pc[w] \in {"append", "scan"} => cfg[w] = Meaning(file)
    /\ pc[w] = "append" => ~Taken(job[w], cfg[w])

ConfigInv ==
  /\ TypeOK
  /\ Rewriter
  /\ Headless
  /\ InHand
  /\ Fresh
  /\ NothingForgotten

-----------------------------------------------------------------------------
(* The types *)

LEMMA EmptyTypes ==
  /\ NoJob \in Commands /\ Empty \in Texts /\ <<>> \in Seq(Specs)
  /\ Meaning(Empty) = <<>> /\ SpecsOf(Empty) = {}
<1>1. (CHOOSE m \in Models : TRUE) \in Models
  BY ConfigAssumption
<1>2. NoJob \in Commands
  BY <1>1, ConfigAssumption DEF NoJob, Commands
<1>3. Empty \in Texts /\ <<>> \in Seq(Specs)
  BY DEF Empty, Texts
<1>4. Meaning(Empty) = <<>> /\ SpecsOf(Empty) = {}
  BY DEF Meaning, SpecsOf, Empty
<1>5. QED
  BY <1>2, <1>3, <1>4

\* The commands of each shell are commands.
LEMMA JobType == \A w \in Writers : \A j \in Jobs[w] : j \in Commands
BY ConfigAssumption

LEMMA InitInv == Init => ConfigInv
<1> SUFFICES ASSUME Init PROVE ConfigInv
  OBVIOUS
<1> USE DEF Init
<1>1. file \in Texts
  BY ConfigAssumption
<1>2. TypeOK
  <2>1. SpecsOf(file) \subseteq Specs
    BY <1>1, MeaningType
  <2>2. known \subseteq Specs /\ done \subseteq Specs
    BY <2>1
  <2>3. /\ pc \in [Writers -> Steps] /\ alone \in [Writers -> BOOLEAN]
        /\ todo \in [Writers -> SUBSET DOMAIN Dirs]
    BY DEF Steps
  <2>4. /\ job \in [Writers -> Commands] /\ cfg \in [Writers -> Seq(Specs)]
        /\ src \in [Writers -> Texts] /\ buf \in [Writers -> Texts]
        /\ bak \in Texts
    BY EmptyTypes
  <2>5. QED
    BY <1>1, <2>2, <2>3, <2>4 DEF TypeOK
<1>3. Rewriter /\ InHand /\ Fresh
  BY DEF Rewriter, RewriteSteps, InHand, Rewriting, Fresh
<1>4. Headless /\ NothingForgotten
  BY DEF Headless, NothingForgotten, Text
<1>5. QED
  BY <1>2, <1>3, <1>4 DEF ConfigInv

\* What an add or a scan appends is a block.
LEMMA AppendedBlock ==
  ASSUME TypeOK, NEW w \in Writers
  PROVE  /\ \A p \in PortsFor(job[w], cfg[w]) :
              p \in Ports \cup {0} /\ Rendered(job[w], p) \in Blocks
         /\ \A i \in todo[w] : /\ Dirs[i] \in Commands
                               /\ \A p \in PortsFor(Dirs[i], cfg[w]) :
                                    p \in Ports \cup {0} /\ Rendered(Dirs[i], p) \in Blocks
<1>1. job[w] \in Commands /\ cfg[w] \in Seq(Specs) /\ todo[w] \subseteq DOMAIN Dirs
  BY DEF TypeOK
<1>2. \A i \in todo[w] : Dirs[i] \in Commands
  BY <1>1, ConfigAssumption, ElementOfSeq
<1>3. QED
  BY <1>1, <1>2, PortsType, RenderedType

\* The directory whose turn it is.
LEMMA TurnOfScan ==
  ASSUME TypeOK, NEW w \in Writers, todo[w] # {}
  PROVE  Min(todo[w]) \in todo[w]
<1>1. todo[w] \in SUBSET Nat
  BY ConfigAssumption DEF TypeOK
<1>2. QED
  BY <1>1, LeastOfNats

LEMMA AppendedTypes ==
  ASSUME TypeOK, NEW w \in Writers, NEW b \in Blocks, Appended(w, b), pc' \in [Writers -> Steps]
  PROVE  /\ file' \in Texts /\ file'.head = file.head
         /\ Meaning(file)' = Append(Meaning(file), Normal(b))
         /\ SpecsOf(file)' = SpecsOf(file) \cup {Normal(b)}
         /\ done' \subseteq Specs
         /\ alone' \in [Writers -> BOOLEAN]
<1>1. file \in Texts /\ file' = [file EXCEPT !.blocks = Append(@, b)]
  BY DEF TypeOK, Appended
<1>2. /\ file' \in Texts /\ file'.head = file.head
      /\ Meaning(file') = Append(Meaning(file), Normal(b))
      /\ SpecsOf(file') = SpecsOf(file) \cup {Normal(b)}
  BY <1>1, AppendMeaning
<1>3. Meaning(file)' = Meaning(file') /\ SpecsOf(file)' = SpecsOf(file')
  BY DEF Meaning, SpecsOf
<1>4. done' \subseteq Specs
  BY NormalType DEF Appended, TypeOK
<1>5. alone' \in [Writers -> BOOLEAN]
  <2>1. alone' = [v \in Writers |-> v = w /\ alone[w] /\ pc'[w] # "idle"]
    BY DEF Appended, Writes
  <2>2. \A v \in Writers : (v = w /\ alone[w] /\ pc'[w] # "idle") \in BOOLEAN
    BY Zenon
  <2>3. QED
    BY <2>1, <2>2
<1>6. QED
  BY <1>2, <1>3, <1>4, <1>5

\* What mlxd has loaded stays within what can be loaded.
LEMMA ReloadedType ==
  ASSUME NEW k \in SUBSET Specs, NEW f \in Texts
  PROVE  Reloaded(k, f) \in SUBSET Specs
<1>1. ASSUME NEW s \in Specs PROVE Joined(k, s) \in Specs
  <2> DEFINE mates == {t \in k : t.mode = "swap" /\ t.slot = s.slot}
  <2>1. CASE s.mode = "swap" /\ mates # {}
    <3>1. (CHOOSE t \in mates : TRUE) \in Specs
      BY <2>1
    <3>2. (CHOOSE t \in mates : TRUE).port \in Ports \cup {0}
      BY <3>1 DEF Specs
    <3>3. Joined(k, s) = [s EXCEPT !.port = (CHOOSE t \in mates : TRUE).port]
      BY <2>1 DEF Joined
    <3> HIDE DEF mates
    <3>4. QED
      BY <3>2, <3>3 DEF Specs
  <2>2. CASE ~(s.mode = "swap" /\ mates # {})
    BY <2>2 DEF Joined
  <2>3. QED
    BY <2>1, <2>2
<1>2. SpecsOf(f) \subseteq Specs
  BY MeaningType
<1>3. QED
  BY <1>1, <1>2 DEF Reloaded

\* The text that replaceBackend writes: the first block of the name is another.
LEMMA ReplacedText ==
  ASSUME TypeOK, NEW w \in Writers, ReplaceRead(w)
  PROVE  \E p \in PortsFor(job[w], cfg[w]), i \in DOMAIN file.blocks :
           /\ Rendered(job[w], p) \in Blocks
           /\ file.blocks[i].name = job[w].name
           /\ buf' = [buf EXCEPT ![w] = [file EXCEPT !.blocks[i] = Rendered(job[w], p)]]
           /\ [file EXCEPT !.blocks[i] = Rendered(job[w], p)] \in Texts
<1> DEFINE there == BlocksOf(file, job[w].name)
<1>1. file \in Texts /\ file.blocks \in Seq(Blocks) /\ DOMAIN file.blocks = 1..Len(file.blocks)
  BY MeaningType DEF TypeOK
<1>2. Min(there) \in there
  <2>1. there \in SUBSET Nat /\ there # {}
    BY <1>1 DEF BlocksOf, ReplaceRead
  <2>2. QED
    BY <2>1, LeastOfNats
<1>3. PICK i \in DOMAIN file.blocks : i = Min(there) /\ file.blocks[i].name = job[w].name
  BY <1>2 DEF BlocksOf
<1>4. PICK p \in PortsFor(job[w], cfg[w]) :
        buf' = [buf EXCEPT ![w] = [file EXCEPT !.blocks[Min(there)] = Rendered(job[w], p)]]
  BY DEF ReplaceRead
<1>5. Rendered(job[w], p) \in Blocks
  BY AppendedBlock
<1>6. [file EXCEPT !.blocks[i] = Rendered(job[w], p)] \in Texts
  <2>1. [file.blocks EXCEPT ![i] = Rendered(job[w], p)] \in Seq(Blocks)
    BY <1>1, <1>5, ExceptSeq
  <2>2. QED
    BY <1>1, <2>1 DEF Texts
<1>7. QED
  BY <1>3, <1>4, <1>5, <1>6

LEMMA TypeStep == ConfigInv /\ [Next]_vars => TypeOK'
<1> SUFFICES ASSUME ConfigInv, [Next]_vars PROVE TypeOK'
  OBVIOUS
<1>0. TypeOK
  BY DEF ConfigInv
<1> USE DEF commandVars
<1>1. ASSUME NEW w \in Writers, NEW step \in Steps, Go(w, step)
      PROVE  pc' \in [Writers -> Steps]
  BY <1>0, <1>1 DEF Go, TypeOK
<1>2. ASSUME NEW w \in Writers, Finished(w)
      PROVE  /\ pc' \in [Writers -> Steps] /\ job' \in [Writers -> Commands]
             /\ cfg' \in [Writers -> Seq(Specs)] /\ src' \in [Writers -> Texts]
             /\ buf' \in [Writers -> Texts] /\ todo' \in [Writers -> SUBSET DOMAIN Dirs]
  BY <1>0, <1>2, EmptyTypes DEF Finished, Go, Steps, TypeOK
<1>3. ASSUME NEW w \in Writers, Reads(w) \/ Leaves(w)
      PROVE  alone' \in [Writers -> BOOLEAN]
  BY <1>0, <1>3 DEF Reads, Leaves, TypeOK
<1>4. ASSUME NEW w \in Writers, Writes(w)
      PROVE  alone' \in [Writers -> BOOLEAN]
  <2>1. alone' = [v \in Writers |-> v = w /\ alone[w] /\ pc'[w] # "idle"]
    BY <1>4 DEF Writes
  <2>2. \A v \in Writers : (v = w /\ alone[w] /\ pc'[w] # "idle") \in BOOLEAN
    BY Zenon
  <2>3. QED
    BY <2>1, <2>2
<1>5. Meaning(file) \in Seq(Specs) /\ SpecsOf(file) \subseteq Specs /\ Migrated(file) \in Texts
  BY <1>0, MeaningType, MigratedMeaning DEF TypeOK
<1>6. ASSUME NEW w \in Writers, CommandStep(w) PROVE TypeOK'
  <2>1. ASSUME NEW j \in Jobs[w], AddRead(w, j) PROVE TypeOK'
    <3>1. pc' \in [Writers -> Steps]
      BY <1>1, <2>1 DEF AddRead, Steps
    <3>2. alone' \in [Writers -> BOOLEAN]
      BY <1>3, <2>1 DEF AddRead
    <3>3. job' \in [Writers -> Commands] /\ cfg' \in [Writers -> Seq(Specs)]
      BY <1>0, <1>5, <2>1, JobType DEF AddRead, TypeOK
    <3>4. QED
      BY <1>0, <2>1, <3>1, <3>2, <3>3 DEF AddRead, TypeOK
  <2>2. ASSUME NEW j \in Jobs[w], ScanRead(w, j) PROVE TypeOK'
    <3>1. pc' \in [Writers -> Steps]
      BY <1>1, <2>2 DEF ScanRead, Steps
    <3>2. alone' \in [Writers -> BOOLEAN]
      BY <1>3, <2>2 DEF ScanRead
    <3>3. /\ job' \in [Writers -> Commands] /\ cfg' \in [Writers -> Seq(Specs)]
          /\ todo' \in [Writers -> SUBSET DOMAIN Dirs]
      BY <1>0, <1>5, <2>2, JobType DEF ScanRead, TypeOK
    <3>4. QED
      BY <1>0, <2>2, <3>1, <3>2, <3>3 DEF ScanRead, TypeOK
  <2>3. ASSUME NEW j \in Jobs[w], MigrateRead(w, j) PROVE TypeOK'
    <3>1. pc' \in [Writers -> Steps]
      BY <1>1, <2>3 DEF MigrateRead, Steps
    <3>2. alone' \in [Writers -> BOOLEAN]
      BY <1>3, <2>3 DEF MigrateRead
    <3>3. /\ job' \in [Writers -> Commands] /\ src' \in [Writers -> Texts]
          /\ buf' \in [Writers -> Texts]
      BY <1>0, <1>5, <2>3, JobType DEF MigrateRead, TypeOK
    <3>4. QED
      BY <1>0, <2>3, <3>1, <3>2, <3>3 DEF MigrateRead, TypeOK
  <2>4. CASE AddAppend(w)
    <3>1. /\ pc' \in [Writers -> Steps] /\ job' \in [Writers -> Commands]
          /\ cfg' \in [Writers -> Seq(Specs)] /\ src' \in [Writers -> Texts]
          /\ buf' \in [Writers -> Texts] /\ todo' \in [Writers -> SUBSET DOMAIN Dirs]
      <4>1. CASE Finished(w)
        BY <1>2, <4>1
      <4>2. CASE Go(w, "reload") /\ UNCHANGED commandVars
        BY <1>0, <1>1, <4>2 DEF Steps, TypeOK
      <4>3. QED
        BY <2>4, <4>1, <4>2 DEF AddAppend
    <3>2. PICK p \in PortsFor(job[w], cfg[w]) : Appended(w, Rendered(job[w], p))
      BY <2>4 DEF AddAppend
    <3>3. Rendered(job[w], p) \in Blocks
      BY <1>0, AppendedBlock
    <3>4. file' \in Texts /\ done' \subseteq Specs /\ alone' \in [Writers -> BOOLEAN]
      BY <1>0, <3>1, <3>2, <3>3, AppendedTypes
    <3>5. QED
      BY <1>0, <2>4, <3>1, <3>4 DEF AddAppend, TypeOK
  <2>5. CASE ReplaceRead(w)
    <3>1. pc' \in [Writers -> Steps]
      BY <1>1, <2>5 DEF ReplaceRead, Steps
    <3>2. buf' \in [Writers -> Texts]
      BY <1>0, <2>5, ReplacedText DEF TypeOK
    <3>3. QED
      BY <1>0, <2>5, <3>1, <3>2 DEF ReplaceRead, TypeOK
  <2>6. CASE ScanAppend(w)
    <3> DEFINE i == Min(todo[w])
    <3>1. PICK p \in PortsFor(Dirs[i], cfg[w]) :
            /\ Appended(w, Rendered(Dirs[i], p))
            /\ cfg' = [cfg EXCEPT ![w] = Refreshed(cfg[w], Normal(Rendered(Dirs[i], p)))]
      BY <2>6 DEF ScanAppend
    <3>2. i \in todo[w]
      BY <1>0, <2>6, TurnOfScan DEF ScanAppend
    <3>3. Rendered(Dirs[i], p) \in Blocks
      BY <1>0, <3>2, AppendedBlock
    <3>4. file' \in Texts /\ done' \subseteq Specs /\ alone' \in [Writers -> BOOLEAN]
      BY <1>0, <2>6, <3>1, <3>3, AppendedTypes DEF ScanAppend, TypeOK
    <3>5. cfg' \in [Writers -> Seq(Specs)]
      BY <1>0, <3>1, <3>3, NormalType DEF Refreshed, TypeOK
    <3>6. todo' \in [Writers -> SUBSET DOMAIN Dirs]
      BY <1>0, <2>6 DEF ScanAppend, TypeOK
    <3>7. QED
      BY <1>0, <2>6, <3>4, <3>5, <3>6 DEF ScanAppend, TypeOK
  <2>7. CASE ScanSkip(w)
    BY <1>0, <2>7 DEF ScanSkip, TypeOK
  <2>8. CASE BackupCut(w)
    <3>1. pc' \in [Writers -> Steps]
      BY <1>1, <2>8 DEF BackupCut, Steps
    <3>2. QED
      BY <1>0, <2>8, <3>1, EmptyTypes DEF BackupCut, TypeOK
  <2>9. CASE BackupWrite(w)
    <3>1. pc' \in [Writers -> Steps]
      BY <1>1, <2>9 DEF BackupWrite, Steps
    <3>2. QED
      BY <1>0, <2>9, <3>1 DEF BackupWrite, TypeOK
  <2>10. CASE Cut(w)
    <3>1. pc' \in [Writers -> Steps]
      BY <1>1, <2>10 DEF Cut, Steps
    <3>2. alone' \in [Writers -> BOOLEAN]
      BY <1>4, <2>10 DEF Cut
    <3>3. cut' \in {"none", "add", "migrate"}
      BY <2>10 DEF Cut, ConfigInv, Rewriter, RewriteSteps
    <3>4. QED
      BY <1>0, <2>10, <3>1, <3>2, <3>3, EmptyTypes DEF Cut, TypeOK
  <2>11. CASE Write(w)
    <3>1. alone' \in [Writers -> BOOLEAN]
      BY <1>4, <2>11 DEF Write
    <3>2. SpecsOf(buf[w]) \subseteq Specs
      BY <1>0, MeaningType DEF TypeOK
    <3>3. done' \subseteq Specs
      BY <1>0, <2>11, <3>2 DEF Write, Replaced, TypeOK
    <3>4. file' \in Texts /\ cut' = "none" /\ UNCHANGED <<bak, known>> /\ Finished(w)
      BY <1>0, <2>11 DEF Write, TypeOK
    <3>5. QED
      BY <1>0, <1>2, <3>1, <3>3, <3>4 DEF TypeOK
  <2>12. CASE ReloadStep(w)
    <3>1. known' \subseteq Specs
      BY <1>0, <2>12, ReloadedType DEF ReloadStep, TypeOK
    <3>2. alone' \in [Writers -> BOOLEAN]
      BY <1>3, <2>12 DEF ReloadStep
    <3>3. Finished(w) /\ UNCHANGED <<file, bak, cut, done>>
      BY <2>12 DEF ReloadStep
    <3>4. QED
      BY <1>0, <1>2, <3>1, <3>2, <3>3 DEF TypeOK
  <2>13. CASE GiveUp(w)
    <3>1. alone' \in [Writers -> BOOLEAN]
      BY <1>3, <2>13 DEF GiveUp
    <3>2. Finished(w) /\ UNCHANGED <<file, bak, cut, known, done>>
      BY <2>13 DEF GiveUp
    <3>3. QED
      BY <1>0, <1>2, <3>1, <3>2 DEF TypeOK
  <2>14. QED
    BY <1>6, <2>1, <2>2, <2>3, <2>4, <2>5, <2>6, <2>7, <2>8, <2>9, <2>10, <2>11, <2>12, <2>13
       DEF CommandStep
<1>7. CASE Restart
  BY <1>0, <1>5, <1>7 DEF Restart, TypeOK
<1>8. CASE UNCHANGED vars
  BY <1>0, <1>8 DEF vars, TypeOK
<1>9. QED
  BY <1>6, <1>7, <1>8 DEF Next

-----------------------------------------------------------------------------
(* The parts of the invariant *)

\* There is one shell that rewrites.
LEMMA OnlyOne ==
  ASSUME Rewriter, NEW v \in Writers, pc[v] \in RewriteSteps
  PROVE  /\ \A w \in Writers : pc[w] \in RewriteSteps => w = v
         /\ \A w \in Writers : \A j \in Jobs[w] : Rewrites(j) => w = v
<1>1. job[v] \in Jobs[v] /\ Rewrites(job[v])
  BY DEF Rewriter
<1>2. \A w \in Writers : \A j \in Jobs[w] : Rewrites(j) => w = v
  BY <1>1, OneRewriter
<1>3. QED
  BY <1>2 DEF Rewriter

\* A command leaves what the others have in their hands alone.
LEMMA OthersKeep ==
  ASSUME TypeOK, NEW w \in Writers, CommandStep(w), NEW v \in Writers, v # w
  PROVE  /\ pc'[v] = pc[v] /\ job'[v] = job[v] /\ cfg'[v] = cfg[v]
         /\ src'[v] = src[v] /\ buf'[v] = buf[v] /\ todo'[v] = todo[v]
<1> USE DEF TypeOK, Go, commandVars
<1>1. ASSUME Finished(w)
      PROVE  /\ pc'[v] = pc[v] /\ job'[v] = job[v] /\ cfg'[v] = cfg[v]
             /\ src'[v] = src[v] /\ buf'[v] = buf[v] /\ todo'[v] = todo[v]
  BY <1>1 DEF Finished
<1>2. CASE \E j \in Jobs[w] : AddRead(w, j) \/ ScanRead(w, j) \/ MigrateRead(w, j)
  BY <1>2 DEF AddRead, ScanRead, MigrateRead
<1>3. CASE AddAppend(w)
  BY <1>1, <1>3 DEF AddAppend
<1>4. CASE ReplaceRead(w)
  BY <1>4 DEF ReplaceRead
<1>5. CASE ScanAppend(w) \/ ScanSkip(w)
  BY <1>5 DEF ScanAppend, ScanSkip
<1>6. CASE BackupCut(w) \/ BackupWrite(w) \/ Cut(w)
  BY <1>6 DEF BackupCut, BackupWrite, Cut
<1>7. CASE Write(w) \/ ReloadStep(w) \/ GiveUp(w)
  BY <1>1, <1>7 DEF Write, ReloadStep, GiveUp
<1>8. QED
  BY <1>2, <1>3, <1>4, <1>5, <1>6, <1>7 DEF CommandStep

\* What the steps that are neither appends nor part of a rewrite leave alone.
LEMMA QuietSteps ==
  ASSUME TypeOK, NEW w \in Writers,
         \/ \E j \in Jobs[w] : AddRead(w, j) \/ ScanRead(w, j)
         \/ ScanSkip(w) \/ ReloadStep(w) \/ GiveUp(w)
  PROVE  /\ UNCHANGED <<file, bak, cut, done>>
         /\ pc'[w] \in {"append", "replace", "scan", "idle"}
<1> USE DEF TypeOK, Go
<1>1. CASE \E j \in Jobs[w] : AddRead(w, j) \/ ScanRead(w, j)
  BY <1>1 DEF AddRead, ScanRead
<1>2. CASE ScanSkip(w)
  BY <1>2 DEF ScanSkip
<1>3. CASE ReloadStep(w) \/ GiveUp(w)
  BY <1>3 DEF ReloadStep, GiveUp, Finished
<1>4. QED
  BY <1>1, <1>2, <1>3

\* An add that appends and a scan that does: one block at the end, and where
\* the command is then.
LEMMA AppendSteps ==
  ASSUME TypeOK, NEW w \in Writers, AddAppend(w) \/ ScanAppend(w)
  PROVE  /\ Turn(w) \in Commands
         /\ \E p \in PortsFor(Turn(w), cfg[w]) :
              /\ p \in Ports \cup {0}
              /\ Rendered(Turn(w), p) \in Blocks
              /\ Appended(w, Rendered(Turn(w), p))
              /\ ScanAppend(w) => cfg' = [cfg EXCEPT ![w] =
                                   Append(cfg[w], Normal(Rendered(Turn(w), p)))]
         /\ pc' \in [Writers -> Steps]
         /\ AddAppend(w) => pc[w] = "append" /\ pc'[w] \in {"reload", "idle"}
         /\ ScanAppend(w) => pc[w] = "scan" /\ pc'[w] = "scan"
         /\ UNCHANGED <<bak, cut>>
<1> USE DEF TypeOK
<1>1. CASE AddAppend(w)
  <2>1. Turn(w) = job[w] /\ job[w] \in Commands /\ pc[w] = "append" /\ ~ScanAppend(w)
    BY <1>1 DEF AddAppend, ScanAppend, Turn
  <2>2. PICK p \in PortsFor(job[w], cfg[w]) : Appended(w, Rendered(job[w], p))
    BY <1>1 DEF AddAppend
  <2>3. p \in Ports \cup {0} /\ Rendered(job[w], p) \in Blocks
    BY AppendedBlock
  <2>4. pc' \in [Writers -> Steps] /\ pc'[w] \in {"reload", "idle"}
    BY <1>1 DEF AddAppend, Finished, Go, Steps
  <2>5. UNCHANGED <<bak, cut>>
    BY <1>1 DEF AddAppend
  <2>6. QED
    BY <2>1, <2>2, <2>3, <2>4, <2>5
<1>2. CASE ScanAppend(w)
  <2> DEFINE i == Min(todo[w])
  <2>1. i \in todo[w]
    BY <1>2, TurnOfScan DEF ScanAppend
  <2>2. Turn(w) = Dirs[i] /\ pc[w] = "scan" /\ pc' = pc /\ ~AddAppend(w)
    BY <1>2 DEF ScanAppend, AddAppend, Turn
  <2>3. Dirs[i] \in Commands
    BY <2>1, AppendedBlock
  <2>4. PICK p \in PortsFor(Dirs[i], cfg[w]) :
          /\ Appended(w, Rendered(Dirs[i], p))
          /\ cfg' = [cfg EXCEPT ![w] = Append(cfg[w], Normal(Rendered(Dirs[i], p)))]
    BY <1>2 DEF ScanAppend, Refreshed
  <2>5. p \in Ports \cup {0} /\ Rendered(Dirs[i], p) \in Blocks
    BY <2>1, AppendedBlock
  <2>6. UNCHANGED <<bak, cut>>
    BY <1>2 DEF ScanAppend
  <2>7. QED
    BY <2>2, <2>3, <2>4, <2>5, <2>6
<1>3. QED
  BY <1>1, <1>2

LEMMA HeadlessStep == ConfigInv /\ TypeOK' /\ [Next]_vars => Headless'
<1> SUFFICES ASSUME ConfigInv, TypeOK', [Next]_vars PROVE Headless'
  OBVIOUS
<1>0. TypeOK /\ Headless
  BY DEF ConfigInv
<1>1. ASSUME UNCHANGED <<file, cut>> PROVE Headless'
  BY <1>0, <1>1 DEF Headless
<1>2. ASSUME NEW w \in Writers, CommandStep(w) PROVE Headless'
  <2>1. CASE \/ \E j \in Jobs[w] : AddRead(w, j) \/ ScanRead(w, j)
             \/ ScanSkip(w) \/ ReloadStep(w) \/ GiveUp(w)
    BY <1>0, <1>1, <2>1, QuietSteps
  <2>2. CASE AddAppend(w) \/ ScanAppend(w)
    <3>1. PICK p \in PortsFor(Turn(w), cfg[w]) :
            Rendered(Turn(w), p) \in Blocks /\ Appended(w, Rendered(Turn(w), p))
      BY <1>0, <2>2, AppendSteps
    <3>2. file'.head = file.head
      BY <1>0, <2>2, <3>1, AppendSteps, AppendedTypes
    <3>3. cut' = cut
      BY <1>0, <2>2, AppendSteps
    <3>4. QED
      BY <1>0, <3>2, <3>3 DEF Headless
  <2>3. CASE ReplaceRead(w) \/ BackupCut(w) \/ BackupWrite(w)
    BY <1>1, <2>3 DEF ReplaceRead, BackupCut, BackupWrite
  <2>4. CASE \E j \in Jobs[w] : MigrateRead(w, j)
    BY <1>1, <2>4 DEF MigrateRead
  <2>5. CASE Cut(w)
    BY <2>5 DEF Cut, Empty, Headless
  <2>6. CASE Write(w)
    BY <2>6 DEF Write, Headless
  <2>7. QED
    BY <1>2, <2>1, <2>2, <2>3, <2>4, <2>5, <2>6 DEF CommandStep
<1>3. QED
  BY <1>1, <1>2 DEF Next, Restart, vars

\* A file that loads has not been truncated.
LEMMA LoadsIsWhole ==
  ASSUME Headless
  PROVE  /\ Loads(file) => cut = "none"
         /\ Loads(Migrated(file)) /\ TypeOK => cut = "none"
<1>1. Loads(file) => cut = "none"
  BY DEF Headless, Loads
<1>2. ASSUME TypeOK PROVE Migrated(file).head = file.head
  BY <1>2 DEF TypeOK, Texts, Migrated
<1>3. QED
  BY <1>1, <1>2 DEF Headless, Loads

LEMMA RewriterStep == ConfigInv /\ [Next]_vars => Rewriter'
<1> SUFFICES ASSUME ConfigInv, [Next]_vars PROVE Rewriter'
  OBVIOUS
<1>0. TypeOK /\ Rewriter /\ Headless
  BY DEF ConfigInv
<1>1. CASE UNCHANGED vars \/ Restart
  BY <1>0, <1>1 DEF vars, commandVars, Restart, Rewriter
<1>2. ASSUME NEW w \in Writers, CommandStep(w), NEW v \in Writers, pc'[v] \in RewriteSteps
      PROVE  /\ job'[v] \in Jobs[v] /\ Rewrites(job'[v])
             /\ job'[v].kind \in {"add", "migrate"}
             /\ pc'[v] = "replace" => job'[v].kind = "add"
             /\ pc'[v] \in {"bakcut", "backup"} => job'[v].kind = "migrate"
             /\ cut' = IF pc'[v] = "write" THEN job'[v].kind ELSE "none"
  <2>1. CASE v # w
    <3>1. pc'[v] = pc[v] /\ job'[v] = job[v]
      BY <1>0, <1>2, <2>1, OthersKeep
    <3>2. pc[w] \notin RewriteSteps
      BY <1>0, <1>2, <2>1, <3>1, OnlyOne
    <3>3. ~Cut(w) /\ ~Write(w)
      BY <3>2 DEF Cut, Write, RewriteSteps
    <3>4. cut' = cut
      BY <1>2, <3>3 DEF CommandStep, AddRead, ScanRead, MigrateRead, AddAppend, ReplaceRead,
           ScanAppend, ScanSkip, BackupCut, BackupWrite, ReloadStep, GiveUp
    <3>5. QED
      BY <1>0, <1>2, <3>1, <3>4 DEF Rewriter
  <2>2. CASE v = w
    <3> USE DEF TypeOK, RewriteSteps, Go
    <3>1. ASSUME NEW j \in Jobs[w], AddRead(w, j)
          PROVE  /\ pc'[w] = "replace" /\ job'[w] = j /\ j.kind = "add"
                 /\ Rewrites(j) /\ cut' = "none"
      <4>1. pc'[w] = "replace"
        BY <1>0, <1>2, <2>2, <3>1 DEF AddRead
      <4>2. Taken(j, Meaning(file))
        BY <1>0, <3>1, <4>1 DEF AddRead
      <4>3. Rewrites(j)
        BY <3>1, <4>2 DEF AddRead, Rewrites
      <4>4. job'[w] = j /\ j.kind = "add" /\ cut' = cut /\ Loads(file)
        BY <1>0, <3>1 DEF AddRead
      <4>5. QED
        BY <1>0, <4>1, <4>3, <4>4, LoadsIsWhole
    <3>2. ASSUME NEW j \in Jobs[w], MigrateRead(w, j)
          PROVE  /\ pc'[w] = "bakcut" /\ job'[w] = j /\ j.kind = "migrate"
                 /\ Rewrites(j) /\ cut' = "none"
      <4>1. /\ pc'[w] = "bakcut" /\ job'[w] = j /\ j.kind = "migrate" /\ cut' = cut
            /\ Loads(Migrated(file))
        BY <1>0, <3>2 DEF MigrateRead
      <4>2. QED
        BY <1>0, <4>1, LoadsIsWhole DEF Rewrites
    <3>3. CASE ReplaceRead(w)
      <4>1. pc[w] = "replace" /\ pc'[w] = "cut" /\ job' = job /\ cut' = cut
        BY <1>0, <3>3 DEF ReplaceRead
      <4>2. QED
        BY <1>0, <2>2, <4>1 DEF Rewriter
    <3>4. CASE BackupCut(w)
      <4>1. pc[w] = "bakcut" /\ pc'[w] = "backup" /\ job' = job /\ cut' = cut
        BY <1>0, <3>4 DEF BackupCut, commandVars
      <4>2. QED
        BY <1>0, <2>2, <4>1 DEF Rewriter
    <3>5. CASE BackupWrite(w)
      <4>1. pc[w] = "backup" /\ pc'[w] = "cut" /\ job' = job /\ cut' = cut
        BY <1>0, <3>5 DEF BackupWrite, commandVars
      <4>2. QED
        BY <1>0, <2>2, <4>1 DEF Rewriter
    <3>6. CASE Cut(w)
      <4>1. pc[w] = "cut" /\ pc'[w] = "write" /\ job' = job /\ cut' = job[w].kind
        BY <1>0, <3>6 DEF Cut, commandVars
      <4>2. QED
        BY <1>0, <2>2, <4>1 DEF Rewriter
    <3>7. CASE \E j \in Jobs[w] : ScanRead(w, j)
      BY <1>0, <1>2, <2>2, <3>7 DEF ScanRead
    <3>8. CASE AddAppend(w) \/ ScanAppend(w)
      BY <1>0, <1>2, <2>2, <3>8, AppendSteps
    <3>9. CASE ScanSkip(w)
      BY <1>0, <1>2, <2>2, <3>9 DEF ScanSkip
    <3>10. CASE Write(w) \/ ReloadStep(w) \/ GiveUp(w)
      BY <1>0, <1>2, <2>2, <3>10 DEF Write, ReloadStep, GiveUp, Finished
    <3>11. QED
      BY <1>2, <2>2, <3>1, <3>2, <3>3, <3>4, <3>5, <3>6, <3>7, <3>8, <3>9, <3>10 DEF CommandStep
  <2>3. QED
    BY <2>1, <2>2
<1>3. ASSUME NEW w \in Writers, CommandStep(w) PROVE Rewriter'
  BY <1>2, <1>3 DEF Rewriter
<1>4. QED
  BY <1>1, <1>3 DEF Next

\* The new text of an add keeps every block that does not have its name.
LEMMA ReplacedKeeps ==
  ASSUME TypeOK, NEW i \in DOMAIN file.blocks, NEW b \in Blocks, NEW g \in Texts,
         g = [file EXCEPT !.blocks[i] = b],
         NEW s \in SpecsOf(file), s.name # file.blocks[i].name
  PROVE  s \in SpecsOf(g)
<1>1. file.blocks \in Seq(Blocks) /\ file \in Texts
  BY DEF TypeOK, Texts
<1>2. PICK k \in DOMAIN file.blocks : s = Normal(file.blocks[k])
  BY DEF SpecsOf
<1>3. k # i
  BY <1>2 DEF Normal
<1>4. g.blocks = [file.blocks EXCEPT ![i] = b]
  BY <1>1 DEF Texts
<1>5. k \in DOMAIN g.blocks /\ g.blocks[k] = file.blocks[k]
  BY <1>1, <1>2, <1>3, <1>4
<1>6. QED
  BY <1>2, <1>5 DEF SpecsOf

LEMMA InHandStep == ConfigInv /\ [Next]_vars => InHand'
<1> SUFFICES ASSUME ConfigInv, [Next]_vars PROVE InHand'
  OBVIOUS
<1>0. TypeOK /\ Rewriter /\ Headless /\ InHand /\ NothingForgotten
  BY DEF ConfigInv
<1> DEFINE Keeps(d, j, b) == {s \in d : j.kind = "add" => s.name # j.name} \subseteq SpecsOf(b)
           Backed(p, j, s, b, k) ==
             j.kind = "migrate" =>
               /\ Loads(b) /\ Meaning(b) = Meaning(s) /\ SpecsOf(b) = SpecsOf(s)
               /\ p \in {"cut", "write"} => k = s
           InText == {"bakcut", "backup", "cut", "write"}
<1>1. \A v \in Writers : pc[v] \in InText =>
        Keeps(done, job[v], buf[v]) /\ Backed(pc[v], job[v], src[v], buf[v], bak)
  BY <1>0 DEF InHand, Rewriting, Others
<1>2. ASSUME \A v \in Writers : pc'[v] \in InText =>
               Keeps(done', job'[v], buf'[v]) /\ Backed(pc'[v], job'[v], src'[v], buf'[v], bak')
      PROVE  InHand'
  BY <1>2 DEF InHand, Rewriting, Others, Loads, Meaning, SpecsOf
<1> HIDE DEF Keeps, Backed
<1>3. CASE UNCHANGED vars \/ Restart
  <2>1. UNCHANGED <<bak, pc, job, src, buf, done>>
    BY <1>3 DEF vars, commandVars, Restart
  <2>2. QED
    BY <1>1, <1>2, <2>1
<1>4. ASSUME NEW w \in Writers, CommandStep(w), NEW v \in Writers, pc'[v] \in InText
      PROVE  Keeps(done', job'[v], buf'[v]) /\ Backed(pc'[v], job'[v], src'[v], buf'[v], bak')
  <2> DEFINE Goal == /\ Keeps(done', job'[v], buf'[v])
                     /\ Backed(pc'[v], job'[v], src'[v], buf'[v], bak')
  <2>1. ASSUME UNCHANGED <<bak, done>>, v # w PROVE Goal
    <3>1. /\ pc'[v] = pc[v] /\ job'[v] = job[v] /\ src'[v] = src[v] /\ buf'[v] = buf[v]
      BY <1>0, <1>4, <2>1, OthersKeep
    <3>2. QED
      BY <1>1, <1>4, <2>1, <3>1
  <2>2. ASSUME pc[w] \in RewriteSteps PROVE v = w
    <3>1. SUFFICES ASSUME v # w PROVE FALSE
      OBVIOUS
    <3>2. pc[v] \in RewriteSteps
      BY <1>0, <1>4, <3>1, OthersKeep DEF RewriteSteps
    <3>3. QED
      BY <1>0, <2>2, <3>1, <3>2, OnlyOne
  <2>3. CASE \/ \E j \in Jobs[w] : AddRead(w, j) \/ ScanRead(w, j)
             \/ ScanSkip(w) \/ ReloadStep(w) \/ GiveUp(w)
    <3>1. UNCHANGED <<bak, done>> /\ v # w
      BY <1>0, <1>4, <2>3, QuietSteps
    <3>2. QED
      BY <2>1, <3>1
  <2>4. CASE AddAppend(w) \/ ScanAppend(w)
    <3>1. v # w /\ bak' = bak
      BY <1>0, <1>4, <2>4, AppendSteps
    <3>2. pc[v] \in InText
      BY <1>0, <1>4, <3>1, OthersKeep
    <3>3. Rewriting # {}
      BY <3>2 DEF Rewriting
    <3>4. done' = done
      BY <1>0, <2>4, <3>3, AppendSteps DEF Appended
    <3>5. QED
      BY <2>1, <3>1, <3>4
  <2>5. CASE ReplaceRead(w)
    <3>1. v = w /\ job[w].kind = "add" /\ cut = "none" /\ job' = job /\ done' = done
      BY <1>0, <2>2, <2>5 DEF ReplaceRead, Rewriter, RewriteSteps
    <3>2. PICK p \in PortsFor(job[w], cfg[w]), i \in DOMAIN file.blocks :
            /\ Rendered(job[w], p) \in Blocks
            /\ file.blocks[i].name = job[w].name
            /\ buf' = [buf EXCEPT ![w] = [file EXCEPT !.blocks[i] = Rendered(job[w], p)]]
            /\ [file EXCEPT !.blocks[i] = Rendered(job[w], p)] \in Texts
      BY <1>0, <2>5, ReplacedText
    <3>3. PICK g \in Texts : g = [file EXCEPT !.blocks[i] = Rendered(job[w], p)]
      BY <3>2
    <3>4. buf'[w] = g
      BY <1>0, <3>2, <3>3 DEF TypeOK
    <3>5. done \subseteq SpecsOf(file)
      BY <1>0, <3>1 DEF NothingForgotten, Text
    <3>6. ASSUME NEW s \in done, s.name # job[w].name PROVE s \in SpecsOf(g)
      BY <1>0, <3>2, <3>3, <3>5, <3>6, ReplacedKeeps
    <3>7. QED
      BY <3>1, <3>4, <3>6 DEF Keeps, Backed
  <2>6. ASSUME NEW j \in Jobs[w], MigrateRead(w, j) PROVE Goal
    <3>1. CASE v # w
      BY <2>1, <2>6, <3>1 DEF MigrateRead
    <3>2. CASE v = w
      <4>1. /\ pc'[w] = "bakcut" /\ job'[w] = j /\ j.kind = "migrate" /\ src'[w] = file
            /\ buf'[w] = Migrated(file) /\ done' = done
            /\ Loads(Migrated(file)) /\ ~Clashes(file)
        BY <1>0, <2>6 DEF MigrateRead, Go, TypeOK
      <4>2. /\ Meaning(Migrated(file)) = Meaning(file)
            /\ SpecsOf(Migrated(file)) = SpecsOf(file)
        BY <1>0, <4>1, MigratedMeaning DEF TypeOK
      <4>3. done \subseteq SpecsOf(file)
        BY <1>0, <4>1, LoadsIsWhole DEF NothingForgotten, Text
      <4>4. QED
        BY <3>2, <4>1, <4>2, <4>3 DEF Keeps, Backed
    <3>3. QED
      BY <3>1, <3>2
  <2>7. CASE BackupCut(w)
    <3>1. /\ v = w /\ pc[w] = "bakcut" /\ pc'[w] = "backup"
          /\ UNCHANGED <<job, src, buf, done>>
      BY <1>0, <2>2, <2>7 DEF BackupCut, Go, commandVars, RewriteSteps, TypeOK
    <3>2. QED
      BY <1>1, <3>1 DEF Keeps, Backed
  <2>8. CASE BackupWrite(w)
    <3>1. /\ v = w /\ pc[w] = "backup" /\ bak' = src[w]
          /\ UNCHANGED <<job, src, buf, done>>
      BY <1>0, <2>2, <2>8 DEF BackupWrite, commandVars, RewriteSteps
    <3>2. QED
      BY <1>1, <3>1 DEF Keeps, Backed
  <2>9. CASE Cut(w)
    <3>1. v = w /\ pc[w] = "cut" /\ UNCHANGED <<job, src, buf, done, bak>>
      BY <1>0, <2>2, <2>9 DEF Cut, commandVars, RewriteSteps
    <3>2. QED
      BY <1>1, <3>1 DEF Keeps, Backed
  <2>10. CASE Write(w)
    <3>1. v = w /\ pc'[w] = "idle"
      BY <1>0, <2>2, <2>10 DEF Write, Finished, Go, RewriteSteps, TypeOK
    <3>2. QED
      BY <1>4, <3>1
  <2>11. QED
    BY <1>4, <2>3, <2>4, <2>5, <2>6, <2>7, <2>8, <2>9, <2>10 DEF CommandStep
<1>5. QED
  BY <1>2, <1>3, <1>4 DEF Next

LEMMA ForgottenStep == ConfigInv /\ TypeOK' /\ [Next]_vars => NothingForgotten'
<1> SUFFICES ASSUME ConfigInv, TypeOK', [Next]_vars, cut' # "add"
             PROVE  done' \subseteq SpecsOf(Text)'
  BY DEF NothingForgotten
<1>0. TypeOK /\ Rewriter /\ Headless /\ InHand /\ NothingForgotten
  BY DEF ConfigInv
<1>1. SpecsOf(Text)' = SpecsOf(IF cut' = "migrate" THEN bak' ELSE file')
  BY DEF Text, SpecsOf
<1>2. ASSUME UNCHANGED <<file, bak, cut, done>> PROVE done' \subseteq SpecsOf(Text)'
  BY <1>0, <1>1, <1>2 DEF NothingForgotten, Text
<1>3. ASSUME NEW w \in Writers, CommandStep(w) PROVE done' \subseteq SpecsOf(Text)'
  <2>1. CASE \/ \E j \in Jobs[w] : AddRead(w, j) \/ ScanRead(w, j)
             \/ ScanSkip(w) \/ ReloadStep(w) \/ GiveUp(w)
    BY <1>0, <1>2, <2>1, QuietSteps
  <2>2. CASE AddAppend(w) \/ ScanAppend(w)
    <3>1. PICK p \in PortsFor(Turn(w), cfg[w]) :
            Rendered(Turn(w), p) \in Blocks /\ Appended(w, Rendered(Turn(w), p))
      BY <1>0, <2>2, AppendSteps
    <3>2. PICK b \in Blocks : b = Rendered(Turn(w), p)
      BY <3>1
    <3>3. SpecsOf(file') = SpecsOf(file) \cup {Normal(b)}
      <4>1. SpecsOf(file)' = SpecsOf(file) \cup {Normal(b)}
        BY <1>0, <2>2, <3>1, <3>2, AppendSteps, AppendedTypes
      <4>2. QED
        BY <4>1 DEF SpecsOf
    <3>4. bak' = bak /\ cut' = cut
      BY <1>0, <2>2, AppendSteps
    <3>5. done' = IF Rewriting = {} /\ cut = "none" THEN done \cup {Normal(b)} ELSE done
      BY <3>1, <3>2 DEF Appended
    <3>6. done \subseteq SpecsOf(IF cut = "migrate" THEN bak ELSE file)
      BY <1>0, <3>4 DEF NothingForgotten, Text
    <3>7. QED
      BY <1>1, <3>3, <3>4, <3>5, <3>6
  <2>3. CASE ReplaceRead(w)
    BY <1>2, <2>3 DEF ReplaceRead
  <2>4. CASE \E j \in Jobs[w] : MigrateRead(w, j)
    BY <1>2, <2>4 DEF MigrateRead
  <2>5. CASE BackupCut(w) \/ BackupWrite(w)
    <3>1. cut = "none" /\ UNCHANGED <<file, cut, done>>
      BY <1>0, <2>5 DEF BackupCut, BackupWrite, Rewriter, RewriteSteps
    <3>2. QED
      BY <1>0, <1>1, <3>1 DEF NothingForgotten, Text
  <2>6. CASE Cut(w)
    <3>1. /\ pc[w] = "cut" /\ cut' = job[w].kind /\ UNCHANGED <<bak, done>>
      BY <2>6 DEF Cut
    <3>2. job[w].kind = "migrate"
      BY <1>0, <3>1 DEF Rewriter, RewriteSteps
    <3>3. done \subseteq SpecsOf(buf[w]) /\ SpecsOf(buf[w]) = SpecsOf(src[w]) /\ bak = src[w]
      BY <1>0, <3>1, <3>2 DEF InHand, Rewriting, Others
    <3>4. QED
      BY <1>1, <3>1, <3>2, <3>3
  <2>7. CASE Write(w)
    <3>1. /\ pc[w] = "write" /\ file' = buf[w] /\ cut' = "none"
          /\ done' = {s \in done : Others(w, s)} \cup Replaced(w)
      BY <2>7 DEF Write
    <3>2. {s \in done : Others(w, s)} \subseteq SpecsOf(buf[w])
      BY <1>0, <3>1 DEF InHand, Rewriting
    <3>3. Replaced(w) \subseteq SpecsOf(buf[w])
      BY DEF Replaced
    <3>4. QED
      BY <1>1, <3>1, <3>2, <3>3
  <2>8. QED
    BY <1>3, <2>1, <2>2, <2>3, <2>4, <2>5, <2>6, <2>7 DEF CommandStep
<1>4. QED
  BY <1>2, <1>3 DEF Next, Restart, vars

LEMMA FreshStep == ConfigInv /\ TypeOK' /\ [Next]_vars => Fresh'
<1> SUFFICES ASSUME ConfigInv, TypeOK', [Next]_vars PROVE Fresh'
  OBVIOUS
<1>0. TypeOK /\ Fresh
  BY DEF ConfigInv
<1> DEFINE F(p, a, j, c, f) ==
      /\ a /\ p \in {"append", "scan"} => c = Meaning(f)
      /\ p = "append" => ~Taken(j, c)
<1>1. \A v \in Writers : F(pc[v], alone[v], job[v], cfg[v], file)
  BY <1>0 DEF Fresh
<1>2. ASSUME \A v \in Writers : F(pc'[v], alone'[v], job'[v], cfg'[v], file')
      PROVE  Fresh'
  BY <1>2 DEF Fresh, Taken, Meaning
<1>3. CASE UNCHANGED vars \/ Restart
  <2>1. UNCHANGED <<file, pc, job, cfg, alone>>
    BY <1>3 DEF vars, commandVars, Restart
  <2> HIDE DEF F
  <2>2. QED
    BY <1>1, <1>2, <2>1
<1>4. ASSUME NEW w \in Writers, CommandStep(w), NEW v \in Writers
      PROVE  F(pc'[v], alone'[v], job'[v], cfg'[v], file')
  <2>1. v # w => pc'[v] = pc[v] /\ job'[v] = job[v] /\ cfg'[v] = cfg[v]
    BY <1>0, <1>4, OthersKeep
  <2>2. ASSUME v # w, file' = file, alone' \in [Writers -> BOOLEAN], alone'[v] => alone[v]
        PROVE  F(pc'[v], alone'[v], job'[v], cfg'[v], file')
    BY <1>1, <2>1, <2>2, Zenon
  <2>3. ASSUME v # w, ~alone'[v]
        PROVE  F(pc'[v], alone'[v], job'[v], cfg'[v], file')
    BY <1>1, <2>1, <2>3, Zenon
  <2>4. ASSUME v = w, pc'[w] \notin {"append", "scan"}
        PROVE  F(pc'[v], alone'[v], job'[v], cfg'[v], file')
    BY <2>4
  <2>5. alone' \in [Writers -> BOOLEAN]
    BY DEF TypeOK
  <2> HIDE DEF F
  <2>6. ASSUME Writes(w), v # w PROVE ~alone'[v]
    BY <2>6, Zenon DEF Writes
  <2>7. ASSUME NEW j \in Jobs[w], AddRead(w, j)
        PROVE  F(pc'[v], alone'[v], job'[v], cfg'[v], file')
    <3>1. file' = file /\ (v # w => alone'[v] = alone[v])
      BY <1>0, <2>7 DEF AddRead, Reads, TypeOK
    <3>2. CASE v = w
      <4>1. /\ pc'[w] = IF Taken(j, Meaning(file)) THEN "replace" ELSE "append"
            /\ job'[w] = j /\ cfg'[w] = Meaning(file)
        BY <1>0, <2>7 DEF AddRead, Go, TypeOK
      <4>2. QED
        BY <3>1, <3>2, <4>1 DEF F
    <3>3. QED
      BY <2>2, <2>5, <3>1, <3>2
  <2>8. ASSUME NEW j \in Jobs[w], ScanRead(w, j)
        PROVE  F(pc'[v], alone'[v], job'[v], cfg'[v], file')
    <3>1. file' = file /\ (v # w => alone'[v] = alone[v])
      BY <1>0, <2>8 DEF ScanRead, Reads, TypeOK
    <3>2. CASE v = w
      <4>1. pc'[w] = "scan" /\ cfg'[w] = Meaning(file)
        BY <1>0, <2>8 DEF ScanRead, Go, TypeOK
      <4>2. QED
        BY <3>1, <3>2, <4>1 DEF F
    <3>3. QED
      BY <2>2, <2>5, <3>1, <3>2
  <2>9. ASSUME NEW j \in Jobs[w], MigrateRead(w, j)
        PROVE  F(pc'[v], alone'[v], job'[v], cfg'[v], file')
    <3>1. file' = file /\ (v # w => alone'[v] = alone[v]) /\ pc'[w] = "bakcut"
      BY <1>0, <2>9 DEF MigrateRead, Reads, Go, TypeOK
    <3>2. QED
      BY <2>2, <2>4, <2>5, <3>1
  <2>10. CASE AddAppend(w)
    <3>1. Writes(w) /\ pc'[w] \in {"reload", "idle"}
      BY <1>0, <2>10, AppendSteps DEF Appended
    <3>2. QED
      BY <2>3, <2>4, <2>6, <3>1
  <2>11. CASE ScanAppend(w)
    <3>1. PICK p \in PortsFor(Turn(w), cfg[w]) :
            /\ Rendered(Turn(w), p) \in Blocks
            /\ Appended(w, Rendered(Turn(w), p))
            /\ cfg' = [cfg EXCEPT ![w] = Append(cfg[w], Normal(Rendered(Turn(w), p)))]
      BY <1>0, <2>11, AppendSteps
    <3>2. PICK b \in Blocks : b = Rendered(Turn(w), p)
      BY <3>1
    <3>3. pc[w] = "scan" /\ pc'[w] = "scan" /\ Writes(w)
      BY <1>0, <2>11, <3>1, AppendSteps DEF Appended
    <3>4. CASE v # w
      BY <2>3, <2>6, <3>3, <3>4
    <3>5. CASE v = w
      <4>1. Meaning(file)' = Append(Meaning(file), Normal(b))
        BY <1>0, <2>11, <3>1, <3>2, AppendSteps, AppendedTypes
      <4>2. Meaning(file') = Append(Meaning(file), Normal(b))
        BY <4>1 DEF Meaning
      <4>3. cfg'[w] = Append(cfg[w], Normal(b))
        BY <1>0, <3>1, <3>2 DEF TypeOK
      <4>4. alone'[w] => alone[w]
        BY <3>3, Zenon DEF Writes
      <4>5. alone[w] => cfg[w] = Meaning(file)
        BY <1>0, <3>3 DEF Fresh
      <4>6. QED
        BY <3>3, <3>5, <4>2, <4>3, <4>4, <4>5 DEF F
    <3>6. QED
      BY <3>4, <3>5
  <2>12. CASE ScanSkip(w)
    <3>1. UNCHANGED <<file, pc, job, cfg, alone>>
      BY <2>12 DEF ScanSkip
    <3>2. QED
      BY <1>1, <3>1
  <2>13. CASE ReplaceRead(w) \/ BackupCut(w) \/ BackupWrite(w)
    <3>1. file' = file /\ alone' = alone /\ pc'[w] \notin {"append", "scan"}
      BY <1>0, <2>13 DEF ReplaceRead, BackupCut, BackupWrite, Go, TypeOK
    <3>2. QED
      BY <2>2, <2>4, <2>5, <3>1
  <2>14. CASE Cut(w) \/ Write(w)
    <3>1. Writes(w) /\ pc'[w] \notin {"append", "scan"}
      BY <1>0, <2>14 DEF Cut, Write, Finished, Go, TypeOK
    <3>2. QED
      BY <2>3, <2>4, <2>6, <3>1
  <2>15. CASE ReloadStep(w) \/ GiveUp(w)
    <3>1. /\ file' = file /\ pc'[w] = "idle"
          /\ v # w => alone'[v] = alone[v]
      BY <1>0, <2>15 DEF ReloadStep, GiveUp, Finished, Leaves, Go, TypeOK
    <3>2. QED
      BY <2>2, <2>4, <2>5, <3>1
  <2>16. QED
    BY <1>4, <2>7, <2>8, <2>9, <2>10, <2>11, <2>12, <2>13, <2>14, <2>15 DEF CommandStep
<1> HIDE DEF F
<1>5. QED
  BY <1>2, <1>3, <1>4 DEF Next

-----------------------------------------------------------------------------
(* What holds of every file *)

\* The inductive invariant: what each command has in its hands agrees with the
\* file and its backup (config.go, add.go), whoever is killed and wherever.
THEOREM ConfigSafety == Spec => []ConfigInv
<1>1. Init => ConfigInv
  BY InitInv
<1>2. ConfigInv /\ [Next]_vars => ConfigInv'
  <2> SUFFICES ASSUME ConfigInv, [Next]_vars PROVE ConfigInv'
    OBVIOUS
  <2>1. TypeOK'
    BY TypeStep
  <2>2. QED
    BY <2>1, RewriterStep, HeadlessStep, InHandStep, FreshStep, ForgottenStep DEF ConfigInv
<1>3. QED
  BY <1>1, <1>2, PTL DEF Spec

\* The file, its backup and what each command holds are texts and
\* configurations, and mlxd knows only specs that Validate can have passed.
THEOREM FilesAreTexts == Spec => []TypeOK
<1>1. ConfigInv => TypeOK
  BY DEF ConfigInv
<1>2. QED
  BY <1>1, ConfigSafety, PTL

\* Every block of the first file, and every one that is appended while no
\* rewrite is under way, keeps its meaning whatever other commands do and
\* wherever they are killed: in the file or, once a migrate has truncated it, in
\* the backup (config.go:31, add.go:626).  Three things are left out, as in
\* NothingForgotten: a block that an --overwrite names, one that is appended
\* between a rewrite's read and its write, and the whole file while an
\* --overwrite has truncated and not written it, which is for ever if it is
\* killed there.
THEOREM BlocksAreKept == Spec => []NothingForgotten
<1>1. ConfigInv => NothingForgotten
  BY DEF ConfigInv
<1>2. QED
  BY <1>1, ConfigSafety, PTL

\* While nobody else has changed the file, a migrate that has not truncated it
\* has its whole text in its hands, and a truncated file holds nothing.
Undisturbed ==
  \A w \in Writers : alone[w] =>
    /\ pc[w] \in {"bakcut", "backup", "cut"} /\ job[w].kind = "migrate" => file = src[w]
    /\ pc[w] = "write" => file = Empty

\* No step breaks it: who changes the file has the others marked.
LEMMA UndisturbedStep ==
  ConfigInv /\ TypeOK' /\ Undisturbed /\ [Next]_vars => Undisturbed'
<1> SUFFICES ASSUME ConfigInv, TypeOK', Undisturbed, [Next]_vars PROVE Undisturbed'
  OBVIOUS
<1>0. TypeOK /\ Rewriter /\ alone' \in [Writers -> BOOLEAN]
  BY DEF ConfigInv, TypeOK
<1> DEFINE U(a, p, j, f, s) ==
      a => /\ p \in {"bakcut", "backup", "cut"} /\ j.kind = "migrate" => f = s
           /\ p = "write" => f = Empty
<1>1. \A v \in Writers : U(alone[v], pc[v], job[v], file, src[v])
  BY DEF Undisturbed
<1>2. ASSUME \A v \in Writers : U(alone'[v], pc'[v], job'[v], file', src'[v])
      PROVE  Undisturbed'
  BY <1>2 DEF Undisturbed, Empty
<1>3. CASE UNCHANGED vars \/ Restart
  <2>1. UNCHANGED <<file, pc, job, src, alone>>
    BY <1>3 DEF vars, commandVars, Restart
  <2> HIDE DEF U
  <2>2. QED
    BY <1>1, <1>2, <2>1
<1>4. ASSUME NEW w \in Writers, CommandStep(w), NEW v \in Writers
      PROVE  U(alone'[v], pc'[v], job'[v], file', src'[v])
  <2>1. v # w => pc'[v] = pc[v] /\ job'[v] = job[v] /\ src'[v] = src[v]
    BY <1>0, <1>4, OthersKeep
  <2>2. ASSUME v # w, file' = file, alone'[v] => alone[v]
        PROVE  U(alone'[v], pc'[v], job'[v], file', src'[v])
    BY <1>1, <2>1, <2>2, Zenon
  <2>3. ASSUME v # w, Writes(w)
        PROVE  U(alone'[v], pc'[v], job'[v], file', src'[v])
    <3>1. ~alone'[v]
      BY <2>3, Zenon DEF Writes
    <3>2. QED
      BY <3>1
  <2>4. ASSUME v = w, pc'[w] \notin {"bakcut", "backup", "cut", "write"}
        PROVE  U(alone'[v], pc'[v], job'[v], file', src'[v])
    BY <2>4
  <2>5. CASE \E j \in Jobs[w] : AddRead(w, j) \/ ScanRead(w, j)
    <3>1. file' = file /\ pc'[w] \in {"append", "replace", "scan", "idle"}
      BY <1>0, <2>5, QuietSteps
    <3>2. v # w => alone'[v] = alone[v]
      BY <1>0, <2>5 DEF AddRead, ScanRead, Reads, TypeOK
    <3>3. QED
      BY <2>2, <2>4, <3>1, <3>2
  <2>6. ASSUME NEW j \in Jobs[w], MigrateRead(w, j)
        PROVE  U(alone'[v], pc'[v], job'[v], file', src'[v])
    <3>1. /\ file' = file /\ (v # w => alone'[v] = alone[v])
          /\ pc'[w] = "bakcut" /\ src'[w] = file
      BY <1>0, <2>6 DEF MigrateRead, Reads, Go, TypeOK
    <3>2. CASE v = w
      BY <3>1, <3>2
    <3>3. QED
      BY <2>2, <3>1, <3>2
  <2>7. CASE AddAppend(w) \/ ScanAppend(w)
    <3>1. Writes(w) /\ pc'[w] \in {"reload", "idle", "scan"}
      BY <1>0, <2>7, AppendSteps DEF Appended
    <3>2. QED
      BY <2>3, <2>4, <3>1
  <2>8. CASE ReplaceRead(w)
    <3>1. /\ file' = file /\ alone' = alone /\ job' = job
          /\ pc[w] = "replace" /\ pc'[w] = "cut"
      BY <1>0, <2>8 DEF ReplaceRead, Go, TypeOK
    <3>2. job[w].kind = "add"
      BY <1>0, <3>1 DEF Rewriter, RewriteSteps
    <3>3. CASE v = w
      BY <3>1, <3>2, <3>3
    <3>4. QED
      BY <2>2, <3>1, <3>3
  <2>9. CASE BackupCut(w) \/ BackupWrite(w)
    <3>1. /\ file' = file /\ alone' = alone /\ job' = job /\ src' = src
          /\ pc[w] \in {"bakcut", "backup"} /\ pc'[w] \in {"backup", "cut"}
      BY <1>0, <2>9 DEF BackupCut, BackupWrite, commandVars, Go, TypeOK
    <3>2. CASE v = w
      BY <1>1, <3>1, <3>2
    <3>3. QED
      BY <2>2, <3>1, <3>2
  <2>10. CASE Cut(w)
    <3>1. file' = Empty /\ Writes(w) /\ pc'[w] = "write"
      BY <1>0, <2>10 DEF Cut, Go, TypeOK
    <3>2. CASE v = w
      BY <3>1, <3>2
    <3>3. QED
      BY <2>3, <3>1, <3>2
  <2>11. CASE Write(w)
    <3>1. Writes(w) /\ pc'[w] = "idle"
      BY <1>0, <2>11 DEF Write, Finished, Go, TypeOK
    <3>2. QED
      BY <2>3, <2>4, <3>1
  <2>12. CASE ScanSkip(w)
    <3>1. UNCHANGED <<file, pc, job, src, alone>>
      BY <2>12 DEF ScanSkip
    <3> HIDE DEF U
    <3>2. QED
      BY <1>1, <3>1
  <2>13. CASE ReloadStep(w) \/ GiveUp(w)
    <3>1. /\ file' = file /\ pc'[w] = "idle"
          /\ v # w => alone'[v] = alone[v]
      BY <1>0, <2>13 DEF ReloadStep, GiveUp, Finished, Leaves, Go, TypeOK
    <3>2. QED
      BY <2>2, <2>4, <3>1
  <2> HIDE DEF U
  <2>14. QED
    BY <1>4, <2>5, <2>6, <2>7, <2>8, <2>9, <2>10, <2>11, <2>12, <2>13 DEF CommandStep
<1> HIDE DEF U
<1>5. QED
  BY <1>2, <1>3, <1>4 DEF Next

\* The steps at which a block may leave the text.
Forgets(w) ==
  \/ Cut(w) /\ job[w].kind = "add"
  \/ (Cut(w) \/ Write(w)) /\ ~alone[w]

\* What the text has after a step that is no such step, it had before.
LEMMA KeepStep ==
  ASSUME ConfigInv, Undisturbed, [Next]_vars, \A w \in Writers : ~Forgets(w)
  PROVE  SpecsOf(Text) \subseteq SpecsOf(Text)'
<1>0. TypeOK /\ Rewriter /\ InHand
  BY DEF ConfigInv
<1>1. /\ SpecsOf(Text)' = SpecsOf(IF cut' = "migrate" THEN bak' ELSE file')
      /\ SpecsOf(Text) = SpecsOf(IF cut = "migrate" THEN bak ELSE file)
  BY DEF Text, SpecsOf
<1>2. ASSUME UNCHANGED <<file, bak, cut>> PROVE SpecsOf(Text) \subseteq SpecsOf(Text)'
  BY <1>1, <1>2
<1>3. ASSUME NEW w \in Writers, CommandStep(w) PROVE SpecsOf(Text) \subseteq SpecsOf(Text)'
  <2>1. CASE \/ \E j \in Jobs[w] : AddRead(w, j) \/ ScanRead(w, j)
             \/ ScanSkip(w) \/ ReloadStep(w) \/ GiveUp(w)
    BY <1>0, <1>2, <2>1, QuietSteps
  <2>2. CASE AddAppend(w) \/ ScanAppend(w)
    <3>1. PICK p \in PortsFor(Turn(w), cfg[w]) :
            Rendered(Turn(w), p) \in Blocks /\ Appended(w, Rendered(Turn(w), p))
      BY <1>0, <2>2, AppendSteps
    <3>2. PICK b \in Blocks : b = Rendered(Turn(w), p)
      BY <3>1
    <3>3. SpecsOf(file') = SpecsOf(file) \cup {Normal(b)}
      <4>1. SpecsOf(file)' = SpecsOf(file) \cup {Normal(b)}
        BY <1>0, <2>2, <3>1, <3>2, AppendSteps, AppendedTypes
      <4>2. QED
        BY <4>1 DEF SpecsOf
    <3>4. bak' = bak /\ cut' = cut
      BY <1>0, <2>2, AppendSteps
    <3>5. QED
      BY <1>1, <3>3, <3>4
  <2>3. CASE ReplaceRead(w)
    BY <1>2, <2>3 DEF ReplaceRead
  <2>4. CASE \E j \in Jobs[w] : MigrateRead(w, j)
    BY <1>2, <2>4 DEF MigrateRead
  <2>5. CASE BackupCut(w) \/ BackupWrite(w)
    <3>1. cut = "none" /\ UNCHANGED <<file, cut>>
      BY <1>0, <2>5 DEF BackupCut, BackupWrite, Rewriter, RewriteSteps
    <3>2. QED
      BY <1>1, <3>1
  <2>6. CASE Cut(w)
    <3>1. pc[w] = "cut" /\ cut' = job[w].kind /\ bak' = bak
      BY <2>6 DEF Cut
    <3>2. job[w].kind # "add" /\ alone[w]
      BY <2>6 DEF Forgets
    <3>3. job[w].kind = "migrate" /\ cut = "none"
      BY <1>0, <3>1, <3>2 DEF Rewriter, RewriteSteps
    <3>4. file = src[w] /\ bak = src[w]
      BY <1>0, <3>1, <3>2, <3>3 DEF Undisturbed, InHand, Rewriting
    <3>5. QED
      BY <1>1, <3>1, <3>3, <3>4
  <2>7. CASE Write(w)
    <3>1. pc[w] = "write" /\ file' = buf[w] /\ cut' = "none" /\ alone[w]
      BY <2>7 DEF Write, Forgets
    <3>2. cut = job[w].kind /\ job[w].kind \in {"add", "migrate"}
      BY <1>0, <3>1 DEF Rewriter, RewriteSteps
    <3>3. CASE job[w].kind = "migrate"
      <4>1. SpecsOf(buf[w]) = SpecsOf(src[w]) /\ bak = src[w]
        BY <1>0, <3>1, <3>3 DEF InHand, Rewriting
      <4>2. QED
        BY <1>1, <3>1, <3>2, <3>3, <4>1
    <3>4. CASE job[w].kind = "add"
      <4>1. file = Empty
        BY <3>1 DEF Undisturbed
      <4>2. QED
        BY <1>1, <3>2, <3>4, <4>1, EmptyTypes
    <3>5. QED
      BY <3>2, <3>3, <3>4
  <2>8. QED
    BY <1>3, <2>1, <2>2, <2>3, <2>4, <2>5, <2>6, <2>7 DEF CommandStep
<1>4. QED
  BY <1>2, <1>3 DEF Next, Restart, vars

\* The text (or, once a migrate has truncated the file, its backup) loses no
\* block's meaning except at two kinds of step: when an --overwrite truncates
\* the file, since it makes no backup, and when a rewrite truncates or writes a
\* file that another command has changed since it was read (add.go:651,
\* config.go:108-111).  Unlike NothingForgotten this speaks of every block, of
\* one that was appended during a rewrite too, and names the step that loses it.
THEOREM OnlyRewritesForget ==
  Spec => [][SpecsOf(Text) \subseteq SpecsOf(Text)' \/ \E w \in Writers : Forgets(w)]_vars
<1>1. Init => Undisturbed
  BY DEF Init, Undisturbed
<1>2. ConfigInv /\ ConfigInv' /\ Undisturbed /\ [Next]_vars => Undisturbed'
  BY UndisturbedStep DEF ConfigInv
<1>3. ConfigInv /\ Undisturbed /\ [Next]_vars =>
        [SpecsOf(Text) \subseteq SpecsOf(Text)' \/ \E w \in Writers : Forgets(w)]_vars
  BY KeepStep
<1>4. QED
  BY <1>1, <1>2, <1>3, ConfigSafety, PTL DEF Spec

\* A migrate writes a file that loads and means what its backup means
\* (config.go:74-115): even one that somebody has interfered with.
THEOREM MigratedFilesAgree == Spec => MigrateKeepsMeaning
<1> DEFINE A == \A w \in Writers : Write(w) /\ job[w].kind = "migrate" /\ alone[w] =>
                  Loads(file') /\ Meaning(file') = Meaning(bak)
<1>1. ConfigInv /\ [Next]_vars => A
  <2> SUFFICES ASSUME ConfigInv, NEW w \in Writers, Write(w), job[w].kind = "migrate"
               PROVE  Loads(file') /\ Meaning(file') = Meaning(bak)
    OBVIOUS
  <2>1. file' = buf[w] /\ w \in Rewriting /\ pc[w] = "write"
    BY DEF Write, Rewriting
  <2>2. Loads(buf[w]) /\ Meaning(buf[w]) = Meaning(src[w]) /\ bak = src[w]
    BY <2>1 DEF ConfigInv, InHand
  <2>3. QED
    BY <2>1, <2>2
<1>2. QED
  BY <1>1, ConfigSafety, PTL DEF Spec, MigrateKeepsMeaning

\* What an append adds, seen from a command that knows the file.
LEMMA KnownAppend ==
  ASSUME ConfigInv, NEW w \in Writers, AddAppend(w) \/ ScanAppend(w), alone[w]
  PROVE  /\ Turn(w) \in Commands
         /\ file \in Texts /\ file' \in Texts /\ file'.head = file.head
         /\ pc[w] = "append" => ~Taken(Turn(w), Meaning(file))
         /\ pc[w] = "append" \/ Turn(w).kind = "scan"
         /\ \E p \in PortsFor(Turn(w), Meaning(file)) :
              /\ p \in Ports \cup {0}
              /\ Rendered(Turn(w), p) \in Blocks
              /\ file'.blocks = Append(file.blocks, Rendered(Turn(w), p))
              /\ Meaning(file') = Append(Meaning(file), Normal(Rendered(Turn(w), p)))
<1>0. TypeOK /\ Fresh
  BY DEF ConfigInv
<1>1. /\ Turn(w) \in Commands /\ pc' \in [Writers -> Steps]
      /\ pc[w] \in {"append", "scan"}
      /\ pc[w] = "append" => Turn(w) = job[w]
      /\ pc[w] = "append" \/ Turn(w).kind = "scan"
  <2>1. CASE AddAppend(w)
    BY <1>0, <2>1, AppendSteps DEF Turn
  <2>2. CASE ScanAppend(w)
    <3>1. Min(todo[w]) \in DOMAIN Dirs
      BY <1>0, <2>2, TurnOfScan DEF ScanAppend, TypeOK
    <3>2. pc[w] = "scan" /\ Turn(w) = Dirs[Min(todo[w])]
      BY <2>2 DEF ScanAppend, Turn
    <3>3. Turn(w).kind = "scan"
      BY <3>1, <3>2, ConfigAssumption
    <3>4. QED
      BY <1>0, <2>2, <3>2, <3>3, AppendSteps
  <2>3. QED
    BY <2>1, <2>2
<1>2. PICK p \in PortsFor(Turn(w), cfg[w]) :
        /\ p \in Ports \cup {0}
        /\ Rendered(Turn(w), p) \in Blocks
        /\ Appended(w, Rendered(Turn(w), p))
  BY <1>0, AppendSteps
<1>3. cfg[w] = Meaning(file) /\ (pc[w] = "append" => ~Taken(job[w], cfg[w]))
  BY <1>0, <1>1 DEF Fresh
<1>4. file \in Texts /\ file' = [file EXCEPT !.blocks = Append(@, Rendered(Turn(w), p))]
  BY <1>0, <1>2 DEF TypeOK, Appended
<1>5. /\ file' \in Texts /\ file'.head = file.head
      /\ file'.blocks = Append(file.blocks, Rendered(Turn(w), p))
      /\ Meaning(file') = Append(Meaning(file), Normal(Rendered(Turn(w), p)))
  BY <1>2, <1>4, AppendMeaning
<1>6. QED
  BY <1>1, <1>2, <1>3, <1>4, <1>5

\* A slot's first member listens where nobody else does (add.go:500-514).
THEOREM FreshPorts == Spec => FreshPortIsFree
<1> DEFINE A == \A w \in Writers :
         (AddAppend(w) \/ ScanAppend(w)) /\ alone[w] /\ Turn(w).port = 0
           /\ Mates(Meaning(file), SlotFor(Turn(w))) = {} =>
             LET p == file'.blocks[Len(file'.blocks)].port
             IN  p \notin RouterPorts /\ \A b \in SpecsOf(file) : b.port # p
<1>1. ConfigInv /\ [Next]_vars => A
  <2> SUFFICES ASSUME ConfigInv, NEW w \in Writers, AddAppend(w) \/ ScanAppend(w), alone[w],
                      Turn(w).port = 0, Mates(Meaning(file), SlotFor(Turn(w))) = {},
                      NEW q, q = file'.blocks[Len(file'.blocks)].port
               PROVE  q \notin RouterPorts /\ \A b \in SpecsOf(file) : b.port # q
    BY Zenon
  <2>1. PICK p \in PortsFor(Turn(w), Meaning(file)) :
          /\ Rendered(Turn(w), p) \in Blocks
          /\ file'.blocks = Append(file.blocks, Rendered(Turn(w), p))
    BY KnownAppend
  <2>2. file.blocks \in Seq(Blocks) /\ file \in Texts
    BY KnownAppend DEF Texts
  <2>3. file'.blocks[Len(file'.blocks)] = Rendered(Turn(w), p)
    BY <2>1, <2>2, AppendProperties
  <2>4. q = p
    <3>1. Rendered(Turn(w), p).port = p
      BY Zenon DEF Rendered
    <3>2. QED
      BY <2>3, <3>1, Zenon
  <2>5. Inherits(Turn(w), Meaning(file)) = {}
    BY DEF Inherits
  <2>6. p \notin UsedPorts(Meaning(file))
    BY <2>1, <2>5 DEF PortsFor
  <2>7. SpecsOf(file) = {Meaning(file)[i] : i \in DOMAIN Meaning(file)}
    BY <2>2, MeaningType
  <2>8. QED
    BY <2>4, <2>6, <2>7 DEF UsedPorts
<1>2. QED
  BY <1>1, ConfigSafety, PTL DEF Spec, FreshPortIsFree

\* A spec that fits leaves a valid configuration valid.
LEMMA FittingSpec ==
  ASSUME NEW c \in Seq(Specs), Valid(c), NEW s \in Specs,
         s.mode = "swap", s.port > 0,
         \A i \in DOMAIN c : c[i].name # s.name,
         \A i \in Mates(c, s.slot) : c[i].port = s.port,
         s.default => \A i \in Mates(c, s.slot) : ~c[i].default
  PROVE  Valid(Append(c, s))
<1>1. PICK n \in Nat : n = Len(c)
  OBVIOUS
<1>2. PICK d \in Seq(Specs) : d = Append(c, s)
  BY AppendProperties
<1>3. /\ DOMAIN c = 1..n /\ DOMAIN d = 1..(n + 1)
      /\ d[n + 1] = s /\ \A i \in 1..n : d[i] = c[i]
  BY <1>1, <1>2, AppendProperties, LenProperties
<1>4. \A i \in DOMAIN d : (i = n + 1 /\ d[i] = s) \/ (i \in DOMAIN c /\ d[i] = c[i])
  BY <1>3
<1>5. /\ \A i \in DOMAIN c : IF c[i].mode = "swap" THEN c[i].port > 0 ELSE c[i].url
      /\ \A i, j \in DOMAIN c : c[i].name = c[j].name => i = j
      /\ \A i \in DOMAIN c : \A j \in Mates(c, c[i].slot) :
           c[i].mode = "swap" => c[i].port = c[j].port
      /\ \A i \in DOMAIN c : \A j, k \in {m \in Mates(c, c[i].slot) : c[m].default} : j = k
  BY DEF Valid, SharePorts
<1>6. \A i \in DOMAIN d : IF d[i].mode = "swap" THEN d[i].port > 0 ELSE d[i].url
  BY <1>4, <1>5
<1>7. \A i, j \in DOMAIN d : d[i].name = d[j].name => i = j
  BY <1>4, <1>5
<1>8. \A g : \A i \in Mates(d, g) :
        (i \in Mates(c, g) /\ d[i] = c[i]) \/ (i = n + 1 /\ g = s.slot /\ d[i] = s)
  BY <1>4 DEF Mates
<1>9. SharePorts(d)
  <2> SUFFICES ASSUME NEW i \in DOMAIN d, NEW j \in Mates(d, d[i].slot), d[i].mode = "swap"
               PROVE  d[i].port = d[j].port
    BY DEF SharePorts
  <2>1. CASE i = n + 1 /\ d[i] = s
    BY <1>8, <2>1
  <2>2. CASE i \in DOMAIN c /\ d[i] = c[i]
    <3>1. i \in Mates(c, d[i].slot)
      BY <2>2 DEF Mates
    <3>2. CASE j \in Mates(c, d[i].slot) /\ d[j] = c[j]
      BY <1>5, <2>2, <3>2
    <3>3. CASE d[i].slot = s.slot /\ d[j] = s
      BY <2>2, <3>1, <3>3
    <3>4. QED
      BY <1>8, <3>2, <3>3
  <2>3. QED
    BY <1>4, <2>1, <2>2
<1>10. \A i \in DOMAIN d : \A j, k \in {m \in Mates(d, d[i].slot) : d[m].default} : j = k
  <2> SUFFICES ASSUME NEW g, NEW j \in Mates(d, g), NEW k \in Mates(d, g),
                      d[j].default, d[k].default
               PROVE  j = k
    BY Zenon
  <2>1. CASE j \in Mates(c, g) /\ d[j] = c[j] /\ k \in Mates(c, g) /\ d[k] = c[k]
    <3>1. j \in DOMAIN c /\ c[j].slot = g
      BY <2>1 DEF Mates
    <3>2. j \in {m \in Mates(c, c[j].slot) : c[m].default}
      BY <2>1, <3>1, Zenon
    <3>3. k \in {m \in Mates(c, c[j].slot) : c[m].default}
      BY <2>1, <3>1, Zenon
    <3>4. QED
      BY <1>5, <3>1, <3>2, <3>3, Zenon
  <2>2. CASE j = n + 1 /\ g = s.slot /\ d[j] = s
    <3>1. \A i \in Mates(c, s.slot) : ~c[i].default
      BY <2>2
    <3>2. ~(k \in Mates(c, g) /\ d[k] = c[k])
      BY <2>2, <3>1, Zenon
    <3>3. QED
      BY <1>8, <2>2, <3>2
  <2>3. CASE k = n + 1 /\ g = s.slot /\ d[k] = s
    <3>1. \A i \in Mates(c, s.slot) : ~c[i].default
      BY <2>3
    <3>2. ~(j \in Mates(c, g) /\ d[j] = c[j])
      BY <2>3, <3>1, Zenon
    <3>3. QED
      BY <1>8, <2>3, <3>2
  <2>4. QED
    BY <1>8, <2>1, <2>2, <2>3
<1>11. d # <<>>
  BY <1>1, <1>3
<1>12. Valid(d)
  BY <1>6, <1>7, <1>9, <1>10, <1>11, Zenon DEF Valid
<1>13. QED
  BY <1>2, <1>12, Zenon

\* The port of a new member is the slot's.
LEMMA PortFits ==
  ASSUME NEW c \in Seq(Specs), Valid(c), NEW j \in Commands, ~j.external,
         j.port # 0 => \A i \in Mates(c, SlotFor(j)) : c[i].port = j.port,
         NEW p \in PortsFor(j, c)
  PROVE  p > 0 /\ \A i \in Mates(c, SlotFor(j)) : c[i].port = p
<1>1. /\ \A i \in DOMAIN c : IF c[i].mode = "swap" THEN c[i].port > 0 ELSE c[i].url
      /\ SharePorts(c)
  BY DEF Valid
<1> DEFINE mates == Mates(c, SlotFor(j))
<1>2. Inherits(j, c) = mates
  BY DEF Inherits
<1>3. j.port \in Nat /\ \A q \in Ports : q > 0
  <2>1. Ports \subseteq Nat \ {0}
    BY ConfigAssumption
  <2>2. j.port \in Ports \cup {0}
    BY DEF Commands
  <2>3. \A q \in Nat \ {0} : q > 0
    OBVIOUS
  <2>4. \A q \in Ports : q \in Nat /\ q > 0
    BY <2>1, <2>3, Zenon
  <2>5. j.port \in Ports \/ j.port = 0
    BY <2>2, Zenon
  <2>6. 0 \in Nat
    OBVIOUS
  <2>7. QED
    BY <2>4, <2>5, <2>6, Zenon
<1>4. CASE j.port # 0
  <2>1. p = j.port
    BY <1>4 DEF PortsFor
  <2>2. QED
    BY <1>3, <1>4, <2>1
<1>5. CASE j.port = 0 /\ mates # {}
  <2>1. p = c[Min(mates)].port
    BY <1>2, <1>5 DEF PortsFor
  <2>2. PICK m \in mates : m = Min(mates)
    BY <1>5, MatesArePlaces, LeastOfNats
  <2>3. m \in DOMAIN c /\ c[m].mode = "swap" /\ c[m].slot = SlotFor(j)
    BY MatesArePlaces
  <2>4. c[m].port > 0
    BY <1>1, <2>3
  <2>5. \A i \in mates : c[m].port = c[i].port
    BY <1>1, <2>3 DEF SharePorts
  <2>6. QED
    BY <2>1, <2>2, <2>4, <2>5
<1>6. CASE j.port = 0 /\ mates = {}
  BY <1>2, <1>3, <1>6 DEF PortsFor
<1>7. QED
  BY <1>4, <1>5, <1>6

\* An add or a scan that nobody interferes with leaves a file that loads
\* (add.go:257), whatever the file holds and in whichever words.
THEOREM AddsLoad == Spec => AddsKeepLoading
<1> DEFINE A == \A w \in Writers :
         AddAppend(w) \/ ScanAppend(w) =>
           (alone[w] /\ Loads(file) /\ Fits(Turn(w)) => Loads(file'))
<1>1. ConfigInv /\ [Next]_vars => A
  <2> SUFFICES ASSUME ConfigInv, NEW w \in Writers, AddAppend(w) \/ ScanAppend(w), alone[w],
                      Loads(file), Fits(Turn(w))
               PROVE  Loads(file')
    BY Zenon
  <2>1. PICK c : c = Meaning(file)
    OBVIOUS
  <2>2. PICK j \in Commands : j = Turn(w)
    BY KnownAppend
  <2>3. PICK p \in PortsFor(j, c) :
          /\ p \in Ports \cup {0}
          /\ Rendered(j, p) \in Blocks
          /\ Meaning(file') = Append(c, Normal(Rendered(j, p)))
    BY <2>1, <2>2, KnownAppend
  <2>4. file'.head = file.head /\ file.head /\ Valid(c)
    BY <2>1, KnownAppend DEF Loads
  <2>5. c \in Seq(Specs)
    BY <2>1, KnownAppend, MeaningType
  <2>6. /\ ~j.external
        /\ j.port # 0 => \A i \in Mates(c, SlotFor(j)) : c[i].port = j.port
        /\ j.default => \A i \in Mates(c, SlotFor(j)) : ~c[i].default
        /\ j.kind = "scan" => \A i \in DOMAIN c : c[i].name # j.name
    BY <2>1, <2>2, Zenon DEF Fits
  <2>7. p > 0 /\ \A i \in Mates(c, SlotFor(j)) : c[i].port = p
    BY <2>3, <2>4, <2>5, <2>6, PortFits
  <2>8. \A i \in DOMAIN c : c[i].name # j.name
    <3>1. CASE pc[w] = "append"
      BY <2>1, <2>2, <3>1, KnownAppend DEF Taken
    <3>2. CASE j.kind = "scan"
      BY <2>6, <3>2
    <3>3. QED
      BY <2>2, <3>1, <3>2, KnownAppend
  <2>9. PICK s \in Specs : s = Normal(Rendered(j, p))
    BY <2>3, NormalType
  <2>10. /\ s.name = j.name /\ s.port = p /\ s.default = j.default
         /\ s.mode = "swap" /\ s.slot = SlotFor(j)
    BY <2>6, <2>9, SlotForType, ConfigAssumption DEF Normal, Rendered, SlotOf, Named
  <2>11. s.default => \A i \in Mates(c, s.slot) : ~c[i].default
    BY <2>6, <2>10, Zenon
  <2>12. Valid(Append(c, s))
    BY <2>4, <2>5, <2>7, <2>8, <2>10, <2>11, FittingSpec
  <2>13. QED
    BY <2>3, <2>4, <2>9, <2>12 DEF Loads
<1>2. QED
  BY <1>1, ConfigSafety, PTL DEF Spec, AddsKeepLoading

\* A reload leaves mlxd with what the file says, if what it knew was there
\* (group.go:153, live.go:171).
THEOREM ReloadsAgree == Spec => ReloadAgrees
<1> DEFINE A == \A w \in Writers :
         ReloadStep(w) /\ known \subseteq SpecsOf(file) => known' \subseteq SpecsOf(file)
<1>1. ConfigInv /\ [Next]_vars => A
  <2> SUFFICES ASSUME ConfigInv, NEW w \in Writers, ReloadStep(w), known \subseteq SpecsOf(file)
               PROVE  known' \subseteq SpecsOf(file)
    OBVIOUS
  <2>1. CASE known' = known
    BY <2>1
  <2>2. CASE Loads(file) /\ known' = Reloaded(known, file)
    <3>1. file \in Texts /\ SpecsOf(file) \subseteq Specs
      BY MeaningType DEF ConfigInv, TypeOK
    <3>2. PICK c \in Seq(Specs) : c = Meaning(file) /\ SpecsOf(file) = {c[i] : i \in DOMAIN c}
      BY <3>1, MeaningType
    <3>3. SharePorts(c)
      BY <2>2, <3>2 DEF Loads, Valid
    <3>4. ASSUME NEW s \in SpecsOf(file), NEW t \in SpecsOf(file), s.mode = "swap",
                 t.mode = "swap", s.slot = t.slot
          PROVE  s.port = t.port
      <4>1. PICK i \in DOMAIN c, k \in DOMAIN c : s = c[i] /\ t = c[k]
        BY <3>2
      <4>2. k \in Mates(c, c[i].slot)
        BY <3>4, <4>1 DEF Mates
      <4>3. QED
        BY <3>3, <3>4, <4>1, <4>2 DEF SharePorts
    <3>5. ASSUME NEW s \in SpecsOf(file) PROVE Joined(known, s) = s
      <4> DEFINE mates == {t \in known : t.mode = "swap" /\ t.slot = s.slot}
      <4>1. CASE s.mode = "swap" /\ mates # {}
        <5>1. PICK t \in mates : t = CHOOSE u \in mates : TRUE
          BY <4>1
        <5>2. s.port = t.port
          BY <3>4, <4>1
        <5>3. Joined(known, s) = [s EXCEPT !.port = t.port]
          BY <4>1, <5>1 DEF Joined
        <5>4. s \in Specs
          BY <3>1
        <5>5. QED
          BY <5>2, <5>3, <5>4 DEF Specs
      <4>2. CASE ~(s.mode = "swap" /\ mates # {})
        BY <4>2 DEF Joined
      <4>3. QED
        BY <4>1, <4>2
    <3>6. QED
      BY <2>2, <3>5 DEF Reloaded
  <2>3. QED
    BY <2>1, <2>2 DEF ReloadStep
<1>2. QED
  BY <1>1, ConfigSafety, PTL DEF Spec, ReloadAgrees

-----------------------------------------------------------------------------
(* What migrate promises of every file                                     *)

\* docs/adr/0001-slots-replace-modes.md:72 ("optional and idempotent"): a file
\* that has been migrated has nothing left of the old vocabulary, a second
\* migrate finds nothing to do, and no key stands twice in it.
THEOREM MigrateIsIdempotent ==
  ASSUME NEW f \in Texts
  PROVE  /\ Migrated(f) \in Texts
         /\ Migrated(Migrated(f)) = Migrated(f)
         /\ ~Clashes(Migrated(f))
<1> DEFINE g == Migrated(f)
           h == Migrated(g)
<1>1. g \in Texts /\ h \in Texts
  BY MigratedMeaning
<1>2. /\ g = [head |-> f.head, blocks |-> [i \in DOMAIN f.blocks |-> MigratedBlock(f.blocks[i])]]
      /\ h = [head |-> g.head, blocks |-> [i \in DOMAIN g.blocks |-> MigratedBlock(g.blocks[i])]]
  <2>1. ASSUME NEW t \in Texts
        PROVE  Migrated(t) =
                 [head |-> t.head, blocks |-> [i \in DOMAIN t.blocks |-> MigratedBlock(t.blocks[i])]]
    BY DEF Migrated, Texts
  <2> HIDE DEF g
  <2>2. QED
    BY <1>1, <2>1 DEF g
<1>3. DOMAIN g.blocks = DOMAIN f.blocks
  BY <1>2
<1>4. ASSUME NEW i \in DOMAIN g.blocks
      PROVE  /\ g.blocks[i] \in Blocks
             /\ g.blocks[i].mode = "" /\ g.blocks[i].group = NoName
             /\ MigratedBlock(g.blocks[i]) = g.blocks[i]
  <2>1. f.blocks[i] \in Blocks
    BY <1>3, MeaningType, ElementOfSeq
  <2>2. g.blocks[i] = MigratedBlock(f.blocks[i])
    BY <1>2, <1>3
  <2>3. PICK b \in Blocks : b = f.blocks[i]
    BY <2>1
  <2>4. PICK c : c = MigratedBlock(b)
    OBVIOUS
  <2>5. c \in Blocks /\ c.mode = "" /\ c.group = NoName
    BY <2>4, ConfigAssumption DEF MigratedBlock, StaysRemote, Blocks
  <2>6. MigratedBlock(c) = c
    <3>1. StaysRemote(c) = c.remote
      BY <2>5, Zenon DEF StaysRemote, Blocks
    <3>2. MigratedBlock(c) = [c EXCEPT !.mode = c.mode, !.remote = c.remote,
                                       !.group = c.group, !.slot = c.slot]
      BY <2>5, <3>1 DEF MigratedBlock
    <3>3. QED
      BY <2>5, <3>2 DEF Blocks
  <2>7. QED
    BY <2>2, <2>3, <2>4, <2>5, <2>6
<1>5. h = g
  <2>1. [i \in DOMAIN g.blocks |-> MigratedBlock(g.blocks[i])] = [i \in DOMAIN g.blocks |-> g.blocks[i]]
    BY <1>4
  <2>2. g.blocks = [i \in DOMAIN g.blocks |-> g.blocks[i]]
    BY <1>2
  <2>3. g = [head |-> g.head, blocks |-> g.blocks]
    BY <1>1 DEF Texts
  <2>4. QED
    BY <1>2, <2>1, <2>2, <2>3
<1>6. ~Clashes(g)
  BY <1>4 DEF Clashes
<1>7. QED
  BY <1>1, <1>5, <1>6
=============================================================================
