------------------------------ MODULE ConfigFile ------------------------------
(***************************************************************************)
(* config.toml and the programs that share it without a lock: the commands *)
(* add, scan --add, config migrate and reload of mlxctl (cmd/mlxctl), and  *)
(* mlxd, which reads it at its boot and at each reload (internal/config).  *)
(*                                                                         *)
(* The file is its head (python_bin, [router], ...) and the [[backend]]    *)
(* blocks in their order.  An append is one write, since O_APPEND finds    *)
(* the end by itself; os.WriteFile first truncates the file and then       *)
(* writes it, from its beginning and over what was appended in between.    *)
(* Blocks have an engine, a host and a model whenever Validate wants one.  *)
(* `warm` is not there: nothing reads it and migrate only drops it.  The   *)
(* deprecated --mode of add is external or absent.  Two rewrites that      *)
(* overlap, which may leave the end of the longer text behind the shorter  *)
(* one, are not modelled (OneRewriter).                                    *)
(***************************************************************************)
EXTENDS Naturals, Sequences, FiniteSetsExt

CONSTANTS
  Names,       \* of backends and slots
  NoName,      \* ""
  Chat,        \* the slot that add gives to a chat model
  Models,      \* what a block's model key may say
  Ports,       \* that the kernel may hand out or a user may choose
  RouterPorts, \* router.port and router.extra_ports
  InitFiles,   \* the files the program may be started with
  Dirs,        \* what scan finds in its directory, sorted by name
  Writers,     \* the shells in which commands run
  Jobs         \* what each of them may run

Blocks == [name : Names, mode : {"", "swap", "persistent", "external"},
           group : Names \cup {NoName}, slot : Names \cup {NoName},
           remote : BOOLEAN, port : Ports \cup {0}, default : BOOLEAN,
           url : BOOLEAN, model : Models]
Specs == [name : Names, mode : {"swap", "external"}, slot : Names,
          port : Ports \cup {0}, default : BOOLEAN, url : BOOLEAN, model : Models]
Commands == [kind : {"add", "scan", "migrate"}, name : Names,
             engine : {"lm", "vlm", "embed", "audio"}, slot : Names \cup {NoName},
             external : BOOLEAN, port : Ports \cup {0}, default : BOOLEAN,
             overwrite : BOOLEAN, model : Models]
Texts == [head : BOOLEAN, blocks : Seq(Blocks)]

ASSUME ConfigAssumption ==
  /\ NoName \notin Names
  /\ Chat \in Names
  /\ Models # {}
  /\ Ports \subseteq Nat \ {0}
  /\ RouterPorts \subseteq Ports
  /\ InitFiles \subseteq Texts
  /\ Dirs \in Seq(Commands) /\ \A i \in DOMAIN Dirs : Dirs[i].kind = "scan"
  /\ Jobs \in [Writers -> SUBSET Commands]

Rewrites(j) == j.kind = "migrate" \/ j.overwrite

ASSUME OneRewriter ==
  \A v, w \in Writers : \A i \in Jobs[v], j \in Jobs[w] : Rewrites(i) /\ Rewrites(j) => v = w

VARIABLES
  file,   \* config.toml
  bak,    \* config.toml.bak
  cut,    \* the command that has truncated the file and not written it yet
  known,  \* what mlxd has loaded; nothing if it does not run
  pc,     \* where each command is
  job,    \* what it was asked to do
  cfg,    \* the configuration it has loaded
  src,    \* the text a migrate has read
  buf,    \* the text it will write
  todo,   \* the directories that a scan has still to add, by their places in Dirs
  alone,  \* nobody else has changed the file since the command read it
  done    \* history: what the file must say, see NothingForgotten

commandVars == <<job, cfg, src, buf, todo>>
vars == <<file, bak, cut, known, pc, commandVars, alone, done>>

-----------------------------------------------------------------------------
(* The text and its meaning *)

Empty == [head |-> FALSE, blocks |-> <<>>]

\* The slot that a block names, by the new key or by the old one.
Named(b) == IF b.slot # NoName THEN b.slot ELSE b.group

\* Faulty: a model without a slot gets none.
NoDefault(b) == Named(b)

SlotOf(b) == IF Named(b) = NoName THEN b.name ELSE Named(b)

\* normalize: whatever is not remote is a lazy slot, by default its own.
Normal(b) ==
  [name    |-> b.name,
   mode    |-> IF b.remote \/ b.mode = "external" THEN "external" ELSE "swap",
   slot    |-> SlotOf(b),
   port    |-> b.port, default |-> b.default, url |-> b.url, model |-> b.model]

Meaning(f) == [i \in DOMAIN f.blocks |-> Normal(f.blocks[i])]
SpecsOf(f) == {Normal(f.blocks[i]) : i \in DOMAIN f.blocks}

Mates(c, g) == {i \in DOMAIN c : c[i].mode = "swap" /\ c[i].slot = g}

\* Faulty: members may listen where they like.
AnyPort(c) == TRUE

\* swap members of a group must share a port
SharePorts(c) ==
  \A i \in DOMAIN c : \A j \in Mates(c, c[i].slot) :
    c[i].mode = "swap" => c[i].port = c[j].port

Valid(c) ==
  /\ c # <<>>
  /\ \A i \in DOMAIN c : IF c[i].mode = "swap" THEN c[i].port > 0 ELSE c[i].url
  /\ \A i, j \in DOMAIN c : c[i].name = c[j].name => i = j
  /\ SharePorts(c)
  /\ \A i \in DOMAIN c : \A j, k \in {m \in Mates(c, c[i].slot) : c[m].default} : j = k

\* Load: what is left of a truncated file lacks python_bin.
Loads(f) == f.head /\ Valid(Meaning(f))

-----------------------------------------------------------------------------
(* What add writes *)

\* buildSpec: chat models share a slot, others have one of their own.
SlotFor(j) ==
  IF j.slot # NoName THEN j.slot ELSE IF j.engine \in {"lm", "vlm"} THEN Chat ELSE j.name

\* The places of the members whose port the new one takes over.
Inherits(j, c) == IF j.external THEN {} ELSE Mates(c, SlotFor(j))

\* Faulty: the ports of the backends do not count.
RouterOnly(c) == RouterPorts

UsedPorts(c) == RouterPorts \cup {c[i].port : i \in DOMAIN c}

\* The port asked for, the slot's port, or a free one that the kernel picks.
PortsFor(j, c) ==
  IF j.port # 0 THEN {j.port}
  ELSE IF Inherits(j, c) # {} THEN {c[Min(Inherits(j, c))].port}
  ELSE Ports \ UsedPorts(c)

\* renderBackend: url and the legacy keys are never written, and slot only if
\* it is not the name.
Rendered(j, p) ==
  [name    |-> j.name, mode |-> "", group |-> NoName,
   slot    |-> IF j.external \/ SlotFor(j) = j.name THEN NoName ELSE SlotFor(j),
   remote  |-> j.external,
   port    |-> p, default |-> j.default, url |-> FALSE, model |-> j.model]

Taken(j, c) == \E i \in DOMAIN c : c[i].name = j.name

\* Faulty: the last block of the file makes room.
LastBlock(f, n) == {Len(f.blocks)}

\* backendBlockSpan: the blocks that declare the name; the first one is replaced.
BlocksOf(f, n) == {i \in DOMAIN f.blocks : f.blocks[i].name = n}

-----------------------------------------------------------------------------
(* What migrate writes *)

\* Faulty: an external backend loses its mode.
ModeDropped(b) == b.remote

StaysRemote(b) == b.remote \/ b.mode = "external"

\* migrateConfigLines: mode goes, external becomes remote, group becomes slot.
MigratedBlock(b) ==
  [b EXCEPT !.mode = "", !.remote = StaysRemote(b), !.group = NoName,
            !.slot = IF b.group # NoName THEN b.group ELSE b.slot]

Migrated(f) == [f EXCEPT !.blocks = [i \in DOMAIN f.blocks |-> MigratedBlock(f.blocks[i])]]

\* A key that would be there twice, which TOML does not allow.
Clashes(f) ==
  \E i \in DOMAIN f.blocks :
    \/ f.blocks[i].group # NoName /\ f.blocks[i].slot # NoName
    \/ f.blocks[i].mode = "external" /\ f.blocks[i].remote

-----------------------------------------------------------------------------
(* What mlxd knows *)

\* The names of the registry: of the backends and of the slots.
KnownNames(k) == {s.name : s \in k} \cup {s.slot : s \in {t \in k : t.mode = "swap"}}

\* AddMember: a member that joins a slot listens on the slot's port.
Joined(k, s) ==
  LET mates == {t \in k : t.mode = "swap" /\ t.slot = s.slot}
  IN  IF s.mode = "swap" /\ mates # {}
      THEN [s EXCEPT !.port = (CHOOSE t \in mates : TRUE).port] ELSE s

\* reload: what mlxd knows by name it does not look at again.
Reloaded(k, f) == k \cup {Joined(k, s) : s \in {s \in SpecsOf(f) : s.name \notin KnownNames(k)}}

Running == known # {}

-----------------------------------------------------------------------------
NoJob == [kind |-> "migrate", name |-> Chat, engine |-> "lm", slot |-> NoName,
          external |-> FALSE, port |-> 0, default |-> FALSE, overwrite |-> FALSE,
          model |-> CHOOSE m \in Models : TRUE]

Init ==
  /\ file \in InitFiles
  /\ bak = Empty
  /\ cut = "none"
  /\ known = IF Loads(file) THEN SpecsOf(file) ELSE {}
  /\ pc = [w \in Writers |-> "idle"]
  /\ job = [w \in Writers |-> NoJob]
  /\ cfg = [w \in Writers |-> <<>>]
  /\ src = [w \in Writers |-> Empty]
  /\ buf = [w \in Writers |-> Empty]
  /\ todo = [w \in Writers |-> {}]
  /\ alone = [w \in Writers |-> FALSE]
  /\ done = SpecsOf(file)

\* Between reading the text and writing the new one.
Rewriting == {w \in Writers : pc[w] \in {"bakcut", "backup", "cut", "write"}}

Go(w, step) == pc' = [pc EXCEPT ![w] = step]

\* w has read the file, has written it, or is done with it.
Reads(w) == alone' = [alone EXCEPT ![w] = TRUE]
Writes(w) == alone' = [v \in Writers |-> v = w /\ alone[w] /\ pc'[w] # "idle"]
Leaves(w) == alone' = [alone EXCEPT ![w] = FALSE]

\* The slots of a command that has ended mean nothing.
Finished(w) ==
  /\ Go(w, "idle")
  /\ job' = [job EXCEPT ![w] = NoJob]
  /\ cfg' = [cfg EXCEPT ![w] = <<>>]
  /\ src' = [src EXCEPT ![w] = Empty]
  /\ buf' = [buf EXCEPT ![w] = Empty]
  /\ todo' = [todo EXCEPT ![w] = {}]

-----------------------------------------------------------------------------
(* add and scan *)

\* A file that does not load, or a name that is taken, ends the command.  What
\* comes between this and the next step may take an hour: the download.
AddRead(w, j) ==
  /\ pc[w] = "idle"
  /\ j.kind = "add"
  /\ Loads(file)
  /\ Taken(j, Meaning(file)) => j.overwrite
  /\ Go(w, IF Taken(j, Meaning(file)) THEN "replace" ELSE "append")
  /\ job' = [job EXCEPT ![w] = j]
  /\ cfg' = [cfg EXCEPT ![w] = Meaning(file)]
  /\ Reads(w)
  /\ UNCHANGED <<file, bak, cut, known, src, buf, todo, done>>

Appended(w, b) ==
  /\ file' = [file EXCEPT !.blocks = Append(@, b)]
  /\ done' = IF Rewriting = {} /\ cut = "none" THEN done \cup {Normal(b)} ELSE done
  /\ Writes(w)

\* appendBackend, and the reload that follows unless there is --no-reload.
AddAppend(w) ==
  /\ pc[w] = "append"
  /\ \/ Go(w, "reload") /\ UNCHANGED commandVars
     \/ Finished(w)
  /\ \E p \in PortsFor(job[w], cfg[w]) : Appended(w, Rendered(job[w], p))
  /\ UNCHANGED <<bak, cut, known>>

\* replaceBackend reads the text itself, later than Load did.
ReplaceRead(w) ==
  LET there == BlocksOf(file, job[w].name) IN
  /\ pc[w] = "replace"
  /\ there # {}
  /\ \E p \in PortsFor(job[w], cfg[w]) :
       buf' = [buf EXCEPT ![w] = [file EXCEPT !.blocks[Min(there)] = Rendered(job[w], p)]]
  /\ Go(w, "cut")
  /\ UNCHANGED <<file, bak, cut, known, job, cfg, src, todo, alone, done>>

\* A directory whose model the configuration has is left out, by its path.
ScanRead(w, j) ==
  /\ pc[w] = "idle"
  /\ j.kind = "scan"
  /\ Loads(file)
  /\ Go(w, "scan")
  /\ job' = [job EXCEPT ![w] = j]
  /\ cfg' = [cfg EXCEPT ![w] = Meaning(file)]
  /\ todo' = [todo EXCEPT ![w] =
       {i \in DOMAIN Dirs : \A s \in SpecsOf(file) : s.model # Dirs[i].model}]
  /\ Reads(w)
  /\ UNCHANGED <<file, bak, cut, known, src, buf, done>>

\* Faulty: the next directory is looked at with the old configuration.
Unrefreshed(c, s) == c

\* "Refresh local view so the next iteration sees this group's port"
Refreshed(c, s) == Append(c, s)

ScanAppend(w) ==
  LET i == Min(todo[w]) IN
  /\ pc[w] = "scan"
  /\ todo[w] # {}
  /\ UNCHANGED <<bak, cut, known, pc, job, src, buf>>
  /\ \E p \in PortsFor(Dirs[i], cfg[w]) :
       /\ Appended(w, Rendered(Dirs[i], p))
       /\ cfg' = [cfg EXCEPT ![w] = Refreshed(cfg[w], Normal(Rendered(Dirs[i], p)))]
  /\ todo' = [todo EXCEPT ![w] = @ \ {i}]

\* No free port, or the append has failed: the directory is skipped.
ScanSkip(w) ==
  /\ pc[w] = "scan"
  /\ todo[w] # {}
  /\ todo' = [todo EXCEPT ![w] = @ \ {Min(@)}]
  /\ UNCHANGED <<file, bak, cut, known, pc, job, cfg, src, buf, alone, done>>

-----------------------------------------------------------------------------
(* migrate, and the two steps of os.WriteFile *)

\* The text must change, and the new one must load, or nothing is written.
MigrateRead(w, j) ==
  /\ pc[w] = "idle"
  /\ j.kind = "migrate"
  /\ Migrated(file) # file
  /\ ~Clashes(file)
  /\ Loads(Migrated(file))
  /\ Go(w, "bakcut")
  /\ job' = [job EXCEPT ![w] = j]
  /\ src' = [src EXCEPT ![w] = file]
  /\ buf' = [buf EXCEPT ![w] = Migrated(file)]
  /\ Reads(w)
  /\ UNCHANGED <<file, bak, cut, known, cfg, todo, done>>

BackupCut(w) ==
  /\ pc[w] = "bakcut"
  /\ bak' = Empty
  /\ Go(w, "backup")
  /\ UNCHANGED <<file, cut, known, commandVars, alone, done>>

BackupWrite(w) ==
  /\ pc[w] = "backup"
  /\ bak' = src[w]
  /\ Go(w, "cut")
  /\ UNCHANGED <<file, cut, known, commandVars, alone, done>>

Cut(w) ==
  /\ pc[w] = "cut"
  /\ file' = Empty
  /\ cut' = job[w].kind
  /\ Go(w, "write")
  /\ Writes(w)
  /\ UNCHANGED <<bak, known, commandVars, done>>

Others(w, s) == job[w].kind = "add" => s.name # job[w].name
Replaced(w) == {s \in SpecsOf(buf[w]) : ~Others(w, s)}

\* An add that has replaced a block does not reload.
Write(w) ==
  /\ pc[w] = "write"
  /\ file' = buf[w]
  /\ cut' = "none"
  /\ done' = {s \in done : Others(w, s)} \cup Replaced(w)
  /\ Finished(w)
  /\ Writes(w)
  /\ UNCHANGED <<bak, known>>

-----------------------------------------------------------------------------
(* mlxd, and commands that end early *)

\* callReload: a daemon that is down, or a file that does not load, is only
\* reported.
ReloadStep(w) ==
  /\ pc[w] \in {"idle", "reload"}
  /\ known' = IF Running /\ Loads(file) THEN Reloaded(known, file) ELSE known
  /\ Finished(w)
  /\ Leaves(w)
  /\ UNCHANGED <<file, bak, cut, done>>

\* mlxd stops and starts again, which it cannot with a file that does not load.
Restart ==
  /\ known' = IF Loads(file) THEN SpecsOf(file) ELSE {}
  /\ UNCHANGED <<file, bak, cut, pc, commandVars, alone, done>>

\* A command is interrupted, one of its steps fails, or a scan is through.
GiveUp(w) ==
  /\ pc[w] # "idle"
  /\ Finished(w)
  /\ Leaves(w)
  /\ UNCHANGED <<file, bak, cut, known, done>>

-----------------------------------------------------------------------------
CommandStep(w) ==
  \/ \E j \in Jobs[w] : AddRead(w, j) \/ ScanRead(w, j) \/ MigrateRead(w, j)
  \/ AddAppend(w) \/ ReplaceRead(w) \/ ScanAppend(w) \/ ScanSkip(w)
  \/ BackupCut(w) \/ BackupWrite(w) \/ Cut(w) \/ Write(w)
  \/ ReloadStep(w) \/ GiveUp(w)

Next == Restart \/ \E w \in Writers : CommandStep(w)

Spec == Init /\ [][Next]_vars

-----------------------------------------------------------------------------
(* Properties *)

Steps == {"idle", "append", "replace", "scan", "bakcut", "backup", "cut", "write", "reload"}

TypeOK ==
  /\ file \in Texts
  /\ bak \in Texts
  /\ cut \in {"none", "add", "migrate"}
  /\ known \subseteq Specs
  /\ pc \in [Writers -> Steps]
  /\ job \in [Writers -> Commands]
  /\ cfg \in [Writers -> Seq(Specs)]
  /\ src \in [Writers -> Texts]
  /\ buf \in [Writers -> Texts]
  /\ todo \in [Writers -> SUBSET DOMAIN Dirs]
  /\ alone \in [Writers -> BOOLEAN]
  /\ done \subseteq Specs

\* Where the text of the file is, or can be had from: the backup, if a migrate
\* has truncated the file, even one that was killed then.
Text == IF cut = "migrate" THEN bak ELSE file

\* An add that has ended and every block of the first file keep their meaning
\* whatever other commands do and wherever they are killed (config.go:31,
\* "every other field are preserved"; add.go:626, "preserving every other
\* line"), unless a rewrite had read the file before it was appended, or an
\* --overwrite names the block or dies between its truncation and its write
\* (it makes no backup).
NothingForgotten == cut # "add" => done \subseteq SpecsOf(Text)

\* The flags ask for what Validate allows: no mode that needs a url, no port
\* other than the slot's, no second default, and of a directory that scan has
\* found no name that is taken (scan looks at paths only).
Fits(j) ==
  LET c == Meaning(file)
      mates == Mates(c, SlotFor(j))
  IN  /\ ~j.external
      /\ j.port # 0 => \A i \in mates : c[i].port = j.port
      /\ j.default => \A i \in mates : ~c[i].default
      /\ j.kind = "scan" => \A i \in DOMAIN c : c[i].name # j.name

\* Whose turn it is to be appended.
Turn(w) == IF pc[w] = "scan" THEN Dirs[Min(todo[w])] ELSE job[w]

\* add.go:257 and cobra's help ("slot-mates share a port"): a command that
\* nobody interferes with does not turn a file that loads into one that does
\* not, over all the blocks that one scan appends, and in files in the old
\* vocabulary too.
AddsKeepLoading ==
  [][\A w \in Writers :
       AddAppend(w) \/ ScanAppend(w) =>
         (alone[w] /\ Loads(file) /\ Fits(Turn(w)) => Loads(file'))]_vars

\* add.go:499 ("so a fresh backend never shadows an existing listener"): a
\* slot that gets its first member gets a port that neither the router nor
\* another block has, unless the user asked for that port.
FreshPortIsFree ==
  [][\A w \in Writers :
       (AddAppend(w) \/ ScanAppend(w)) /\ alone[w] /\ Turn(w).port = 0
         /\ Mates(Meaning(file), SlotFor(Turn(w))) = {} =>
           LET p == file'.blocks[Len(file'.blocks)].port
           IN  p \notin RouterPorts /\ \A b \in SpecsOf(file) : b.port # p]_vars

\* config.go:83 ("nothing to migrate"), :88: a migrate that nobody interferes
\* with leaves a file that loads and that means, block by block, what the
\* backup means.
MigrateKeepsMeaning ==
  [][\A w \in Writers :
       Write(w) /\ job[w].kind = "migrate" /\ alone[w] =>
         Loads(file') /\ Meaning(file') = Meaning(bak)]_vars

\* group.go:153, live.go:171: a hot-loaded member listens on the slot's port,
\* whatever its block says.  The two differ only if the file had lost or
\* changed a block that mlxd had loaded: if all that mlxd knows is in the file,
\* then so is all that it knows after the reload.
ReloadAgrees ==
  [][\A w \in Writers :
       ReloadStep(w) /\ known \subseteq SpecsOf(file) => known' \subseteq SpecsOf(file)]_vars
=============================================================================
