---------------------------- MODULE MCConfigFile ----------------------------
(* Two shells; files in the old and in the new vocabulary; a scan that finds *)
(* two chat models and one with a slot of its own.                          *)
EXTENDS ConfigFile

CONSTANTS w1, w2, chat, qwen, bge, m1, m2, m3, m4

MCNames == {chat, qwen, bge}
MCModels == {m1, m2, m3, m4}
MCPorts == 1..4

MCBlock(n, p, m) ==
  [name |-> n, mode |-> "", group |-> NoName, slot |-> NoName, remote |-> FALSE,
   port |-> p, default |-> FALSE, url |-> FALSE, model |-> m]

MCJob(kind, n, e, m) ==
  [kind |-> kind, name |-> n, engine |-> e, slot |-> NoName, external |-> FALSE,
   port |-> 0, default |-> FALSE, overwrite |-> FALSE, model |-> m]

\* The old vocabulary; the new one; a slot and the key it clashes with.
MCFiles == {[head |-> TRUE, blocks |-> b] : b \in {
  <<[MCBlock(bge, 2, m1) EXCEPT !.mode = "external", !.url = TRUE],
    [MCBlock(qwen, 3, m2) EXCEPT !.mode = "swap", !.group = chat, !.default = TRUE]>>,
  <<[MCBlock(bge, 2, m1) EXCEPT !.mode = "persistent", !.slot = chat, !.group = bge]>>,
  <<[MCBlock(qwen, 0, m2) EXCEPT !.remote = TRUE, !.group = chat, !.url = TRUE]>>}}

MCJobs == [w \in {w1, w2} |->
  IF w = w1
  THEN {[MCJob("add", qwen, "embed", m2) EXCEPT !.overwrite = TRUE],
        MCJob("scan", chat, "lm", m1),
        MCJob("migrate", chat, "lm", m1)}
  ELSE {[MCJob("add", chat, "lm", m3) EXCEPT !.default = TRUE, !.port = 3],
        MCJob("add", qwen, "vlm", m2),
        MCJob("add", bge, "embed", m3),
        [MCJob("add", bge, "vlm", m3) EXCEPT !.external = TRUE]}]

MCDirs == <<MCJob("scan", bge, "vlm", m3), MCJob("scan", chat, "lm", m4)>>
=============================================================================
