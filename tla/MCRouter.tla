------------------------------ MODULE MCRouter ------------------------------
(* A configuration that grows by a member, by a slot with a mixed-case      *)
(* member and by an external backend, and that is edited and broken.        *)
EXTENDS Router, TLC

CONSTANTS chat, qwen, Qwen, vis, ext, solo

MCNames == {chat, qwen, Qwen, vis, ext, solo}
MCCanon == [n \in MCNames |-> IF n = Qwen THEN qwen ELSE n]

MCMember(n, g, flag) == [name |-> n, mode |-> "swap", slot |-> g, default |-> flag]
MCExternal(n) == [name |-> n, mode |-> "external", slot |-> n, default |-> FALSE]

MCFiles == {
  <<MCMember(solo, solo, FALSE)>>,
  <<MCMember(vis, chat, FALSE), MCMember(Qwen, chat, TRUE)>>,
  <<MCMember(chat, chat, FALSE), MCExternal(ext)>>,
  <<MCExternal(vis), MCMember(solo, solo, FALSE), MCMember(Qwen, chat, FALSE)>>,
  <<MCMember(vis, chat, TRUE), MCMember(Qwen, chat, TRUE)>>}

MCSymmetry == Permutations(Reloads)
=============================================================================
