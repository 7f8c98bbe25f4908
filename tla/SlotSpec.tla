------------------------------ MODULE SlotSpec ------------------------------
(***************************************************************************)
(* What a slot promises its callers.  A slot (a "group" in the code) holds *)
(* at most one loaded member.  A caller asks for a member and is told "ok" *)
(* only at an instant at which that member is the loaded one; a slot never *)
(* passes from one member to another without being empty in between, and   *)
(* it may lose what it holds at any time (its process may die).            *)
(* The interface is backend.Backend; Slot.tla is the implementation.       *)
(***************************************************************************)
CONSTANTS
  Members,      \* every member name that can be registered with the slot
  NoMember,     \* the empty name
  Clients       \* the goroutines that call into the slot

VARIABLES
  registered,   \* members the slot knows
  loaded,       \* the member that is loaded, or NoMember
  busy,         \* the clients inside a call
  want,         \* what a busy client asked for (NoMember: it asked to stop)
  res           \* the answer of a client's last call

specVars == <<registered, loaded, busy, want, res>>

Answers == {"none", "ok", "err"}

TypeOK ==
  /\ registered \subseteq Members
  /\ loaded \in Members \cup {NoMember}
  /\ busy \subseteq Clients
  /\ want \in [Clients -> Members \cup {NoMember}]
  /\ res \in [Clients -> Answers]

Init ==
  /\ registered \subseteq Members
  /\ loaded = NoMember
  /\ busy = {}
  /\ want = [c \in Clients |-> NoMember]
  /\ res = [c \in Clients |-> "none"]

-----------------------------------------------------------------------------
\* A client asks for member m, or asks to stop the slot (NoMember).
Begin(c, m) ==
  /\ c \notin busy
  /\ busy' = busy \cup {c}
  /\ want' = [want EXCEPT ![c] = m]
  /\ res' = [res EXCEPT ![c] = "none"]
  /\ UNCHANGED <<registered, loaded>>

\* The call of c returns a.
Return(c, a) ==
  /\ c \in busy
  /\ busy' = busy \ {c}
  /\ want' = [want EXCEPT ![c] = NoMember]
  /\ res' = [res EXCEPT ![c] = a]
  /\ UNCHANGED registered

\* The slot was empty and now holds what c asked for.
LoadOk(c) ==
  /\ loaded = NoMember
  /\ want[c] \in registered
  /\ loaded' = want[c]
  /\ Return(c, "ok")

\* What c asked for is there already.
HitOk(c) ==
  /\ want[c] # NoMember
  /\ loaded = want[c]
  /\ Return(c, "ok")
  /\ UNCHANGED loaded

\* A stop succeeds; a client that came later may have loaded something since.
StopOk(c) ==
  /\ want[c] = NoMember
  /\ Return(c, "ok")
  /\ UNCHANGED loaded

\* A call may fail.  A failed load may leave the slot emptied (Empty).
Fail(c) ==
  /\ Return(c, "err")
  /\ UNCHANGED loaded

\* A call that is refused before it begins.
Refuse(c) ==
  /\ c \notin busy
  /\ res' = [res EXCEPT ![c] = "err"]
  /\ UNCHANGED <<registered, loaded, busy, want>>

\* The slot gives up what it holds: for a swap, for a stop, or at its death.
Empty ==
  /\ loaded # NoMember
  /\ loaded' = NoMember
  /\ UNCHANGED <<registered, busy, want, res>>

Register(m) ==
  /\ m \notin registered
  /\ registered' = registered \cup {m}
  /\ UNCHANGED <<loaded, busy, want, res>>

Next ==
  \/ \E c \in Clients : \/ \E m \in Members \cup {NoMember} : Begin(c, m)
                        \/ LoadOk(c)
                        \/ HitOk(c)
                        \/ StopOk(c)
                        \/ Fail(c)
                        \/ Refuse(c)
  \/ Empty
  \/ \E m \in Members : Register(m)

Spec == Init /\ [][Next]_specVars
=============================================================================
