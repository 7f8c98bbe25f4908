----------------------------- MODULE TieredStore -----------------------------
(***************************************************************************)
(* What two-tier storage promises about the weights of the models: each    *)
(* model that exists has a complete copy on the SSD (the cache), on the    *)
(* external drive (the library), or on both.  The library only grows, and  *)
(* the SSD gives up a copy only when the library has one.  Offload.tla is  *)
(* the implementation.                                                     *)
(***************************************************************************)
CONSTANT Models

VARIABLES
  local,     \* the models with a complete copy in the cache
  library    \* the models with a complete copy in the library

storeVars == <<local, library>>

Init == local \subseteq Models /\ library \subseteq Models

\* A pull completes.
Fetch(m) ==
  /\ m \in library \ local
  /\ local' = local \cup {m}
  /\ UNCHANGED library

\* An offload has backed up a model that was on the SSD only.
BackUp(m) ==
  /\ m \in local \ library
  /\ library' = library \cup {m}
  /\ UNCHANGED local

\* A cache copy begins to disappear: evicted for another model, or offloaded.
Release(m) ==
  /\ m \in local \cap library
  /\ local' = local \ {m}
  /\ UNCHANGED library

Next == \E m \in Models : Fetch(m) \/ BackUp(m) \/ Release(m)

Spec == Init /\ [][Next]_storeVars
=============================================================================
