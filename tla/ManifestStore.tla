---------------------------- MODULE ManifestStore ----------------------------
(***************************************************************************)
(* What a kernel promises the embedder about manifest handles: a handle is *)
(* given out once and names one manifest; no two handles name the same     *)
(* plugin; a call touches the manifest of one handle only.                 *)
(***************************************************************************)
EXTENDS Integers

CONSTANTS Kinds, Names   \* what a manifest can be and how it can be called

VARIABLES
  held,    \* handle -> [kind, name, fixed]
  next     \* the next handle to give out

storeVars == <<held, next>>

Records == [kind : Kinds, name : Names, fixed : BOOLEAN]

(* A plugin's name is free when no other handle holds it.                  *)
Free(handles, record) ==
  record.kind = "plugin" => \A h \in handles : held[h].kind = "plugin" => held[h].name # record.name

StoreInit ==
  \E r \in Records : r.fixed /\ held = [h \in {1} |-> r] /\ next = 2

Add ==
  \E r \in Records :
    /\ ~r.fixed
    /\ Free(DOMAIN held, r)
    /\ held' = [h \in DOMAIN held \cup {next} |-> IF h = next THEN r ELSE held[h]]
    /\ next' = next + 1

Drop(h) ==
  /\ ~held[h].fixed
  /\ held' = [g \in DOMAIN held \ {h} |-> held[g]]
  /\ UNCHANGED next

Swap(h) ==
  \E r \in Records :
    /\ ~held[h].fixed /\ ~r.fixed
    /\ Free(DOMAIN held \ {h}, r)
    /\ held' = [held EXCEPT ![h] = r]
    /\ UNCHANGED next

StoreNext == Add \/ \E h \in DOMAIN held : Drop(h) \/ Swap(h)

StoreSpec == StoreInit /\ [][StoreNext]_storeVars

=============================================================================
