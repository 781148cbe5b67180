--------------------------- MODULE ResponseStream ---------------------------
(***************************************************************************)
(* What a client of POST /v1/responses may rely on while it reads a        *)
(* stream: a response that is created, then filled item by item, then      *)
(* completed.  An item is added at the next free output index, keeps its   *)
(* id, only ever grows, is done once and never changes afterwards; the     *)
(* response completes when every item is done, and repeats them.           *)
(***************************************************************************)
EXTENDS Integers, Sequences

CONSTANT Slot   \* output indices

VARIABLES
  phase,  \* "none", "open" or "completed"
  items,  \* by output index: [status, id, data]
  output  \* what the completed response repeats: a set of [at, id, data]

rvars == <<phase, items, output>>

RInit ==
  /\ phase = "none"
  /\ items = [i \in Slot |-> [status |-> "absent", id |-> <<>>, data |-> <<>>]]
  /\ output = {}

Extends(longer, shorter) ==
  /\ Len(shorter) <= Len(longer)
  /\ SubSeq(longer, 1, Len(shorter)) = shorter

\* The item is added, perhaps with its first data.
AddItem(i) ==
  /\ items[i].status = "absent"
  /\ items'[i].status = "open"
  /\ items'[i].id # <<>>
  /\ \A j \in Slot : j < i => items'[j].status # "absent"

Grow(i) ==
  /\ items[i].status = "open"
  /\ items'[i].status = "open"
  /\ items'[i].id = items[i].id
  /\ Extends(items'[i].data, items[i].data)

\* Done as it was last seen.
FinishItem(i) ==
  /\ items[i].status = "open"
  /\ items'[i] = [items[i] EXCEPT !.status = "done"]

\* Some items move on; the first step also creates the response.
Fill ==
  /\ phase \in {"none", "open"}
  /\ phase' = "open"
  /\ \A i \in Slot : items'[i] # items[i] => AddItem(i) \/ Grow(i) \/ FinishItem(i)
  /\ UNCHANGED output

Complete ==
  /\ phase = "open"
  /\ \A i \in Slot : items[i].status # "open"
  /\ phase' = "completed"
  /\ output' = {[at |-> i, id |-> items[i].id, data |-> items[i].data] :
                  i \in {j \in Slot : items[j].status = "done"}}
  /\ UNCHANGED items

RSpec == RInit /\ [][Fill \/ Complete]_rvars
=============================================================================
