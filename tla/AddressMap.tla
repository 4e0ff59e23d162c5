----------------------------- MODULE AddressMap -----------------------------
(***************************************************************************)
(* What the page tables promise: address spaces, each a map from pages to  *)
(* what they translate to, changed by one request at a time.  A request    *)
(* names a space, a page, and what the page is to translate to.  Serving   *)
(* it changes that page of that space to just that and nothing else; a     *)
(* request to map may be refused, and then nothing changes at all.         *)
(* Mmu implements it.                                                      *)
(***************************************************************************)
CONSTANTS
  Root,                 \* the names of address spaces
  Page,
  Target                \* what a page can translate to

VARIABLES
  space,                \* what the pages of each address space translate to
  request               \* what was asked for and is not done yet

NoRequest == [op |-> "none"]

MapRequest == [op : {"map"}, root : DOMAIN space, page : Page, entry : Target]
UnmapRequest == [op : {"unmap"}, root : DOMAIN space, page : Page]

Init ==
  /\ space = [r \in {} |-> {}]
  /\ request = NoRequest

(* A new space has no pages. *)
Create(r) ==
  /\ request = NoRequest
  /\ r \notin DOMAIN space
  /\ space' = [s \in DOMAIN space \cup {r} |->
                 IF s = r THEN [v \in Page |-> {}] ELSE space[s]]
  /\ UNCHANGED request

Ask ==
  /\ request = NoRequest
  /\ request' \in MapRequest \/ request' \in UnmapRequest
  /\ UNCHANGED space

(* The page translates to the entry from now on, whatever it did before. *)
Map ==
  /\ request.op = "map"
  /\ space' = [space EXCEPT ![request.root][request.page] = {request.entry}]
  /\ request' = NoRequest

Refuse ==
  /\ request.op = "map"
  /\ request' = NoRequest
  /\ UNCHANGED space

Unmap ==
  /\ request.op = "unmap"
  /\ space' = [space EXCEPT ![request.root][request.page] = {}]
  /\ request' = NoRequest

Next == (\E r \in Root : Create(r)) \/ Ask \/ Map \/ Refuse \/ Unmap

Spec == Init /\ [][Next]_<<space, request>>
=============================================================================
