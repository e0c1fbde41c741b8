--------------------------- MODULE PositionPages ---------------------------
(***************************************************************************)
(* The position inventory of a wallet (rspm, clob/positions.rs): a         *)
(* traversal of the venue's list by offset, one GET after another, while   *)
(* the venue opens, closes and reorders positions between two of them.     *)
(*                                                                         *)
(* An entry stands for its identity (condition_id, asset); the venue lists *)
(* every identity once.  The result is a set: the code sorts it by that    *)
(* identity.  What fetch refuses for other reasons than its pages (status, *)
(* size, decoding, another wallet, timeout) is PageRefused.                *)
(***************************************************************************)
EXTENDS Naturals, Sequences, FiniteSets

CONSTANTS
    Entries,       \* identities of positions
    PageLimit,     \* PAGE_LIMIT
    MaxOffset,     \* MAX_OFFSET
    ChangeMax      \* changes of the inventory during a traversal (model bound)

ASSUME PagesAssumption ==
    /\ IsFiniteSet(Entries)
    /\ PageLimit \in Nat \ {0}
    /\ MaxOffset \in Nat
    /\ ChangeMax \in Nat

VARIABLES
    inventory,     \* the venue's list
    offset,        \* of the next page
    identities,    \* what the traversal has collected
    traversal,     \* "reading", "done" or "failed"
    changes        \* changes so far

pagevars == <<inventory, offset, identities, traversal, changes>>

Listed == {inventory[i] : i \in DOMAIN inventory}

(* The lists of each set of positions.                                     *)
Lists == [S \in SUBSET Entries |->
             {q \in [1 .. Cardinality(S) -> S] : \A i, j \in DOMAIN q : q[i] = q[j] => i = j}]

PagesInit ==
    /\ \E S \in SUBSET Entries : inventory \in Lists[S]
    /\ offset = 0
    /\ identities = {}
    /\ traversal = "reading"
    /\ changes = 0

-----------------------------------------------------------------------------

(* The page at the current offset; empty beyond the end.                   *)
PageEnd == IF offset + PageLimit < Len(inventory) THEN offset + PageLimit ELSE Len(inventory)
Page == {inventory[i] : i \in offset + 1 .. PageEnd}

(* Variant: entries already collected are passed over.                     *)
NeverRepeats == FALSE

(* Some entry of the page has been seen: identities.insert returns false.  *)
Repeats == Page \cap identities # {}

LastPage == Cardinality(Page) < PageLimit

(* next_offset: done after a short page; an error beyond MAX_OFFSET.       *)
ReadPage ==
    /\ traversal = "reading"
    /\ ~Repeats
    /\ identities' = identities \cup Page
    /\ \/ /\ LastPage
          /\ traversal' = "done"
          /\ UNCHANGED offset
       \/ /\ ~LastPage
          /\ offset + PageLimit <= MaxOffset
          /\ offset' = offset + PageLimit
          /\ UNCHANGED traversal
       \/ /\ ~LastPage
          /\ offset + PageLimit > MaxOffset
          /\ traversal' = "failed"
          /\ UNCHANGED offset
    /\ UNCHANGED <<inventory, changes>>

(* A repeated identity, or an answer fetch refuses for another reason; the *)
(* partial result is dropped with the call.                                *)
PageRefused ==
    /\ traversal = "reading"
    /\ traversal' = "failed"
    /\ UNCHANGED <<inventory, offset, identities, changes>>

(* The venue: a fill opens or closes a position, a value moves another.    *)
InventoryChanges ==
    /\ traversal = "reading"
    /\ changes < ChangeMax
    /\ changes' = changes + 1
    /\ \E S \in SUBSET Entries :
          /\ Cardinality((S \ Listed) \cup (Listed \ S)) <= 1
          /\ inventory' \in Lists[S]
    /\ UNCHANGED <<offset, identities, traversal>>

PagesNext == ReadPage \/ PageRefused \/ InventoryChanges

PagesSpec == PagesInit /\ [][PagesNext]_pagevars

-----------------------------------------------------------------------------
(* Properties.                                                             *)

(* When a traversal succeeds, at most as many held positions are missing   *)
(* from its result, when the last page was read, as it contains positions  *)
(* closed meanwhile: openings and reorderings between two pages never hide *)
(* one (fetch, its refusal of repeated identities, and next_offset).       *)
NothingHeldIsMissed ==
    traversal = "done" =>
        Cardinality(Listed \ identities) <= Cardinality(identities \ Listed)

=============================================================================
