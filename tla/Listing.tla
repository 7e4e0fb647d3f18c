------------------------------- MODULE Listing -------------------------------
(***************************************************************************)
(* knowledge.KnowledgeClient.inventory_pages, which follows the offsets a  *)
(* gate names through an inventory that rows join and leave meanwhile.     *)
(*                                                                         *)
(* The rows a page holds are the gate's, those at the offset the page      *)
(* names; the numbers beside them are any, and InventoryPage.from_response *)
(* decides which pages are taken.  An offset is a position, and not a row: *)
(* a row moves up when an earlier one leaves.                              *)
(***************************************************************************)
EXTENDS Naturals, Sequences, SequencesExt, Functions

CONSTANTS
    MaxRows,    \* bound: how many rows a gate has, or claims to have
    MaxPages    \* max_pages

ASSUME ListingAssumption == MaxRows \in Nat /\ MaxPages \in Nat \ {0}

VARIABLES
    listing,    \* one iteration over inventory_pages
    handed,     \* the rows it handed over, in their order
    inventory,  \* the rows the gate has, in the order it pages through them
    joined,     \* rows that joined the inventory since the iteration began ...
    left        \* ... and rows that left it

listingVars == <<listing, handed, inventory, joined, left>>

Rows == 1..MaxRows

-----------------------------------------------------------------------------
None == MaxRows + 1   \* next_offset of a last page

Answers ==
    [rows : 0..MaxRows, total : 0..MaxRows, offset : 0..MaxRows, has_more : BOOLEAN,
     next_offset : 0..None]

(* What the gate may answer with. *)
HasRowsOf(page) == page.rows = 0 \/ page.offset + page.rows <= Len(inventory)

RowsOf(page) == SubSeq(inventory, page.offset + 1, page.offset + page.rows)

(* Faulty: the next offset has only to be a later one. *)
FollowsLoosely(page) == page.next_offset > page.offset

Follows(page) == page.next_offset = page.offset + page.rows

(* InventoryPage.from_response; the limit of an answer is the gate's own. *)
from_response(page, requested_offset) ==
    /\ page.offset = requested_offset
    /\ page.rows <= page.total
    /\ page.has_more = (page.offset + page.rows < page.total)
    /\ page.rows = 0 \/ page.offset + page.rows <= page.total
    /\ IF page.has_more
       THEN page.rows > 0 /\ page.next_offset # None /\ Follows(page)
       ELSE page.next_offset = None

(* offset is the next one to ask for, total the size the last page named. *)
Listings ==
    [at : {"more", "done", "invalid_response", "page_limit"}, offset : 0..MaxRows,
     pages : 0..MaxPages, total : 0..MaxRows]

ListingInit ==
    /\ listing = [at |-> "more", offset |-> 0, pages |-> 0, total |-> 0]
    /\ handed = <<>>
    /\ inventory \in {[i \in 1..n |-> i] : n \in 0..MaxRows}
    /\ joined = {}
    /\ left = {}

(* The next page, or what ends the iteration: a call that fails does so as an
   answer that is no page does. *)
inventory_pages ==
    /\ listing.at = "more"
    /\ listing.pages < MaxPages
    /\ \E page \in Answers :
        /\ HasRowsOf(page)
        /\ IF ~from_response(page, listing.offset)
           THEN listing' = [listing EXCEPT !.at = "invalid_response"] /\ UNCHANGED handed
           ELSE
            /\ listing' =
                [at |-> IF page.has_more THEN "more" ELSE "done",
                 offset |-> IF page.has_more THEN page.next_offset ELSE listing.offset,
                 pages |-> listing.pages + 1,
                 total |-> page.total]
            /\ handed' = handed \o RowsOf(page)
    /\ UNCHANGED <<inventory, joined, left>>

PageLimitReached ==
    /\ listing.at = "more"
    /\ listing.pages = MaxPages
    /\ listing' = [listing EXCEPT !.at = "page_limit"]
    /\ UNCHANGED <<handed, inventory, joined, left>>

(* Somebody proposes a row, or moves one into what the filters ask for: it may
   come anywhere in the order, also where it was before. *)
RowJoins ==
    /\ listing.at = "more"
    /\ \E r \in Rows \ ToSet(inventory), i \in 1..(Len(inventory) + 1) :
        /\ inventory' = InsertAt(inventory, i, r)
        /\ joined' = joined \cup {r}
    /\ UNCHANGED <<listing, handed, left>>

RowLeaves ==
    /\ listing.at = "more"
    /\ \E i \in 1..Len(inventory) :
        /\ inventory' = RemoveAt(inventory, i)
        /\ left' = left \cup {inventory[i]}
    /\ UNCHANGED <<listing, handed, joined>>

ListingNext == inventory_pages \/ PageLimitReached \/ RowJoins \/ RowLeaves

ListingSpec == ListingInit /\ [][ListingNext]_listingVars

-----------------------------------------------------------------------------
ListingTypeOK ==
    /\ listing \in Listings
    /\ handed \in Seq(Rows)
    /\ inventory \in Seq(Rows) /\ IsInjective(inventory)
    /\ joined \subseteq Rows
    /\ left \subseteq Rows

(* As long as no row leaves, no row is passed over: what the gate has up to the
   offset was handed over or joined on the way, and of an iteration that ends
   without an error that holds of all the gate has, if its last page named the
   true total. *)
NoRowIsSkipped ==
    left = {} =>
        \A i \in 1..Len(inventory) :
            \/ i <= Len(handed)
            \/ listing.at = "done" /\ listing.total = Len(inventory)
            => inventory[i] \in ToSet(handed) \cup joined

(* As long as none joins, no row is handed over twice. *)
NoRowIsRepeated == joined = {} => IsInjective(handed)

(* A listing is whole as far as pages by offset can be, over pages with any numbers
   on them and an inventory that moves between any two (inventory_pages and
   from_response, which compares the numbers of a page with one another and with
   what was asked).  It says nothing of an iteration during which rows both join
   and leave, nor that no row is skipped when one before it leaves: one may be. *)
ListingIsWhole == NoRowIsSkipped /\ NoRowIsRepeated

=============================================================================
