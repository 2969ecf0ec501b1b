----------------------------- MODULE Catalogue -----------------------------
(***************************************************************************)
(* The page that shows what the catalogue service lists (category.html).   *)
(* The service answers every request from the database alone (Listing);    *)
(* the page keeps what to show in its address: page, size and tags, and    *)
(* lists the pages it can go to from the number of socks it is told.       *)
(***************************************************************************)
EXTENDS Query, Listing

CONSTANTS
    Addresses,  \* addresses the page may be opened with
    Sorts       \* values of the sort parameter; "" is none

VARIABLES
    keys,        \* what the page has parsed from its address: $.query
    sort,        \* the order asked for
    shown,       \* the socks on the page
    chosen,      \* the tags the customer has chosen
    turned       \* has the page been chosen since the filter changed?

catalogueVars == <<db, keys, sort, shown, chosen, turned>>

-----------------------------------------------------------------------------
(* How the service reads its parameters *)

\* strconv.Atoi of a parameter; what is no number is 0.  The page itself calculates with
\* the text: of a size that was typed by hand and is no number it makes no pages at all.
Atoi(v) == IF v[1] = "num" THEN v[2] ELSE 0

\* The names a tags parameter lists; true is written out.
TagList(v) == IF v = True THEN {"true"} ELSE v[2]

-----------------------------------------------------------------------------
(* The page *)

Or(v, default) == IF Falsy(v) THEN default ELSE v

PageSize(query) == Or(Get(query, "size"), Num(6))
PageNum(query) == Or(Get(query, "page"), Num(1))
PageTags(query) == Or(Get(query, "tags"), Text({}))
BaseSize == 3

\* What the page asks the service for.
Asked == TagList(PageTags(keys))

\* A size of "0" stays 0.
ShownSize == Fitted(Count(Asked), Atoi(PageSize(keys)))

\* data.size / size is not finite: the page never ends to list its pages.
Endless == ShownSize = 0 /\ Count(Asked) > 0

TotalNumPages == NumPages(Count(Asked), Atoi(PageSize(keys)))

\* The sizes offered: 3, 6, 9, ... and all.
PageSizes ==
    {n \in BaseSize..(Count(Asked) - 1) : n % BaseSize = 0} \cup {Count(Asked)}

\* What a page shows whose address is parsed to this.
Shown(query, order) ==
    List(TagList(PageTags(query)), order, Atoi(PageNum(query)), Atoi(PageSize(query)))

\* The page at an address is loaded, with everything asked for anew.
Load(address) ==
    \E query \in {Parse(address)} :
        /\ keys' = query
        /\ shown' = Shown(query, sort)
        /\ UNCHANGED <<db, sort>>

CategoryShown ==
    /\ db \in Databases /\ sort = ""
    /\ \E address \in Addresses : keys = Parse(address)
    /\ shown = Shown(keys, "")
    /\ chosen = Asked /\ turned = TRUE

\* The page is opened from a link, or in a new tab.
Open ==
    \E address \in Addresses :
        /\ Load(address)
        /\ chosen' = Asked' /\ turned' = TRUE

CategoryLeft ==
    /\ keys' = <<>> /\ sort' = "" /\ shown' = <<>> /\ chosen' = {} /\ turned' = TRUE
    /\ UNCHANGED db

SetNewPage ==
    \E i \in 1..TotalNumPages :
        /\ ~Endless
        /\ Load(QueryString(SetCopy(keys, "page", Num(i))))
        /\ turned' = TRUE /\ UNCHANGED chosen

\* Mutant of SetNewPageSize: the page stays.
KeepPage ==
    \E n \in PageSizes :
        /\ ~Endless
        /\ Load(QueryString(SetCopy(keys, "size", Num(n))))
        /\ turned' = TRUE /\ UNCHANGED chosen

SetNewPageSize ==
    \E n \in PageSizes :
        /\ ~Endless
        /\ Load(QueryString(SetCopy(SetCopy(keys, "page", Num(1)), "size", Num(n))))
        /\ turned' = TRUE /\ UNCHANGED chosen

\* Mutant of SetNewTags: the tags of the page stay.
AddTags ==
    \E filter \in SUBSET Tags :
        /\ ~Endless
        /\ Load(QueryString(SetCopy(keys, "tags", Text(filter \cup Asked))))
        /\ chosen' = filter /\ turned' = FALSE

\* The boxes that are ticked, joined; the page number stays in the address.
SetNewTags ==
    \E filter \in SUBSET Tags :
        /\ ~Endless
        /\ Load(QueryString(SetCopy(keys, "tags", Text(filter))))
        /\ chosen' = filter /\ turned' = FALSE

ResetTags ==
    /\ ~Endless
    /\ Load(QueryString(RemoveKey(keys, "tags")))
    /\ chosen' = {} /\ turned' = FALSE

\* A client of the service asks for an order; the page never does.
SetSort ==
    \E order \in Sorts :
        /\ sort' = order /\ shown' = Shown(keys, order)
        /\ UNCHANGED <<db, keys, chosen, turned>>

CatalogueNext ==
    Open \/ SetNewPage \/ SetNewPageSize \/ SetNewTags \/ ResetTags \/ SetSort

CatalogueSpec == CategoryShown /\ [][CatalogueNext]_catalogueVars

-----------------------------------------------------------------------------
(* Properties *)

\* The pages the page offers, one after the other, are the socks that match the
\* filter, each once: count, cut and the arithmetic of the page agree.
PagesCover == ~Endless => Covered(Asked, sort, Atoi(PageSize(keys)))

\* The service is asked for the tags that were chosen, however often the page has
\* written and read its address; but none at all is written as "tags", which is
\* read as true and matches nothing.
AskedIsChosen ==
    \/ Asked = chosen
    \/ chosen = {} /\ Asked = {"true"}

\* No product is shown, although some match what was asked, only when the filter
\* has changed and the page has not been chosen since, or with a size of 0, which
\* comes into the address on a page without products, where all are 0.
EmptyExplained == shown = <<>> /\ Count(Asked) > 0 => ~turned \/ Endless
=============================================================================
