----------------------------- MODULE PageStore -----------------------------
(***************************************************************************)
(* What the storage engine promises the code above it, with no file, cache *)
(* or frame in sight: a set of allocated pages, each holding the content   *)
(* last written to it.  A new page is zeroed, whatever page id it reuses.  *)
(* Reading is not an action: it returns content[p] and changes nothing.    *)
(***************************************************************************)
EXTENDS Integers

CONSTANTS
    PageNames,     \* every page id the store may ever hand out
    Contents,      \* every content a page may hold
    Zeroed         \* the content of a new page

VARIABLES
    allocated,     \* pages handed out and not deleted
    content        \* what every allocated page holds

storeVars == <<allocated, content>>

StoreInit ==
    /\ allocated = {}
    /\ content = [p \in PageNames |-> Zeroed]

StoreAllocate(p) ==
    /\ p \notin allocated
    /\ allocated' = allocated \union {p}
    /\ content' = [content EXCEPT ![p] = Zeroed]

StoreWrite(p, w) ==
    /\ p \in allocated
    /\ content' = [content EXCEPT ![p] = w]
    /\ UNCHANGED allocated

\* The content of a page nobody owns is not observable; it reads as zeroed.
StoreDelete(p) ==
    /\ p \in allocated
    /\ allocated' = allocated \ {p}
    /\ content' = [content EXCEPT ![p] = Zeroed]

StoreNext ==
    \E p \in PageNames :
        \/ StoreAllocate(p)
        \/ StoreDelete(p)
        \/ \E w \in Contents : StoreWrite(p, w)

StoreSpec == StoreInit /\ [][StoreNext]_storeVars
=============================================================================
