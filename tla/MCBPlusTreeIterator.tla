------------------------ MODULE MCBPlusTreeIterator ------------------------
(***************************************************************************)
(* Which cursor holds which iterator does not matter: the view counts them.*)
(***************************************************************************)
EXTENDS MCBPlusTree, BPlusTreeIterator

CursorView ==
    LET order == PageOrder(tree)
        At(it) == <<SelectInSeq(order, LAMBDA q : q = it.page), it.index, it.held, it.fresh>>
    IN  <<TreeView, {<<At(cursor[c]), Cardinality({d \in Cursors : At(cursor[d]) = At(cursor[c])})>> :
                        c \in Cursors}>>
=============================================================================
