-------------------------------- MODULE Lists --------------------------------
(***************************************************************************)
(* The linked lists of the code, walked from the head along elem->next.    *)
(* An element is unlinked with RemoveFirst, as LIST_DELETE does it.        *)
(***************************************************************************)
EXTENDS Integers, Sequences, SequencesExt

HeadOf(s, end) == IF s = <<>> THEN end ELSE Head(s)

\* x->next, or the end of the list.
NextOf(s, x, end) ==
    LET i == CHOOSE i \in DOMAIN s : s[i] = x
    IN  IF i = Len(s) THEN end ELSE s[i + 1]
=============================================================================
