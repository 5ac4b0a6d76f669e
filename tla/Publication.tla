----------------------------- MODULE Publication -----------------------------
(***************************************************************************)
(* What the patchers promise of a place an application is installed in: it *)
(* holds one whole application or none, what is replaced is kept, and what *)
(* comes back is something that was kept.  No step goes from one           *)
(* application to another, so none is ever overwritten.                    *)
(***************************************************************************)
CONSTANTS App,    \* what may be installed
          Nothing

VARIABLES current,  \* the installed application, or Nothing
          kept      \* the applications that were moved away

Init == current \in App \cup {Nothing} /\ kept = {}

Withdraw == /\ current # Nothing
            /\ current' = Nothing
            /\ kept' = kept \cup {current}

Publish == /\ current = Nothing
           /\ current' \in App \ kept
           /\ kept' = kept

Restore == /\ current = Nothing
           /\ \E a \in kept : current' = a /\ kept' = kept \ {a}

Next == Withdraw \/ Publish \/ Restore

Spec == Init /\ [][Next]_<<current, kept>>
=============================================================================
