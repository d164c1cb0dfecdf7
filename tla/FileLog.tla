------------------------------- MODULE FileLog -------------------------------
(***************************************************************************)
(* What sdk/sys/fs promises of the files it writes: every path goes        *)
(* through a succession of complete contents.  A power loss may take the   *)
(* latest of them back, but none that a caller was told is on disk.        *)
(***************************************************************************)
EXTENDS Naturals, Sequences

CONSTANTS Path, Data

VARIABLES
    contents,   \* the contents a path has had, the last one being the file
    floor       \* how many of them are known to survive a power loss

Init ==
    contents = [p \in Path |-> <<>>] /\ floor = [p \in Path |-> 0]

Replace(p, d) ==
    /\ contents' = [contents EXCEPT ![p] = Append(@, d)]
    /\ UNCHANGED floor

Acknowledge(p) ==
    /\ floor' \in {[floor EXCEPT ![p] = n] : n \in floor[p] .. Len(contents[p])}
    /\ UNCHANGED contents

PowerLoss ==
    /\ \A p \in Path :
           \E n \in floor[p] .. Len(contents[p]) :
               contents'[p] = SubSeq(contents[p], 1, n)
    /\ DOMAIN contents' = Path
    /\ UNCHANGED floor

Next ==
    \/ \E p \in Path, d \in Data : Replace(p, d)
    \/ \E p \in Path : Acknowledge(p)
    \/ PowerLoss

Spec == Init /\ [][Next]_<<contents, floor>>

===============================================================================
