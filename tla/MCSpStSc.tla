------------------------------ MODULE MCSpStSc ------------------------------
(* Small instances of SpStSc for TLC.                                      *)
EXTENDS SpStSc

Rect(x, y, w, h, dx, dy, alpha, z) ==
    [ul |-> [x |-> x, y |-> y], dim |-> [width |-> w, height |-> h],
     dest |-> [x |-> dx, y |-> dy], alpha |-> alpha, z |-> z]

\* Whole frame, column, row, pixel; without columns, without rows; out of the
\* frame to the right, below, and so far that the offset wraps.
Rects == {
    Rect(0, 0, 2, 2, 0, 0, "opaque", 0),
    Rect(0, 0, 2, 2, 0, 0, "blend", 1),
    Rect(1, 0, 1, 2, 0, 0, "blend", 0),
    Rect(0, 1, 2, 1, 0, 0, "opaque", 1),
    Rect(0, 1, 1, 1, 1, 1, "blend", 1),
    Rect(0, 0, 0, 2, 0, 0, "opaque", 0),
    Rect(0, 0, 2, 0, 0, 1, "opaque", 1),
    Rect(0, 0, 2, 1, 1, 0, "blend", 0),
    Rect(0, 0, 1, 1, 0, 3, "over", 1) }

D(w, h) == [width |-> w, height |-> h]

Call(tokio, header, src, present, t, rs, occlude, checks) ==
    [tokio |-> tokio, header |-> header, srcDim |-> src, present |-> present,
     tgtDim |-> t, rects |-> rs, occlude |-> occlude, checks |-> checks]

\* Up to two rules, with the sizes and headers that matter; three rules over
\* two frames of the usual size.
MCInputs ==
    {Call(e, TRUE, D(2, 2), p, t, rs, o, c) :
        e \in BOOLEAN, p \in {1, 2}, t \in {D(2, 2), D(3, 1), D(3, 2), D(16, 1), D(0, 2)},
        rs \in UNION {[1..k -> Rects] : k \in 0..2}, o \in BOOLEAN, c \in BOOLEAN}
    \cup
    {Call(e, h, d, 1, D(2, 2), <<>>, FALSE, TRUE) :
        e \in BOOLEAN, h \in BOOLEAN, d \in {D(w, k) : w, k \in 0..3}}
    \cup
    {Call(FALSE, TRUE, D(2, 2), 2, D(2, 2), rs, o, FALSE) :
        rs \in [1..3 -> Rects], o \in BOOLEAN}
=============================================================================
