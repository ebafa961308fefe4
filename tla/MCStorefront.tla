---------------------------- MODULE MCStorefront ----------------------------
(***************************************************************************)
(* Constants for Storefront: two purchases of one buyer and one of another. *)
(* In each scene two or three handlers and a reader meet: a purchase is    *)
(* released, refunded and fulfilled at once; reviews are written twice by  *)
(* one buyer or by two, and deleted, while the statistics are computed.    *)
(***************************************************************************)
EXTENDS Storefront

CONSTANTS p1, p2, p3, b1, b2, s1, s2, h1, h2, h3, h4, h5, h6, t1, v1, v2, v3, v4, v5

MCFor == [c \in {s1, s2} |-> p1]
MCBuyer == [p \in {p1, p2, p3} |-> IF p = p3 THEN b2 ELSE b1]
MCOf == [h \in {h1, h2, h4, h5} |-> IF h = h1 THEN p1 ELSE IF h = h5 THEN p3 ELSE p2]
MCStars == [h \in {h1, h2, h4, h5} |-> IF h \in {h1, h4} THEN 5 ELSE 2]
MCBy == [h \in {h3, h6} |-> b1]
MCPage == [r \in {v1, v2, v3, v4, v5} |->
             CASE r = v1 -> "datapod" [] r = v2 -> p1 [] r = v3 -> "browse"
               [] r = v4 -> "datapods" [] r = v5 -> "top-rated"]
MCScenes ==
    {{p1, s1, s2, v2}, {p1, p2, h1, h2, v1}, {p2, h2, h3, h4, v3}, {p1, h1, h3, t1, v4},
     {p1, p3, h1, h5, v5}, {p2, h2, h3, h6}, {p1, s2, h1, v1}}
=============================================================================
