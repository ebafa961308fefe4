----------------------------- MODULE MCListing ------------------------------
(***************************************************************************)
(* Constants for Listing: two sellers who upload the same file, one of     *)
(* them twice, and three calls that publish what they were told.           *)
(***************************************************************************)
EXTENDS Listing

CONSTANTS h1, s1, s2, u1, u2, u3, c1, c2, c3

MCUploads == {u1, u2, u3}
MCPublishes == {c1, c2, c3}
MCUploadBy == [u \in MCUploads |-> IF u = u3 THEN s2 ELSE s1]
MCContent == [u \in MCUploads |-> h1]
MCPublishBy == [c \in MCPublishes |-> IF c = c3 THEN s2 ELSE s1]
=============================================================================
