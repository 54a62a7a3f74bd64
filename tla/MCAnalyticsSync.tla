--------------------------- MODULE MCAnalyticsSync ---------------------------
(* Three postings of two accounts, pages of two rows loaded in two INSERTs. *)
EXTENDS AnalyticsSync

CONSTANTS r1, r2, r3, a1, a2

MCDebitOf == (r1 :> a1) @@ (r2 :> a1) @@ (r3 :> a2)
=============================================================================
