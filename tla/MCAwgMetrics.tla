----------------------------- MODULE MCAwgMetrics -----------------------------
(* Three scrapers, so that one can wait behind another while a third keeps asking. *)
EXTENDS AwgMetrics

MCInterface == <<"mesh-a", "rw-b">>
=============================================================================
