----------------------------- MODULE MCReaderPage -----------------------------
(* The reading page when nobody touches it, for TLC.                         *)
EXTENDS ReaderPage
=============================================================================
