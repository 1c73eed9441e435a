------------------------------ MODULE MCFaxSend ------------------------------
(***************************************************************************)
(* Instances of FaxSend for TLC.                                           *)
(***************************************************************************)
EXTENDS FaxSend

(* A document of two pages and one of one page.                            *)
MCDocs == <<2, 1>>
=============================================================================
