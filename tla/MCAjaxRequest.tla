--------------------------- MODULE MCAjaxRequest ---------------------------
(* An instance of AjaxRequest for TLC. *)
EXTENDS AjaxRequest

\* Requests of an XMLHttpRequest, with global events.
Plain == {[transport |-> "xhr", async |-> TRUE, timeout |-> FALSE, global |-> TRUE,
           beforeSend |-> FALSE, name |-> None]}
=============================================================================
