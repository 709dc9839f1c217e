----------------------------- MODULE MCRetryAfter -----------------------------
(* One thread asks for a list, and the provider names in Retry-After the date  *)
(* from which it may ask again.                                                *)
EXTENDS RestClient
MCDates == {[form |-> "date", wait |-> 4]}
=============================================================================
