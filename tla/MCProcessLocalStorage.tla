------------------------ MODULE MCProcessLocalStorage ------------------------
(* Semaphores that count to one: an address has a zero in either half.      *)
EXTENDS ProcessLocalStorage
MCAddresses == {4, 8}
=============================================================================
