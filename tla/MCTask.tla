------------------------------ MODULE MCTask ------------------------------
(* Task with two single-threaded apartments and the multithreaded one.     *)
EXTENDS Task

CONSTANTS sta1, sta2, mta

MCApartments == {sta1, sta2, mta}
MCSTA        == {sta1, sta2}
===========================================================================
