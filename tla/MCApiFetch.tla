------------------------------ MODULE MCApiFetch ------------------------------
(* Instance of ApiFetch for TLC with the code's retry and breaker numbers.   *)
EXTENDS ApiFetch
=============================================================================
