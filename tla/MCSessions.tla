------------------------------ MODULE MCSessions ------------------------------
(***************************************************************************)
(* SessionScheduler on one day's frames: a break, an hour of one           *)
(* application, then a longer stretch of another, all in one session.      *)
(***************************************************************************)
EXTENDS SessionScheduler

CONSTANTS word, browser

OneDay == [t \in 1..LastInstant |-> CASE t \in {3, 4} -> {word}
                                      [] t \in 5..7 -> {browser}
                                      [] OTHER -> {NoApp}]
=============================================================================
