----------------------------- MODULE MCAtEngine -----------------------------
(* Commands of the shapes gsm_data_layer.c sends, with few attempts.       *)
EXTENDS AtEngine

\* ATV1 and most others: expect "OK", nothing at the end.
Plain == [exp |-> "OK", end |-> "", retry |-> 2, info |-> FALSE]
\* AT+CGSN, AT+CSQ: expect "", "OK" at the end.
Query == [exp |-> "", end |-> "OK", retry |-> 1, info |-> TRUE]
\* AT+QCCID, AT+CCLK?: expect the name, "OK" at the end.
Named == [exp |-> "DATA", end |-> "OK", retry |-> 2, info |-> TRUE]

\* AT+CPIN?: expect the information, nothing at the end.
Ready == [exp |-> "DATA", end |-> "", retry |-> 1, info |-> TRUE]

MCCommands == {Plain, Query, Named, Ready}
=============================================================================
